--------------------------- MODULE UpdateQueueProofs ---------------------------
(***************************************************************************)
(* The invariants of UpdateQueue hold for every number of requests, every  *)
(* maxsize, TTL and batch, with any poller and any consumers.              *)
(***************************************************************************)
EXTENDS UpdateQueue, FiniteSetTheorems, TLAPS

\* Between two calls of PushAll no batch is pending, and only reject_new cuts
\* a batch short: what Retained needs to be inductive.
PushConsistent ==
    /\ push.pc = "idle" => push.batch = {}
    /\ push.overflow => policy = "reject_new"

\* The inductive invariant.
Inv ==
    /\ TypeOK
    /\ PushConsistent
    /\ SeenMatchesQueue
    /\ Bounded
    /\ CursorNotAhead
    /\ Retained

--------------------------------------------------------------------------------
(* Lemmas about the operators *)

Distinct(s) == \A i, j \in DOMAIN s : i # j => s[i].id # s[j].id

\* Cutting the k front items of a deque leaves a deque of the others.
LEMMA CutFront ==
    ASSUME NEW s \in Seq(Item), NEW k \in 0 .. Len(s),
           NEW t, t = SubSeq(s, k + 1, Len(s))
    PROVE  /\ t \in Seq(Item)
           /\ Len(t) = Len(s) - k
           /\ \A i \in 1 .. Len(t) : i + k \in 1 .. Len(s) /\ t[i] = s[i + k]
<1> DEFINE n == Len(s)
<1>1. n \in Nat /\ k \in Nat /\ k <= n
  OBVIOUS
<1>2. \A i \in k + 1 .. n : s[i] \in Item
  BY <1>1
<1> HIDE DEF n
<1>3. /\ SubSeq(s, k + 1, n) \in Seq(Item)
      /\ Len(SubSeq(s, k + 1, n)) = IF k + 1 <= n THEN n - (k + 1) + 1 ELSE 0
      /\ \A i \in 1 .. n - (k + 1) + 1 : SubSeq(s, k + 1, n)[i] = s[(k + 1) + i - 1]
  BY <1>1, <1>2
<1>4. (IF k + 1 <= n THEN n - (k + 1) + 1 ELSE 0) = n - k /\ n - (k + 1) + 1 = n - k
  BY <1>1
<1>5. Len(t) = n - k
  BY <1>3, <1>4, Zenon DEF n
<1>6. \A i \in 1 .. n - k : i + k \in 1 .. n /\ (k + 1) + i - 1 = i + k
  BY <1>1
<1>7. \A i \in 1 .. n - k : t[i] = s[i + k]
  BY <1>3, <1>4, <1>6, Zenon DEF n
<1> QED
  BY <1>3, <1>5, <1>6, <1>7 DEF n

\* Removing the k front items of a deque with distinct ids keeps them distinct
\* and removes exactly the ids of those items.
LEMMA CutFrontIds ==
    ASSUME NEW s \in Seq(Item), Distinct(s), NEW k \in 0 .. Len(s),
           NEW t, t = SubSeq(s, k + 1, Len(s))
    PROVE  /\ Distinct(t)
           /\ IdsOf(t) = IdsOf(s) \ {s[i].id : i \in 1 .. k}
<1>1. /\ t \in Seq(Item) /\ Len(t) = Len(s) - k
      /\ \A i \in 1 .. Len(t) : i + k \in 1 .. Len(s) /\ t[i] = s[i + k]
  BY CutFront
<1>2. DOMAIN s = 1 .. Len(s) /\ DOMAIN t = 1 .. Len(t) /\ Len(s) \in Nat /\ Len(t) \in Nat
  BY <1>1
<1>6. k \in Nat /\ k <= Len(s)
  OBVIOUS
<1>3. Distinct(t)
  <2> SUFFICES ASSUME NEW i \in 1 .. Len(t), NEW j \in 1 .. Len(t), i # j
               PROVE  t[i].id # t[j].id
    BY <1>2, Zenon DEF Distinct
  <2>1. i + k # j + k
    BY <1>6
  <2>2. i + k \in DOMAIN s /\ j + k \in DOMAIN s /\ t[i] = s[i + k] /\ t[j] = s[j + k]
    BY <1>1, <1>2, Zenon
  <2>3. s[i + k].id # s[j + k].id
    BY <2>1, <2>2 DEF Distinct
  <2> QED
    BY <2>2, <2>3, Zenon
<1>4. ASSUME NEW x \in IdsOf(t) PROVE x \in IdsOf(s) \ {s[i].id : i \in 1 .. k}
  <2>1. PICK i \in 1 .. Len(t) : x = t[i].id
    BY <1>2, Zenon DEF IdsOf
  <2>2. i + k \in 1 .. Len(s) /\ x = s[i + k].id
    BY <2>1, <1>1
  <2>3. ASSUME NEW j \in 1 .. k PROVE s[j].id # x
    <3>1. j \in 1 .. Len(s) /\ j # i + k
      BY <1>6, i \in Nat, i > 0, Len(s) \in Nat
    <3> QED
      BY <3>1, <2>2, <1>2, Zenon DEF Distinct
  <2> QED
    BY <2>2, <2>3, <1>2, Zenon DEF IdsOf
<1>5. ASSUME NEW x \in IdsOf(s) \ {s[i].id : i \in 1 .. k} PROVE x \in IdsOf(t)
  <2>1. PICK i \in 1 .. Len(s) : x = s[i].id /\ ~(i \in 1 .. k)
    BY <1>2, Zenon DEF IdsOf
  <2>2. i - k \in 1 .. Len(t) /\ (i - k) + k = i
    BY <2>1, <1>6, Len(t) = Len(s) - k, Len(s) \in Nat
  <2>3. t[i - k] = s[i]
    BY <2>2, <1>1
  <2> QED
    BY <2>1, <2>2, <2>3, <1>2, Zenon DEF IdsOf
<1> QED
  BY <1>3, <1>4, <1>5

\* The image of a finite set of rows under the id column is finite.
LEMMA IdsFinite ==
    ASSUME NEW S \in SUBSET Item, IsFiniteSet(S)
    PROVE  IsFiniteSet({r.id : r \in S})
<1> DEFINE T == {r.id : r \in S}
           f == [r \in S |-> r.id]
<1>1. f \in Surjection(S, T)
  BY DEF Surjection
<1> QED
  BY <1>1, FS_Surjection

\* A finite set of ids becomes a finite set of rows.
LEMMA RowsFinite ==
    ASSUME NEW S, IsFiniteSet(S), NEW t
    PROVE  IsFiniteSet({[id |-> i, at |-> t] : i \in S})
<1> DEFINE T == {[id |-> i, at |-> t] : i \in S}
           f == [i \in S |-> [id |-> i, at |-> t]]
<1>1. f \in Surjection(S, T)
  BY DEF Surjection
<1> QED
  BY <1>1, FS_Surjection

\* Appending an item with a new id keeps ids distinct and adds that id.
LEMMA AppendIds ==
    ASSUME NEW s \in Seq(Item), Distinct(s), NEW e \in Item, e.id \notin IdsOf(s)
    PROVE  /\ Append(s, e) \in Seq(Item)
           /\ Len(Append(s, e)) = Len(s) + 1
           /\ Distinct(Append(s, e))
           /\ IdsOf(Append(s, e)) = IdsOf(s) \cup {e.id}
<1> DEFINE t == Append(s, e)
<1>1. /\ t \in Seq(Item) /\ Len(t) = Len(s) + 1 /\ Len(s) \in Nat
      /\ \A i \in 1 .. Len(s) : t[i] = s[i]
      /\ t[Len(s) + 1] = e
  OBVIOUS
<1>2. DOMAIN s = 1 .. Len(s) /\ DOMAIN t = 1 .. Len(s) + 1
  BY <1>1
<1> HIDE DEF t
<1>3. \A i \in 1 .. Len(s) + 1 : i \in 1 .. Len(s) \/ i = Len(s) + 1
  BY <1>1
<1>4. \A i \in 1 .. Len(s) : s[i].id # e.id
  BY <1>2 DEF IdsOf
<1>5. Distinct(t)
  BY <1>1, <1>2, <1>3, <1>4 DEF Distinct
<1>6. 1 .. Len(s) \subseteq 1 .. Len(s) + 1 /\ Len(s) + 1 \in 1 .. Len(s) + 1
  BY <1>1
<1>7. IdsOf(t) = IdsOf(s) \cup {e.id}
  BY <1>1, <1>2, <1>3, <1>6 DEF IdsOf
<1> QED
  BY <1>1, <1>5, <1>7 DEF t

\* A strictly ascending listing of a finite set of rows is a deque of exactly
\* the ids of that set, each once.
LEMMA ListingIds ==
    ASSUME NEW S \in SUBSET Item, IsFiniteSet(S),
           NEW t \in [1 .. Cardinality(S) -> S],
           \A i, j \in DOMAIN t : i < j => t[i].id < t[j].id
    PROVE  /\ t \in Seq(Item) /\ Len(t) = Cardinality(S)
           /\ Distinct(t)
           /\ IdsOf(t) = {r.id : r \in S}
           /\ \A i \in DOMAIN t : t[i] \in S
<1> DEFINE n == Cardinality(S)
<1>1. n \in Nat
  BY FS_CardinalityType
<1> HIDE DEF n
<1>2. t \in [1 .. n -> S] /\ DOMAIN t = 1 .. n
  BY DEF n
<1>3. t \in Seq(Item) /\ Len(t) = n
  BY <1>1, <1>2
<1>4. \A r \in S : r.id \in Nat
  BY DEF Item
<1>5. Distinct(t)
  <2> SUFFICES ASSUME NEW i \in 1 .. n, NEW j \in 1 .. n, i # j
               PROVE  t[i].id # t[j].id
    BY <1>2 DEF Distinct
  <2>1. i < j \/ j < i
    BY <1>1
  <2>2. t[i].id \in Nat /\ t[j].id \in Nat
    BY <1>2, <1>4, Zenon
  <2>3. t[i].id < t[j].id \/ t[j].id < t[i].id
    BY <1>2, <2>1
  <2> QED
    BY <2>2, <2>3
<1>6. t \in Injection(1 .. n, S)
  BY <1>2, <1>5, Zenon DEF Distinct, Injection, IsInjective
<1>7. IsFiniteSet(1 .. n) /\ Cardinality(1 .. n) = n
  BY <1>1, FS_Interval
<1>8. t \in Surjection(1 .. n, S)
  BY <1>6, <1>7, FS_Injection DEF n
<1>9. IdsOf(t) = {r.id : r \in S}
  BY <1>2, <1>8, Zenon DEF Surjection, IdsOf
<1> QED
  BY <1>2, <1>3, <1>5, <1>9 DEF n

--------------------------------------------------------------------------------
(* Every step preserves the invariant *)

\* What removing front items does to the deque and its dedup set.
LEMMA PopFrontInv ==
    ASSUME TypeOK, SeenMatchesQueue, Bounded,
           NEW k \in 0 .. Len(q), PopFront(k)
    PROVE  /\ q' \in Seq(Item) /\ seen' \subseteq Nat
           /\ SeenMatchesQueue' /\ Bounded'
           /\ \A i \in DOMAIN q' : q'[i].id \in IdsOf(q) /\ q'[i].id \notin {q[j].id : j \in 1 .. k}
<1>1. q \in Seq(Item) /\ Distinct(q) /\ q' = SubSeq(q, k + 1, Len(q))
  BY DEF TypeOK, SeenMatchesQueue, Distinct, PopFront
<1>2. q' \in Seq(Item) /\ Len(q') = Len(q) - k
  BY <1>1, CutFront
<1>3. Distinct(q') /\ IdsOf(q') = IdsOf(q) \ {q[i].id : i \in 1 .. k}
  BY <1>1, CutFrontIds, Zenon
<1>4. Len(q) \in Nat /\ k \in Nat /\ MaxSize \in Nat
  BY <1>1, QueueAssumption
<1>5. Bounded'
  BY <1>2, <1>4 DEF Bounded
<1>6. SeenMatchesQueue'
  BY <1>3 DEF SeenMatchesQueue, Distinct, PopFront
<1>7. seen' \subseteq Nat
  BY Zenon DEF PopFront, TypeOK
<1> QED
  BY <1>2, <1>3, <1>5, <1>6, <1>7, Zenon DEF IdsOf

\* pruneExpiredLocked removes a prefix of the deque and forgets its ids.
LEMMA PushLockInv ==
    ASSUME Inv, NEW updates \in Batches, PushLock(updates)
    PROVE  Inv'
<1> DEFINE stale == {r \in rows : TTL > 0 /\ r.at < now - TTL}
<1>1. PICK k \in 0 .. Len(q), gone \in {stale, {}} :
        /\ PopFront(k)
        /\ IF gone = stale THEN UNCHANGED faults ELSE Fault
        /\ rows' = rows \ gone
        /\ excused' = excused \cup {q[i].id : i \in 1 .. k} \cup {r.id : r \in gone}
  BY DEF PushLock
<1>2. /\ q' \in Seq(Item) /\ seen' \subseteq Nat
      /\ SeenMatchesQueue' /\ Bounded'
      /\ \A i \in DOMAIN q' : q'[i].id \in IdsOf(q)
  BY <1>1, PopFrontInv DEF Inv
<1>3. gone \subseteq rows
  OBVIOUS
<1> HIDE DEF stale
<1>4. rows' \subseteq Item /\ IsFiniteSet(rows')
  BY <1>1, FS_Subset DEF Inv, TypeOK
<1>5. updates \in Seq(Nat)
  BY QueueAssumption DEF Batches, Ids, NoId
<1>6. /\ push' = [pc |-> "loop", todo |-> updates, batch |-> {}, overflow |-> FALSE]
      /\ push.pc = "idle"
      /\ pushes' = pushes + 1
      /\ UNCHANGED <<consumerOffset, unloadedBacklog, policy, dbOffset, calls, now, restarts, corrupt>>
  BY Zenon DEF PushLock, Idle
<1>7. TypeOK'
  <2>1. faults' \in Nat
    BY <1>1 DEF Inv, TypeOK, Fault
  <2>2. excused' \subseteq Nat
    <3>1. q \in Seq(Item) /\ gone \subseteq Item /\ excused \subseteq Nat
      BY <1>3 DEF Inv, TypeOK
    <3>2. \A i \in 1 .. k : q[i] \in Item
      BY <3>1
    <3>3. \A e \in Item : e.id \in Nat
      BY DEF Item
    <3>4. {q[i].id : i \in 1 .. k} \subseteq Nat
      BY <3>2, <3>3
    <3>5. {r.id : r \in gone} \subseteq Nat
      BY <3>1, <3>3
    <3> QED
      BY <1>1, <3>1, <3>4, <3>5, Zenon
  <2>3. IsFiniteSet(push'.batch)
    BY <1>6, FS_EmptySet
  <2>4. push' \in [pc : {"idle", "loop", "persist"}, todo : Seq(Nat),
                   batch : SUBSET Nat, overflow : BOOLEAN]
    BY <1>5, <1>6
  <2>5. pushes' \in Nat
    BY <1>6 DEF Inv, TypeOK
  <2> QED
    BY <1>2, <1>4, <1>6, <2>1, <2>2, <2>3, <2>4, <2>5, Zenon DEF Inv, TypeOK, calls
<1>8. CursorNotAhead'
  BY <1>6 DEF Inv, CursorNotAhead, calls
<1>9. Retained'
  <2> SUFFICES ASSUME policy' = "drop_oldest", NEW i \in DOMAIN q', q'[i].id > consumerOffset'
               PROVE  q'[i].id \in RowIds' \cup push'.batch \cup excused'
    BY DEF Retained
  <2>1. PICK j \in DOMAIN q : q[j].id = q'[i].id
    BY <1>2 DEF IdsOf
  <2>2. q[j].id \in RowIds \cup push.batch \cup excused
    BY <2>1, <1>6 DEF Inv, Retained
  <2>3. push.batch = {}
    BY <1>6 DEF Inv, PushConsistent
  <2> QED
    BY <1>1, <1>3, <2>1, <2>2, <2>3 DEF RowIds
<1>10. PushConsistent'
  BY <1>6 DEF PushConsistent
<1> QED
  BY <1>2, <1>7, <1>8, <1>9, <1>10 DEF Inv

\* One update: a redelivery, a rejection, or an append after an eviction.
LEMMA PushOneInv ==
    ASSUME Inv, PushOne
    PROVE  Inv'
<1> DEFINE u    == Head(push.todo)
           uid  == IF u # NoId THEN u
                   ELSE IF q # <<>> THEN q[Len(q)].id + 1
                   ELSE consumerOffset + 1
           full == Full
           rest == IF full THEN Tail(q) ELSE q
           out  == IF full THEN {Head(q).id} ELSE {}
<1>1. /\ push.pc = "loop" /\ push.todo # <<>>
      /\ UNCHANGED <<consumerOffset, unloadedBacklog, policy, disk, calls, budget, history>>
  BY DEF PushOne
<1>2. /\ q \in Seq(Item) /\ Len(q) \in Nat /\ Distinct(q) /\ seen = IdsOf(q)
      /\ consumerOffset \in Nat /\ now \in Nat
      /\ push.todo \in Seq(Nat) /\ Len(q) <= MaxSize /\ MaxSize \in Nat \ {0}
  BY QueueAssumption DEF Inv, TypeOK, SeenMatchesQueue, Distinct, Bounded
<1>3. u \in Nat /\ Tail(push.todo) \in Seq(Nat)
  BY <1>1, <1>2
<1>4. uid \in Nat
  <2>1. CASE q = <<>>
    BY <1>2, <1>3, <2>1
  <2>2. CASE q # <<>>
    <3>1. Len(q) \in 1 .. Len(q)
      BY <1>2, <2>2
    <3>3. q[Len(q)] \in Item
      BY <1>2, <3>1
    <3>2. q[Len(q)].id \in Nat
      BY <3>3 DEF Item
    <3>4. q[Len(q)].id + 1 \in Nat
      BY <3>2
    <3> QED
      BY <3>4, <2>2, <1>3
  <2> QED
    BY <2>1, <2>2
<1> HIDE DEF uid
<1>5. CursorNotAhead'
  BY <1>1 DEF Inv, CursorNotAhead, disk, calls
<1>6. CASE /\ q' = q /\ seen' = seen
           /\ \/ push' = [push EXCEPT !.todo = Tail(@)]
              \/ /\ push' = [push EXCEPT !.todo = <<>>, !.overflow = TRUE]
                 /\ policy = "reject_new"
  <2>1. <<>> \in Seq(Nat)
    OBVIOUS
  <2>2. /\ push'.pc = "loop" /\ push'.batch = push.batch /\ push'.todo \in Seq(Nat)
        /\ push'.overflow = push.overflow \/ policy = "reject_new"
        /\ push' \in [pc : {"idle", "loop", "persist"}, todo : Seq(Nat),
                     batch : SUBSET Nat, overflow : BOOLEAN]
    BY <1>1, <1>3, <1>6, <2>1, Zenon DEF Inv, TypeOK
  <2>3. TypeOK'
    BY <1>1, <1>6, <2>2, Zenon DEF Inv, TypeOK, disk, calls, budget, history
  <2>4. PushConsistent'
    BY <1>1, <2>2 DEF Inv, PushConsistent
  <2>5. SeenMatchesQueue' /\ Bounded'
    BY <1>6 DEF Inv, SeenMatchesQueue, Bounded
  <2>6. Retained'
    BY <1>1, <1>6, <2>2 DEF Inv, Retained, RowIds, disk, history
  <2> QED
    BY <1>5, <2>3, <2>4, <2>5, <2>6 DEF Inv
<1>7. CASE /\ uid \notin seen
           /\ q' = Append(rest, [id |-> uid, at |-> now])
           /\ seen' = (seen \ out) \cup {uid}
           /\ push' = [push EXCEPT !.todo = Tail(@), !.batch = @ \cup {uid}]
  <2>1. /\ rest \in Seq(Item) /\ Distinct(rest) /\ IdsOf(rest) = seen \ out
        /\ Len(rest) + 1 <= MaxSize
        /\ \A i \in DOMAIN rest : rest[i].id \in IdsOf(q)
    <3>1. CASE ~full
      BY <1>2, <3>1 DEF IdsOf, Full
    <3>2. CASE full
      <4>1. q # <<>> /\ 1 \in 0 .. Len(q) /\ Head(q) = q[1]
        BY <1>2, <3>2 DEF Full
      <4>2. Tail(q) = SubSeq(q, 1 + 1, Len(q))
        BY <1>2, <4>1
      <4>3. /\ Tail(q) \in Seq(Item) /\ Len(Tail(q)) = Len(q) - 1
        BY <1>2, <4>1, <4>2, CutFront
      <4>4. Distinct(Tail(q)) /\ IdsOf(Tail(q)) = IdsOf(q) \ {q[i].id : i \in 1 .. 1}
        BY <1>2, <4>1, <4>2, CutFrontIds, Zenon
      <4>5. {q[i].id : i \in 1 .. 1} = {Head(q).id}
        BY <4>1
      <4>6. Len(Tail(q)) + 1 <= MaxSize
        BY <4>3, <1>2
      <4>7. rest = Tail(q) /\ out = {Head(q).id}
        BY <3>2, Zenon
      <4>8. IdsOf(rest) = seen \ out
        BY <1>2, <4>4, <4>5, <4>7, Zenon
      <4>9. \A i \in DOMAIN rest : rest[i].id \in IdsOf(q)
        BY <4>4, <4>7, Zenon DEF IdsOf
      <4> QED
        BY <4>3, <4>4, <4>6, <4>7, <4>8, <4>9, Zenon
    <3> QED
      BY <3>1, <3>2
  <2> HIDE DEF rest, full, out
  <2> DEFINE e == [id |-> uid, at |-> now]
  <2>2. e \in Item /\ e.id = uid /\ e.id \notin IdsOf(rest)
    BY <1>2, <1>4, <1>7, <2>1 DEF Item
  <2>3. /\ q' \in Seq(Item) /\ Len(q') = Len(rest) + 1 /\ Distinct(q')
        /\ IdsOf(q') = IdsOf(rest) \cup {uid}
    BY <1>7, <2>1, <2>2, AppendIds
  <2>4. SeenMatchesQueue' /\ Bounded'
    BY <1>7, <2>1, <2>3 DEF SeenMatchesQueue, Distinct, Bounded
  <2>5. /\ push'.pc = "loop" /\ push'.batch = push.batch \cup {uid}
        /\ push'.overflow = push.overflow
        /\ push' \in [pc : {"idle", "loop", "persist"}, todo : Seq(Nat),
                     batch : SUBSET Nat, overflow : BOOLEAN]
    BY <1>1, <1>3, <1>4, <1>7, Zenon DEF Inv, TypeOK
  <2>6. IsFiniteSet(push'.batch)
    <3>1. IsFiniteSet(push.batch)
      BY DEF Inv, TypeOK
    <3>2. IsFiniteSet(push.batch \cup {uid})
      BY <3>1, FS_AddElement
    <3> QED
      BY <2>5, <3>2
  <2>7. seen' \subseteq Nat
    BY <1>4, <1>7 DEF Inv, TypeOK
  <2>8. TypeOK'
    BY <1>1, <2>3, <2>5, <2>6, <2>7 DEF Inv, TypeOK, disk, calls, budget, history
  <2>9. PushConsistent'
    BY <1>1, <2>5 DEF Inv, PushConsistent
  <2>10. Retained'
    <3> HIDE DEF e
    <3> SUFFICES ASSUME policy = "drop_oldest", NEW i \in DOMAIN q', q'[i].id > consumerOffset
                 PROVE  q'[i].id \in RowIds \cup push'.batch \cup excused
      BY <1>1 DEF Retained, RowIds, disk, history
    <3>1. q'[i].id = uid \/ q'[i].id \in IdsOf(q)
      BY <1>2, <2>1, <2>3, Zenon DEF IdsOf
    <3>2. CASE q'[i].id = uid
      BY <3>2, <2>5
    <3>3. CASE q'[i].id \in IdsOf(q)
      BY <3>3, <2>5 DEF Inv, Retained, IdsOf
    <3> QED
      BY <3>1, <3>2, <3>3
  <2> QED
    BY <1>5, <2>4, <2>8, <2>9, <2>10 DEF Inv
<1> QED
  BY <1>6, <1>7 DEF PushOne, uid

\* Releasing the mutex leaves the deque alone.
LEMMA PushUnlockInv ==
    ASSUME Inv, PushUnlock
    PROVE  Inv'
<1>1. /\ push.pc = "loop"
      /\ woken' = [c \in Requests |-> woken[c] \/ pc[c] = "wait"]
      /\ push' = IF push.overflow \/ push.batch = {} THEN Idle
                 ELSE [push EXCEPT !.pc = "persist"]
      /\ UNCHANGED <<memory, disk, policy, pc, acked, budget, history>>
  BY DEF PushUnlock
<1>2. /\ push' \in [pc : {"idle", "loop", "persist"}, todo : Seq(Nat),
                    batch : SUBSET Nat, overflow : BOOLEAN]
      /\ push'.pc = "idle" => push'.batch = {}
      /\ push'.overflow => push.overflow
      /\ push'.batch = push.batch \/ push'.batch = {}
      /\ ~push.overflow => push'.batch = push.batch
  <2>1. <<>> \in Seq(Nat)
    OBVIOUS
  <2> QED
    BY <1>1, <2>1, Zenon DEF Inv, TypeOK, Idle
<1>3. IsFiniteSet(push'.batch)
  BY <1>2, FS_EmptySet, Zenon DEF Inv, TypeOK
<1>4. woken' \in [Requests -> BOOLEAN]
  BY <1>1
<1>5. TypeOK'
  BY <1>1, <1>2, <1>3, <1>4, Zenon DEF Inv, TypeOK, memory, disk, budget, history
<1>6. PushConsistent'
  BY <1>1, <1>2 DEF Inv, PushConsistent
<1>7. SeenMatchesQueue' /\ Bounded' /\ CursorNotAhead'
  BY <1>1 DEF Inv, SeenMatchesQueue, Bounded, CursorNotAhead, memory, disk
<1>8. Retained'
  BY <1>1, <1>2 DEF Inv, PushConsistent, Retained, RowIds, memory, disk, history
<1> QED
  BY <1>5, <1>6, <1>7, <1>8 DEF Inv

\* The transaction moves the ids of the batch into the table, or excuses them.
LEMMA PushPersistInv ==
    ASSUME Inv, PushPersist
    PROVE  Inv'
<1>15. PICK lost \in SUBSET push.batch :
          /\ rows' = rows \cup {[id |-> i, at |-> now] : i \in push.batch \ (RowIds \cup lost)}
          /\ excused' = excused \cup lost
          /\ IF lost = {} THEN UNCHANGED faults ELSE Fault
  BY DEF PushPersist
<1> DEFINE new == {[id |-> i, at |-> now] : i \in push.batch \ (RowIds \cup lost)}
<1>1. /\ rows' = rows \cup new /\ excused' = excused \cup lost
      /\ UNCHANGED faults \/ Fault
      /\ push' = Idle
      /\ UNCHANGED <<memory, dbOffset, policy, calls, now, pushes, restarts, corrupt>>
  BY <1>15 DEF PushPersist
<1>2. new \subseteq Item
  BY DEF Inv, TypeOK, Item
<1>3. IsFiniteSet(push.batch) /\ IsFiniteSet(rows)
  BY DEF Inv, TypeOK
<1>4. IsFiniteSet(push.batch \ (RowIds \cup lost))
  BY <1>3, FS_Subset
<1>5. IsFiniteSet(new)
  BY <1>4, RowsFinite, Zenon
<1>6. RowIds \cup push.batch \subseteq {r.id : r \in rows \cup new} \cup lost
  <2>1. ASSUME NEW i \in push.batch, i \notin RowIds, i \notin lost
        PROVE  i \in {r.id : r \in rows \cup new}
    <3> DEFINE r0 == [id |-> i, at |-> now]
    <3>1. r0 \in new /\ r0.id = i
      BY <2>1
    <3> HIDE DEF r0, new
    <3>2. r0 \in rows \cup new
      BY <3>1
    <3> QED
      BY <3>1, <3>2
  <2> QED
    BY <2>1 DEF RowIds
<1> HIDE DEF new
<1>7. rows' \subseteq Item /\ IsFiniteSet(rows')
  <2>1. IsFiniteSet(rows \cup new)
    BY <1>3, <1>5, FS_Union, Zenon
  <2> QED
    BY <1>1, <1>2, <1>3, <2>1 DEF Inv, TypeOK
<1>8. push' \in [pc : {"idle", "loop", "persist"}, todo : Seq(Nat),
                batch : SUBSET Nat, overflow : BOOLEAN]
  <2>1. <<>> \in Seq(Nat)
    OBVIOUS
  <2> QED
    BY <1>1, <2>1 DEF Idle
<1>9. push'.pc = "idle" /\ push'.batch = {} /\ ~push'.overflow /\ IsFiniteSet(push'.batch)
  BY <1>1, FS_EmptySet DEF Idle
<1>10. faults' \in Nat /\ excused' \subseteq Nat
  <2>1. push.batch \subseteq Nat /\ excused \subseteq Nat /\ faults \in Nat
    BY DEF Inv, TypeOK
  <2>2. faults' = faults \/ faults' = faults + 1
    BY <1>1 DEF Fault
  <2>3. excused' = excused \cup lost /\ lost \subseteq push.batch
    BY <1>1
  <2>4. faults' \in Nat
    BY <2>1, <2>2
  <2>5. excused' \subseteq Nat
    BY <2>1, <2>3, Zenon
  <2> QED
    BY <2>4, <2>5
<1>11. TypeOK'
  BY <1>1, <1>7, <1>8, <1>9, <1>10 DEF Inv, TypeOK, memory, calls
<1>12. PushConsistent'
  BY <1>9 DEF PushConsistent
<1>13. SeenMatchesQueue' /\ Bounded' /\ CursorNotAhead'
  BY <1>1, Zenon DEF Inv, SeenMatchesQueue, Bounded, CursorNotAhead, memory, calls
<1>14. Retained'
  <2>1. RowIds \cup push.batch \cup excused \subseteq RowIds' \cup excused'
    BY <1>1, <1>6 DEF RowIds
  <2> QED
    BY <1>1, <2>1 DEF Inv, Retained, memory
<1> QED
  BY <1>11, <1>12, <1>13, <1>14 DEF Inv

\* The locked part of Ack removes a prefix and raises the offset.
LEMMA AckLockedInv ==
    ASSUME Inv, NEW c \in Requests, NEW lastSeen \in Int, AckLocked(c, lastSeen)
    PROVE  Inv'
<1> DEFINE top == Larger(lastSeen, consumerOffset)
<1>1. top \in Nat /\ top >= consumerOffset
  BY DEF Inv, TypeOK, Larger
<1> HIDE DEF top
<1>2. PICK k \in 0 .. Len(q) : PopFront(k)
  BY DEF AckLocked
<1>3. /\ consumerOffset' = top
      /\ acked' = [acked EXCEPT ![c] = top]
      /\ pc' = [pc EXCEPT ![c] = "delete"]
      /\ UNCHANGED <<unloadedBacklog, policy, disk, push, woken, budget, history>>
  BY DEF AckLocked, Goto, top
<1>4. /\ q' \in Seq(Item) /\ seen' \subseteq Nat
      /\ SeenMatchesQueue' /\ Bounded'
      /\ \A i \in DOMAIN q' : q'[i].id \in IdsOf(q)
  BY <1>2, PopFrontInv DEF Inv
<1>5. TypeOK'
  BY <1>1, <1>3, <1>4, Zenon DEF Inv, TypeOK, disk, budget, history
<1>6. PushConsistent'
  BY <1>3, Zenon DEF Inv, PushConsistent
<1>7. CursorNotAhead'
  <2>1. dbOffset \in Nat /\ consumerOffset \in Nat /\ dbOffset <= consumerOffset
    BY DEF Inv, TypeOK, CursorNotAhead
  <2>2. dbOffset' <= consumerOffset'
    BY <1>1, <1>3, <2>1 DEF disk
  <2>3. ASSUME NEW d \in Requests, pc'[d] \in {"delete", "upsert"}
        PROVE  acked'[d] <= consumerOffset'
    <3>1. CASE d = c
      BY <3>1, <1>1, <1>3 DEF Inv, TypeOK
    <3>2. CASE d # c
      <4>1. acked'[d] = acked[d] /\ pc'[d] = pc[d] /\ acked[d] \in Nat
        BY <3>2, <1>3 DEF Inv, TypeOK
      <4>2. acked[d] <= consumerOffset
        BY <4>1, <2>3 DEF Inv, CursorNotAhead
      <4> QED
        BY <4>1, <4>2, <1>1, <1>3, <2>1
    <3> QED
      BY <3>1, <3>2
  <2> QED
    BY <2>2, <2>3 DEF CursorNotAhead
<1>8. Retained'
  <2> SUFFICES ASSUME policy = "drop_oldest", NEW i \in DOMAIN q', q'[i].id > consumerOffset'
               PROVE  q'[i].id \in RowIds \cup push.batch \cup excused
    BY <1>3 DEF Retained, RowIds, disk, history
  <2>1. PICK j \in DOMAIN q : q[j].id = q'[i].id
    BY <1>4 DEF IdsOf
  <2>2. q[j] \in Item
    BY DEF Inv, TypeOK
  <2>3. q[j].id > consumerOffset
    BY <1>1, <1>3, <2>1, <2>2 DEF Inv, TypeOK, Item
  <2> QED
    BY <2>1, <2>3 DEF Inv, Retained
<1> QED
  BY <1>4, <1>5, <1>6, <1>7, <1>8 DEF Inv

\* The DELETE of an Ack only removes rows the memory has acknowledged.
LEMMA AckDeleteInv ==
    ASSUME Inv, NEW c \in Requests, AckDelete(c)
    PROVE  Inv'
<1>1. /\ pc[c] = "delete"
      /\ \/ /\ rows' = {r \in rows : r.id > acked[c]}
            /\ pc' = [pc EXCEPT ![c] = "upsert"]
            /\ UNCHANGED <<faults, acked>>
         \/ /\ Fault
            /\ pc' = [pc EXCEPT ![c] = "scan"]
            /\ acked' = [acked EXCEPT ![c] = 0]
            /\ UNCHANGED rows
      /\ UNCHANGED <<memory, dbOffset, policy, push, woken, now, pushes, restarts, history>>
  BY DEF AckDelete, Goto
<1>2. rows' \subseteq rows /\ rows \subseteq Item /\ IsFiniteSet(rows)
  BY <1>1 DEF Inv, TypeOK
<1>3. IsFiniteSet(rows')
  BY <1>2, FS_Subset
<1>4. faults' \in Nat
  <2>1. faults \in Nat
    BY DEF Inv, TypeOK
  <2>2. faults' = faults \/ faults' = faults + 1
    BY <1>1 DEF Fault
  <2> QED
    BY <2>1, <2>2
<1>5. TypeOK'
  <2>1. /\ pc' \in [Requests -> {"idle", "delete", "upsert", "scan", "subscribe", "wait"}]
        /\ acked' \in [Requests -> Nat]
    <3>1. /\ pc \in [Requests -> {"idle", "delete", "upsert", "scan", "subscribe", "wait"}]
          /\ acked \in [Requests -> Nat]
      BY DEF Inv, TypeOK
    <3>2. pc' = [pc EXCEPT ![c] = "upsert"] \/ pc' = [pc EXCEPT ![c] = "scan"]
      BY <1>1
    <3>3. acked' = acked \/ acked' = [acked EXCEPT ![c] = 0]
      BY <1>1
    <3>4. pc' \in [Requests -> {"idle", "delete", "upsert", "scan", "subscribe", "wait"}]
      BY <3>1, <3>2
    <3>5. acked' \in [Requests -> Nat]
      BY <3>1, <3>3
    <3> QED
      BY <3>4, <3>5
  <2> QED
    BY <1>1, <1>2, <1>3, <1>4, <2>1 DEF Inv, TypeOK, memory, history
<1>6. PushConsistent' /\ SeenMatchesQueue' /\ Bounded'
  BY <1>1 DEF Inv, PushConsistent, SeenMatchesQueue, Bounded, memory
<1>7. acked[c] \in Nat /\ consumerOffset \in Nat /\ acked[c] <= consumerOffset
  BY <1>1 DEF Inv, TypeOK, CursorNotAhead
<1>8. CursorNotAhead'
  <2> SUFFICES ASSUME NEW d \in Requests, pc'[d] \in {"delete", "upsert"}
               PROVE  acked'[d] <= consumerOffset
    BY <1>1 DEF Inv, CursorNotAhead, memory
  <2>1. acked'[d] = acked[d] /\ (d = c \/ pc'[d] = pc[d])
    BY <1>1 DEF Inv, TypeOK
  <2> QED
    BY <1>7, <2>1 DEF Inv, CursorNotAhead
<1>9. Retained'
  <2> SUFFICES ASSUME policy = "drop_oldest", NEW i \in DOMAIN q, q[i].id > consumerOffset
               PROVE  q[i].id \in RowIds' \cup push.batch \cup excused
    BY <1>1 DEF Retained, memory, history
  <2>1. q[i].id \in RowIds \cup push.batch \cup excused
    BY DEF Inv, Retained
  <2>2. ASSUME q[i].id \in RowIds PROVE q[i].id \in RowIds'
    <3>1. PICK r \in rows : r.id = q[i].id
      BY <2>2 DEF RowIds
    <3>2. r.id \in Nat
      BY <1>2, <3>1 DEF Item
    <3>3. r.id > acked[c]
      BY <1>7, <3>1, <3>2
    <3>4. r \in rows'
      BY <1>1, <3>3, Zenon
    <3> QED
      BY <3>1, <3>4 DEF RowIds
  <2> QED
    BY <2>1, <2>2
<1> QED
  BY <1>5, <1>6, <1>8, <1>9 DEF Inv

\* The offset an Ack writes is one the memory has reached.
LEMMA AckUpsertInv ==
    ASSUME Inv, NEW c \in Requests, AckUpsert(c)
    PROVE  Inv'
<1>1. /\ pc[c] = "upsert"
      /\ pc' = [pc EXCEPT ![c] = "scan"]
      /\ acked' = [acked EXCEPT ![c] = 0]
      /\ \/ dbOffset' = acked[c] /\ UNCHANGED faults
         \/ Fault /\ UNCHANGED dbOffset
      /\ UNCHANGED <<memory, rows, policy, push, woken, now, pushes, restarts, history>>
  BY DEF AckUpsert, Goto
<1>2. acked[c] \in Nat /\ acked[c] <= consumerOffset
  BY <1>1 DEF Inv, TypeOK, CursorNotAhead
<1>3. faults' \in Nat /\ dbOffset' \in Nat /\ dbOffset' <= consumerOffset
  <2>1. faults \in Nat /\ dbOffset \in Nat /\ dbOffset <= consumerOffset
    BY DEF Inv, TypeOK, CursorNotAhead
  <2>2. faults' = faults \/ faults' = faults + 1
    BY <1>1 DEF Fault
  <2>3. dbOffset' = acked[c] \/ dbOffset' = dbOffset
    BY <1>1
  <2> QED
    BY <1>2, <2>1, <2>2, <2>3
<1>4. TypeOK'
  BY <1>1, <1>3 DEF Inv, TypeOK, memory, history
<1>5. PushConsistent' /\ SeenMatchesQueue' /\ Bounded'
  BY <1>1 DEF Inv, PushConsistent, SeenMatchesQueue, Bounded, memory
<1>6. CursorNotAhead'
  <2> SUFFICES ASSUME NEW d \in Requests, pc'[d] \in {"delete", "upsert"}
               PROVE  acked'[d] <= consumerOffset
    BY <1>1, <1>3 DEF CursorNotAhead, memory
  <2>1. d # c /\ acked'[d] = acked[d] /\ pc'[d] = pc[d]
    BY <1>1 DEF Inv, TypeOK
  <2> QED
    BY <2>1 DEF Inv, CursorNotAhead
<1>7. Retained'
  BY <1>1 DEF Inv, Retained, RowIds, memory, history
<1> QED
  BY <1>4, <1>5, <1>6, <1>7 DEF Inv

\* The steps of Pull that touch neither the deque nor the tables, and time.
LEMMA QuietInv ==
    ASSUME Inv,
           \/ \E c \in Requests :
                 PullCall(c) \/ Scan(c) \/ Subscribe(c) \/ Wake(c) \/ GiveUp(c)
           \/ Tick
    PROVE  Inv'
<1>1. /\ UNCHANGED <<memory, disk, policy, push, acked, pushes, faults, restarts, history>>
      /\ now' = now \/ now' = now + 1
      /\ \/ pc' = pc
         \/ \E c \in Requests : \E l \in {"idle", "scan", "subscribe", "wait"} :
               pc' = [pc EXCEPT ![c] = l]
      /\ woken' = woken \/ \E c \in Requests : woken' = [woken EXCEPT ![c] = FALSE]
  BY DEF PullCall, Scan, Subscribe, Wake, GiveUp, Tick, Goto, calls, budget
<1>2. pc' \in [Requests -> {"idle", "delete", "upsert", "scan", "subscribe", "wait"}]
  <2>1. pc \in [Requests -> {"idle", "delete", "upsert", "scan", "subscribe", "wait"}]
    BY DEF Inv, TypeOK
  <2>2. CASE pc' = pc
    BY <2>1, <2>2
  <2>3. CASE \E c \in Requests : \E l \in {"idle", "scan", "subscribe", "wait"} :
                 pc' = [pc EXCEPT ![c] = l]
    BY <2>1, <2>3
  <2> QED
    BY <1>1, <2>2, <2>3
<1>3. woken' \in [Requests -> BOOLEAN] /\ now' \in Nat
  <2>1. woken \in [Requests -> BOOLEAN] /\ now \in Nat
    BY DEF Inv, TypeOK
  <2>2. woken' \in [Requests -> BOOLEAN]
    BY <1>1, <2>1, Zenon
  <2>3. now' \in Nat
    BY <1>1, <2>1
  <2> QED
    BY <2>2, <2>3
<1>4. TypeOK'
  BY <1>1, <1>2, <1>3 DEF Inv, TypeOK, memory, disk, history
<1>5. PushConsistent' /\ SeenMatchesQueue' /\ Bounded' /\ Retained'
  BY <1>1, Zenon DEF Inv, PushConsistent, SeenMatchesQueue, Bounded, Retained, RowIds, memory, disk, history
<1>6. \A d \in Requests : pc'[d] \in {"delete", "upsert"} => pc'[d] = pc[d]
  BY <1>1 DEF Inv, TypeOK
<1>7. CursorNotAhead'
  BY <1>1, <1>6, Zenon DEF Inv, CursorNotAhead, memory, disk
<1> QED
  BY <1>4, <1>5, <1>7 DEF Inv

\* A reload rebuilds the deque, the dedup set and the offset from disk.
LEMMA RestartInv ==
    ASSUME Inv, Restart
    PROVE  Inv'
<1> DEFINE live == {r \in rows : r.id > dbOffset /\ ~Aged(r.at)}
           kept == {r \in rows : r.id > dbOffset}
           Load(cap, bad) == {r \in cap : r.id \notin bad}
<1>15. PICK cap \in SUBSET live :
        /\ Cardinality(cap) <= MaxSize
        /\ \E bad \in SUBSET {r.id : r \in cap} :
              /\ faults' = faults + Cardinality(bad \ corrupt)
              /\ corrupt' = corrupt \cup bad
              /\ q' \in [1 .. Cardinality(Load(cap, bad)) -> Load(cap, bad)]
              /\ \A i, j \in DOMAIN q' : i < j => q'[i].id < q'[j].id
              /\ seen' = {r.id : r \in Load(cap, bad)}
              /\ unloadedBacklog' = Cardinality(kept) - Cardinality(Load(cap, bad))
  BY Zenon DEF Restart
<1>1. PICK bad \in SUBSET {r.id : r \in cap} :
        /\ faults' = faults + Cardinality(bad \ corrupt)
        /\ corrupt' = corrupt \cup bad
        /\ q' \in [1 .. Cardinality(Load(cap, bad)) -> Load(cap, bad)]
        /\ \A i, j \in DOMAIN q' : i < j => q'[i].id < q'[j].id
        /\ seen' = {r.id : r \in Load(cap, bad)}
        /\ unloadedBacklog' = Cardinality(kept) - Cardinality(Load(cap, bad))
  BY <1>15, Zenon
<1>2. /\ restarts' = restarts + 1
      /\ consumerOffset' = dbOffset
      /\ rows' = kept
      /\ push' = Idle
      /\ pc' = [c \in Requests |-> "idle"]
      /\ acked' = [c \in Requests |-> 0]
      /\ woken' = [c \in Requests |-> FALSE]
      /\ excused' = excused \cup {r.id : r \in kept \ live}
      /\ UNCHANGED <<policy, dbOffset, now, pushes>>
  BY DEF Restart
<1> DEFINE load == Load(cap, bad)
<1>3. /\ rows \subseteq Item /\ IsFiniteSet(rows)
      /\ kept \subseteq rows /\ cap \subseteq kept /\ load \subseteq cap
  BY DEF Inv, TypeOK
<1> HIDE DEF live, kept, Load
<1>4. /\ IsFiniteSet(kept) /\ IsFiniteSet(cap) /\ IsFiniteSet(load)
      /\ Cardinality(kept) \in Nat /\ Cardinality(cap) \in Nat /\ Cardinality(load) \in Nat
      /\ Cardinality(load) <= Cardinality(cap) /\ Cardinality(cap) <= Cardinality(kept)
  <2>1. IsFiniteSet(kept) /\ Cardinality(kept) \in Nat
    BY <1>3, FS_Subset, FS_CardinalityType
  <2>2. IsFiniteSet(cap) /\ Cardinality(cap) \in Nat /\ Cardinality(cap) <= Cardinality(kept)
    BY <1>3, <2>1, FS_Subset, FS_CardinalityType
  <2>3. IsFiniteSet(load) /\ Cardinality(load) \in Nat /\ Cardinality(load) <= Cardinality(cap)
    BY <1>3, <2>2, FS_Subset, FS_CardinalityType, Zenon
  <2> QED
    BY <2>1, <2>2, <2>3
<1>5. load \in SUBSET Item /\ cap \in SUBSET Item
  BY <1>3
<1>6. /\ q' \in Seq(Item) /\ Len(q') = Cardinality(load)
      /\ Distinct(q')
      /\ IdsOf(q') = {r.id : r \in load}
      /\ \A i \in DOMAIN q' : q'[i] \in load
  BY <1>1, <1>4, <1>5, ListingIds, Zenon
<1>7. SeenMatchesQueue'
  BY <1>1, <1>6 DEF SeenMatchesQueue, Distinct
<1>8. Bounded'
  <2>1. Cardinality(cap) <= MaxSize /\ MaxSize \in Nat
    BY <1>15, QueueAssumption
  <2>2. Len(q') <= MaxSize
    BY <1>4, <1>6, <2>1
  <2> QED
    BY <2>2, Zenon DEF Bounded
<1>9. unloadedBacklog' \in Nat
  BY <1>1, <1>4
<1>10. bad \subseteq Nat /\ faults' \in Nat
  <2>1. \A r \in Item : r.id \in Nat
    BY DEF Item
  <2>2. bad \subseteq Nat
    BY <1>1, <1>5, <2>1
  <2>3. IsFiniteSet({r.id : r \in cap})
    BY <1>4, <1>5, IdsFinite
  <2>4. (bad \ corrupt) \in SUBSET {r.id : r \in cap}
    BY <1>1
  <2>5. Cardinality(bad \ corrupt) \in Nat
    BY <2>3, <2>4, FS_Subset, FS_CardinalityType
  <2>6. faults \in Nat
    BY DEF Inv, TypeOK
  <2> QED
    BY <1>1, <2>2, <2>5, <2>6
<1>11. TypeOK'
  <2>1. seen' \subseteq Nat
    BY <1>1, <1>5 DEF Item
  <2>2. corrupt' \subseteq Nat
    BY <1>1, <1>10, Zenon DEF Inv, TypeOK
  <2>3. /\ push' \in [pc : {"idle", "loop", "persist"}, todo : Seq(Nat),
                      batch : SUBSET Nat, overflow : BOOLEAN]
        /\ push'.batch = {}
    <3>1. <<>> \in Seq(Nat)
      OBVIOUS
    <3> QED
      BY <1>2, <3>1 DEF Idle
  <2>4. IsFiniteSet(push'.batch)
    BY <2>3, FS_EmptySet
  <2>5. rows' \subseteq Item /\ IsFiniteSet(rows')
    BY <1>2, <1>3, <1>4
  <2>6. restarts' \in Nat /\ consumerOffset' \in Nat
    BY <1>2 DEF Inv, TypeOK
  <2>7. /\ pc' \in [Requests -> {"idle", "delete", "upsert", "scan", "subscribe", "wait"}]
        /\ acked' \in [Requests -> Nat] /\ woken' \in [Requests -> BOOLEAN]
    BY <1>2
  <2>8. excused' \subseteq Nat
    <3>1. excused \subseteq Nat /\ kept \ live \subseteq Item
      BY <1>3 DEF Inv, TypeOK
    <3>2. \A r \in Item : r.id \in Nat
      BY DEF Item
    <3> QED
      BY <1>2, <3>1, <3>2, Zenon
  <2> QED
    BY <1>2, <1>6, <1>9, <1>10, <2>1, <2>2, <2>3, <2>4, <2>5, <2>6, <2>7, <2>8, Zenon DEF Inv, TypeOK
<1>12. PushConsistent'
  BY <1>2 DEF PushConsistent, Idle
<1>13. CursorNotAhead'
  <2>1. dbOffset \in Nat
    BY Zenon DEF Inv, TypeOK
  <2>2. dbOffset' <= consumerOffset'
    BY <1>2, <2>1
  <2>3. \A c \in Requests : pc'[c] = "idle"
    BY <1>2
  <2> QED
    BY <2>2, <2>3 DEF CursorNotAhead
<1>14. Retained'
  BY <1>2, <1>3, <1>6, Zenon DEF Retained, RowIds
<1> QED
  BY <1>7, <1>8, <1>11, <1>12, <1>13, <1>14 DEF Inv

\* A fresh queue is consistent.
LEMMA InitInv == Init => Inv
<1> SUFFICES ASSUME Init PROVE Inv
  OBVIOUS
<1>1. q = <<>> /\ q \in Seq(Item) /\ Len(q) = 0 /\ DOMAIN q = {}
  BY DEF Init
<1>2. IsFiniteSet(rows) /\ IsFiniteSet(push.batch)
  BY FS_EmptySet DEF Init, Idle
<1>3. push \in [pc : {"idle", "loop", "persist"}, todo : Seq(Nat),
               batch : SUBSET Nat, overflow : BOOLEAN]
  <2>1. <<>> \in Seq(Nat)
    OBVIOUS
  <2> QED
    BY <2>1 DEF Init, Idle
<1>4. TypeOK
  BY <1>1, <1>2, <1>3 DEF Init, TypeOK
<1>5. PushConsistent /\ CursorNotAhead
  BY DEF Init, Idle, PushConsistent, CursorNotAhead
<1>6. SeenMatchesQueue /\ Bounded /\ Retained
  BY <1>1, QueueAssumption DEF Init, SeenMatchesQueue, IdsOf, Bounded, Retained
<1> QED
  BY <1>4, <1>5, <1>6 DEF Inv

\* Every step keeps the invariant.
LEMMA NextInv == Inv /\ [Next]_qvars => Inv'
<1> SUFFICES ASSUME Inv, [Next]_qvars PROVE Inv'
  OBVIOUS
<1>1. ASSUME NEW updates \in Batches, PushLock(updates) PROVE Inv'
  BY <1>1, PushLockInv
<1>2. CASE PushOne
  BY <1>2, PushOneInv
<1>3. CASE PushUnlock
  BY <1>3, PushUnlockInv
<1>4. CASE PushPersist
  BY <1>4, PushPersistInv
<1>5. ASSUME NEW c \in Requests, NEW lastSeen \in {-1, 0} \cup Ids, AckLocked(c, lastSeen)
      PROVE  Inv'
  <2>1. lastSeen \in Int
    BY QueueAssumption DEF Ids
  <2> QED
    BY <1>5, <2>1, AckLockedInv
<1>6. ASSUME NEW c \in Requests, AckDelete(c) PROVE Inv'
  BY <1>6, AckDeleteInv
<1>7. ASSUME NEW c \in Requests, AckUpsert(c) PROVE Inv'
  BY <1>7, AckUpsertInv
<1>8. CASE \/ \E c \in Requests :
                PullCall(c) \/ Scan(c) \/ Subscribe(c) \/ Wake(c) \/ GiveUp(c)
           \/ Tick
  BY <1>8, QuietInv
<1>9. CASE Restart
  BY <1>9, RestartInv
<1>10. CASE UNCHANGED qvars
  <2>1. /\ q' = q /\ seen' = seen /\ consumerOffset' = consumerOffset
        /\ unloadedBacklog' = unloadedBacklog /\ rows' = rows /\ dbOffset' = dbOffset
        /\ pc' = pc /\ acked' = acked /\ woken' = woken /\ now' = now /\ pushes' = pushes
        /\ faults' = faults /\ restarts' = restarts /\ excused' = excused
        /\ corrupt' = corrupt /\ push' = push /\ policy' = policy
    BY <1>10, Zenon DEF qvars, memory, disk, calls, budget, history
  <2>2. TypeOK'
    BY <2>1, Zenon DEF Inv, TypeOK
  <2>3. PushConsistent' /\ SeenMatchesQueue' /\ Bounded' /\ CursorNotAhead'
    BY <2>1, Zenon DEF Inv, PushConsistent, SeenMatchesQueue, IdsOf, Bounded, CursorNotAhead
  <2>4. Retained'
    BY <2>1, Zenon DEF Inv, Retained, RowIds
  <2> QED
    BY <2>2, <2>3, <2>4, Zenon DEF Inv
<1> QED
  BY <1>1, <1>2, <1>3, <1>4, <1>5, <1>6, <1>7, <1>8, <1>9, <1>10 DEF Next

--------------------------------------------------------------------------------
(* The theorems *)

\* The inductive invariant holds in every reachable state of the queue.
THEOREM QueueInvariant == Spec => []Inv
  BY InitInv, NextInv, PTL DEF Spec

\* Every variable of queue.go keeps its type; the tables stay finite.
THEOREM TypeCorrect == Spec => []TypeOK
<1>1. Inv => TypeOK
  BY DEF Inv
<1> QED
  BY <1>1, QueueInvariant, PTL

\* PushAll never queues an update twice and its dedup set never outlives what
\* is queued, for every history of evictions, prunes, acks and reloads.
THEOREM Deduplicates == Spec => []SeenMatchesQueue
<1>1. Inv => SeenMatchesQueue
  BY DEF Inv
<1> QED
  BY <1>1, QueueInvariant, PTL

\* The deque never exceeds maxsize, whatever the batches and the backlog.
THEOREM StaysBounded == Spec => []Bounded
<1>1. Inv => Bounded
  BY DEF Inv
<1> QED
  BY <1>1, QueueInvariant, PTL

\* Whatever Acks overlap and whichever of their statements fail, the consumer
\* offset on disk is never ahead of the one in memory.
THEOREM CursorSafe == Spec => []CursorNotAhead
<1>1. Inv => CursorNotAhead
  BY DEF Inv
<1> QED
  BY <1>1, QueueInvariant, PTL

\* Under drop_oldest every unacknowledged update in memory is on disk or in
\* the batch being committed, unless its commit failed or its row expired.
THEOREM MemoryIsRetained == Spec => []Retained
<1>1. Inv => Retained
  BY DEF Inv
<1> QED
  BY <1>1, QueueInvariant, PTL

\* A step other than a restart never lowers the offset Ack has reached.
LEMMA OffsetStep ==
    Inv /\ [Next]_qvars => [restarts' = restarts => consumerOffset' >= consumerOffset]_qvars
<1> SUFFICES ASSUME Inv, Next, restarts' = restarts
             PROVE  consumerOffset' >= consumerOffset
  OBVIOUS
<1>1. consumerOffset \in Nat /\ restarts \in Nat
  BY DEF Inv, TypeOK
<1>2. ~Restart
  BY <1>1 DEF Restart
<1>3. CASE \E c \in Requests : \E lastSeen \in {-1, 0} \cup Ids : AckLocked(c, lastSeen)
  <2>1. PICK lastSeen \in {-1, 0} \cup Ids : consumerOffset' = Larger(lastSeen, consumerOffset)
    BY <1>3 DEF AckLocked
  <2>2. lastSeen \in Int
    BY QueueAssumption DEF Ids
  <2> QED
    BY <1>1, <2>1, <2>2 DEF Larger
<1>4. CASE ~(\E c \in Requests : \E lastSeen \in {-1, 0} \cup Ids : AckLocked(c, lastSeen))
  <2>1. consumerOffset' = consumerOffset
    BY <1>2, <1>4, Zenon DEF Next, PushLock, PushOne, PushUnlock, PushPersist, PullCall, AckDelete,
                      AckUpsert, Scan, Subscribe, Wake, GiveUp, Tick, memory
  <2> QED
    BY <1>1, <2>1
<1> QED
  BY <1>3, <1>4

\* Ack only moves forward: no interleaving of calls lowers consumerOffset.
THEOREM AckOnlyAdvances == Spec => OffsetMonotonic
  BY QueueInvariant, OffsetStep, PTL DEF Spec, OffsetMonotonic
================================================================================
