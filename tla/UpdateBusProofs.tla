---------------------------- MODULE UpdateBusProofs ----------------------------
(***************************************************************************)
(* No update is lost between Telegram and the replicas, a committed Ack    *)
(* floors delivery, and the bus implements AtLeastOnce: for every number   *)
(* of replicas, maxsize, TTL and batch, under both overflow policies, with *)
(* any number of crashes.                                                  *)
(***************************************************************************)
EXTENDS UpdateBus, UpdateQueueProofs

--------------------------------------------------------------------------------
(* The update bus: the invariant *)

\* Received, or given up where the code accounts for it; kept in memory; kept
\* across a crash.
Answered == got \cup excused \cup corrupt \cup dropped \cup behind
Held     == Answered \cup IdsOf(q)
Durable  == Answered \cup RowIds

\* The ids whose predecessors are all in memory, and all on disk.
InMemory == IdsOf(q) \cup push.batch \cup {offset, polled - Len(push.todo)}
OnDisk   == RowIds \cup {confirmed, telegramOffset}

\* Memory and disk hold the same, but for the batch about to be committed.
Synced == RowIds \subseteq Held /\ IdsOf(q) \subseteq Durable \cup push.batch

\* The deque is in the order of the ids, but for the ids that are answered.
InOrder == \A i, j \in DOMAIN q : i < j /\ q[j].id \notin Answered => q[i].id < q[j].id

\* Nothing is acknowledged, kept or confirmed before all that precedes it is.
Lossless ==
    /\ \A n \in got \cup {consumerOffset} : 1 .. n \subseteq Answered
    /\ \A n \in InMemory : 1 .. n \subseteq Held
    /\ \A n \in OnDisk : 1 .. n \subseteq Durable
    /\ Synced
    /\ InOrder

\* Every id is one that Telegram produced.
Produced == Answered \cup IdsOf(q) \cup RowIds \cup push.batch \subseteq 1 .. emitted

\* What is left of a batch: consecutive ids up to polled.  A batch that
\* reject_new cut short is given up.
Batched ==
    /\ polled \in 0 .. emitted /\ Len(push.todo) <= polled
    /\ \A i \in 1 .. Len(push.todo) : push.todo[i] = polled - Len(push.todo) + i
    /\ push.pc # "idle" => ppc = "push"
    /\ push.pc # "loop" => push.todo = <<>>
    /\ push.overflow => push.todo = <<>> /\ push.batch \subseteq dropped

BusTypes ==
    /\ emitted \in 0 .. MaxId /\ confirmed \in 0 .. emitted
    /\ offset \in 0 .. emitted /\ telegramOffset \in 0 .. emitted
    /\ settled \in Nat /\ overlapped \in BOOLEAN
    /\ ppc \in {"boot", "poll", "push"}

BusInv == Inv /\ BusTypes /\ Produced /\ Batched /\ Lossless

--------------------------------------------------------------------------------
(* What the steps of the queue do to the ids *)

\* Cutting the front of the deque removes its ids and keeps the order.
LEMMA PopIds ==
    ASSUME Inv, NEW k \in 0 .. Len(q), PopFront(k)
    PROVE  /\ IdsOf(q') = IdsOf(q) \ {q[i].id : i \in 1 .. k}
           /\ \A i, j \in DOMAIN q' : i < j =>
                 \E a, b \in DOMAIN q : a < b /\ q'[i] = q[a] /\ q'[j] = q[b]
<1>1. q \in Seq(Item) /\ Distinct(q) /\ q' = SubSeq(q, k + 1, Len(q))
  BY DEF Inv, TypeOK, SeenMatchesQueue, Distinct, PopFront
<1>2. /\ q' \in Seq(Item)
      /\ \A i \in 1 .. Len(q') : i + k \in 1 .. Len(q) /\ q'[i] = q[i + k]
  BY <1>1, CutFront
<1>3. IdsOf(q') = IdsOf(q) \ {q[i].id : i \in 1 .. k}
  BY <1>1, CutFrontIds, Zenon
<1>4. ASSUME NEW i \in DOMAIN q', NEW j \in DOMAIN q', i < j
      PROVE  \E a, b \in DOMAIN q : a < b /\ q'[i] = q[a] /\ q'[j] = q[b]
  <2>1. i \in 1 .. Len(q') /\ j \in 1 .. Len(q') /\ DOMAIN q = 1 .. Len(q)
    BY <1>1, <1>2
  <2>2. i + k \in DOMAIN q /\ j + k \in DOMAIN q /\ q'[i] = q[i + k] /\ q'[j] = q[j + k]
    BY <1>2, <2>1
  <2>3. i + k < j + k
    BY <1>4, <2>1
  <2> QED
    BY <2>2, <2>3, Zenon
<1> QED
  BY <1>3, <1>4, Zenon

\* The same order, seen from the ids.
SameOrder ==
    \A i, j \in DOMAIN q' : i < j => \E a, b \in DOMAIN q : a < b /\ q'[i] = q[a] /\ q'[j] = q[b]

\* pruneExpiredLocked gives up what it removes.
LEMMA PushLockIds ==
    ASSUME Inv, NEW updates, PushLock(updates)
    PROVE  /\ IdsOf(q') \subseteq IdsOf(q) /\ IdsOf(q) \subseteq IdsOf(q') \cup excused'
           /\ RowIds' \subseteq RowIds /\ RowIds \subseteq RowIds' \cup excused'
           /\ excused \subseteq excused' /\ excused' \subseteq excused \cup IdsOf(q) \cup RowIds
           /\ push.pc = "idle" /\ push'.pc = "loop" /\ push'.todo = updates /\ push'.batch = {}
           /\ ~push'.overflow /\ SameOrder
           /\ UNCHANGED <<consumerOffset, policy, dbOffset, calls, corrupt>>
<1> DEFINE stale == {r \in rows : TTL > 0 /\ r.at < now - TTL}
<1>1. PICK k \in 0 .. Len(q), gone \in {stale, {}} :
        /\ PopFront(k) /\ rows' = rows \ gone
        /\ excused' = excused \cup {q[i].id : i \in 1 .. k} \cup {r.id : r \in gone}
  BY DEF PushLock
<1>2. gone \subseteq rows
  OBVIOUS
<1> HIDE DEF stale
<1>3. IdsOf(q') = IdsOf(q) \ {q[i].id : i \in 1 .. k} /\ SameOrder
  BY <1>1, PopIds, Zenon DEF SameOrder
<1>4. {q[i].id : i \in 1 .. k} \subseteq IdsOf(q)
  BY DEF Inv, TypeOK, IdsOf
<1>5. {r.id : r \in gone} \subseteq RowIds /\ RowIds' = {r.id : r \in rows \ gone}
  BY <1>1, <1>2, Zenon DEF RowIds
<1>6. /\ push.pc = "idle" /\ push'.pc = "loop" /\ push'.todo = updates /\ push'.batch = {}
      /\ ~push'.overflow
      /\ UNCHANGED <<consumerOffset, policy, dbOffset, calls, corrupt>>
  BY DEF PushLock, Idle
<1>7. RowIds' \subseteq RowIds /\ RowIds \subseteq RowIds' \cup {r.id : r \in gone}
  BY <1>5, Zenon DEF RowIds
<1> QED
  BY <1>1, <1>3, <1>4, <1>5, <1>6, <1>7

\* One turn of the loop takes the first id of what is left, or ends the batch.
LEMMA PushOneIds ==
    ASSUME Inv, BusTypes, Batched, PushOne
    PROVE  /\ push.pc = "loop" /\ push'.pc = "loop" /\ push.todo # <<>>
           /\ \/ /\ q' = q /\ push'.batch = push.batch
                 /\ push'.todo = Tail(push.todo) /\ Head(push.todo) \in IdsOf(q)
                 /\ ~push'.overflow /\ Refused = {}
              \/ /\ q' = q /\ push'.batch = push.batch
                 /\ push'.todo = <<>>
                 /\ Refused = push.batch \cup {push.todo[i] : i \in DOMAIN push.todo}
              \/ /\ IdsOf(q') \subseteq IdsOf(q) \cup {Head(push.todo)}
                 /\ Head(push.todo) \in IdsOf(q') /\ Head(push.todo) \notin IdsOf(q)
                 /\ push'.batch = push.batch \cup {Head(push.todo)}
                 /\ push'.todo = Tail(push.todo)
                 /\ ~push'.overflow /\ Refused = {}
                 /\ \A i, j \in DOMAIN q' : i < j =>
                       \/ \E a, b \in DOMAIN q : a < b /\ q'[i] = q[a] /\ q'[j] = q[b]
                       \/ q'[i].id \in IdsOf(q) /\ q'[j].id = Head(push.todo)
           /\ UNCHANGED <<consumerOffset, policy, disk, calls, history>>
<1> DEFINE u    == Head(push.todo)
           rest == IF Full THEN Tail(q) ELSE q
<1>1. /\ push.pc = "loop" /\ push.todo # <<>>
      /\ UNCHANGED <<consumerOffset, policy, disk, calls, history>>
  BY DEF PushOne
<1>2. /\ q \in Seq(Item) /\ Len(q) \in Nat /\ Distinct(q) /\ seen = IdsOf(q) /\ now \in Nat
      /\ push.todo \in Seq(Nat) /\ Len(q) <= MaxSize /\ MaxSize \in Nat \ {0}
      /\ push \in [pc : {"idle", "loop", "persist"}, todo : Seq(Nat),
                   batch : SUBSET Nat, overflow : BOOLEAN]
  BY QueueAssumption DEF Inv, TypeOK, SeenMatchesQueue, Distinct, Bounded
<1>3. u \in Nat /\ u # NoId
  <2>1. u = push.todo[1] /\ Len(push.todo) \in Nat /\ Len(push.todo) >= 1 /\ u \in Nat
    BY <1>1, <1>2
  <2>2. emitted \in Nat
    BY QueueAssumption DEF BusTypes
  <2>3. polled \in Nat /\ Len(push.todo) <= polled /\ 1 \in 1 .. Len(push.todo)
    BY <2>1, <2>2 DEF Batched
  <2>4. push.todo[1] = polled - Len(push.todo) + 1
    BY <2>3, Zenon DEF Batched
  <2>5. PICK n \in Nat : n = Len(push.todo)
    BY <2>1, Zenon
  <2>6. u = polled - n + 1 /\ n <= polled
    BY <2>1, <2>3, <2>4, <2>5, Zenon
  <2> HIDE DEF u
  <2> QED
    BY <2>3, <2>6 DEF NoId
<1> HIDE DEF u
<1>7. ~push.overflow /\ push.overflow \in BOOLEAN
  BY <1>1, <1>2 DEF Batched
<1>4. CASE /\ u \in seen /\ push' = [push EXCEPT !.todo = Tail(@)] /\ q' = q
  <2>1. push'.pc = "loop" /\ push'.todo = Tail(push.todo) /\ push'.batch = push.batch
    BY <1>1, <1>2, <1>4
  <2>2. push'.overflow = push.overflow
    BY <1>2, <1>4
  <2>3. ~push'.overflow /\ Refused = {}
    BY <1>7, <2>2, Zenon DEF Refused
  <2> QED
    BY <1>1, <1>2, <1>4, <2>1, <2>3, Zenon DEF u
<1>5. CASE /\ policy = "reject_new" /\ q' = q
           /\ push' = [push EXCEPT !.todo = <<>>, !.overflow = TRUE]
  <2>1. push'.pc = "loop" /\ push'.todo = <<>> /\ push'.batch = push.batch
    BY <1>1, <1>2, <1>5
  <2>2. push'.overflow
    BY <1>2, <1>5
  <2>3. Refused = push.batch \cup {push.todo[i] : i \in DOMAIN push.todo}
    BY <2>2, Zenon DEF Refused
  <2> QED
    BY <1>1, <1>5, <2>1, <2>3, Zenon
<1>6. CASE /\ u \notin seen /\ q' = Append(rest, [id |-> u, at |-> now])
           /\ push' = [push EXCEPT !.todo = Tail(@), !.batch = @ \cup {u}]
  <2>1. push'.pc = "loop" /\ push'.todo = Tail(push.todo) /\ push'.batch = push.batch \cup {u}
    BY <1>1, <1>2, <1>6
  <2>7. push'.overflow = push.overflow
    BY <1>2, <1>6
  <2>8. ~push'.overflow /\ Refused = {}
    BY <1>7, <2>7, Zenon DEF Refused
  <2>2. PICK k \in {0, 1} :
          /\ rest \in Seq(Item) /\ k + Len(rest) = Len(q)
          /\ \A i \in 1 .. Len(rest) : i + k \in 1 .. Len(q) /\ rest[i] = q[i + k]
    <3>1. CASE Full
      <4>1. q # <<>> /\ 1 \in 0 .. Len(q)
        BY <1>2, <3>1 DEF Full
      <4>2. Tail(q) = SubSeq(q, 1 + 1, Len(q))
        BY <1>2, <4>1
      <4>3. /\ Tail(q) \in Seq(Item) /\ Len(Tail(q)) = Len(q) - 1
            /\ \A i \in 1 .. Len(Tail(q)) : i + 1 \in 1 .. Len(q) /\ Tail(q)[i] = q[i + 1]
        BY <1>2, <4>1, <4>2, CutFront
      <4>4. rest = Tail(q) /\ 1 + Len(Tail(q)) = Len(q)
        BY <1>2, <3>1, <4>3
      <4> HIDE DEF rest
      <4> QED
        BY <4>3, <4>4, Zenon
    <3>2. CASE ~Full
      BY <1>2, <3>2
    <3> QED
      BY <3>1, <3>2
  <2> HIDE DEF rest
  <2> DEFINE e == [id |-> u, at |-> now]
  <2>3. /\ Len(rest) \in Nat /\ Len(q') = Len(rest) + 1 /\ DOMAIN q' = 1 .. Len(rest) + 1
        /\ \A i \in 1 .. Len(rest) : q'[i] = rest[i]
        /\ q'[Len(rest) + 1] = e /\ e.id = u
    <3>1. e \in Item
      BY <1>2, <1>3 DEF Item
    <3> QED
      BY <1>6, <2>2, <3>1
  <2> HIDE DEF e
  <2>4. ASSUME NEW i \in DOMAIN q', i # Len(rest) + 1
        PROVE  i + k \in DOMAIN q /\ q'[i] = q[i + k] /\ q'[i].id \in IdsOf(q)
    <3>1. i \in 1 .. Len(rest)
      BY <2>3, <2>4
    <3>0. DOMAIN q = 1 .. Len(q)
      BY <1>2
    <3>2. i + k \in DOMAIN q /\ q'[i] = q[i + k]
      BY <2>2, <2>3, <3>0, <3>1, Zenon
    <3>3. q'[i].id \in IdsOf(q)
      BY <3>2, Zenon DEF IdsOf
    <3> QED
      BY <3>2, <3>3
  <2>5. u \in IdsOf(q') /\ IdsOf(q') \subseteq IdsOf(q) \cup {u}
    <3>1. Len(rest) + 1 \in DOMAIN q' /\ q'[Len(rest) + 1].id = u
      BY <2>3
    <3> QED
      BY <2>4, <3>1, Zenon DEF IdsOf
  <2>6. ASSUME NEW i \in DOMAIN q', NEW j \in DOMAIN q', i < j
        PROVE  \/ \E a, b \in DOMAIN q : a < b /\ q'[i] = q[a] /\ q'[j] = q[b]
               \/ q'[i].id \in IdsOf(q) /\ q'[j].id = u
    <3>1. i # Len(rest) + 1 /\ i + k < j + k
      BY <2>2, <2>3, <2>6
    <3>2. CASE j = Len(rest) + 1
      BY <2>3, <2>4, <3>1, <3>2
    <3>3. CASE j # Len(rest) + 1
      BY <2>4, <3>1, <3>3, Zenon
    <3> QED
      BY <3>2, <3>3
  <2> QED
    BY <1>1, <1>2, <1>6, <2>1, <2>5, <2>6, <2>8, Zenon DEF u
<1> QED
  BY <1>3, <1>4, <1>5, <1>6, Zenon DEF PushOne, u

\* PushUnlock leaves the batch pending, unless it is empty or given up.
LEMMA PushUnlockIds ==
    ASSUME Inv, Batched, PushUnlock
    PROVE  /\ push.todo = <<>> /\ push'.todo = <<>> /\ push'.pc # "loop" /\ ~push'.overflow
           /\ push.pc = "loop"
           /\ push'.batch = push.batch \/ (push'.batch = {} /\ push.batch \subseteq dropped)
<1>1. push.pc = "loop" /\ push.todo = <<>>
  BY DEF PushUnlock
<1>2. push \in [pc : {"idle", "loop", "persist"}, todo : Seq(Nat),
                batch : SUBSET Nat, overflow : BOOLEAN]
  BY DEF Inv, TypeOK
<1>3. CASE (push.overflow \/ push.batch = {}) /\ push' = Idle
  <2>1. push'.todo = <<>> /\ push'.pc = "idle" /\ push'.batch = {} /\ ~push'.overflow
    BY <1>3 DEF Idle
  <2>2. push.batch \subseteq dropped
    BY <1>3 DEF Batched
  <2> QED
    BY <1>1, <2>1, <2>2
<1>4. CASE ~push.overflow /\ push' = [push EXCEPT !.pc = "persist"]
  <2>1. push'.todo = push.todo /\ push'.pc = "persist" /\ push'.batch = push.batch
    BY <1>2, <1>4
  <2>2. push'.overflow = push.overflow
    BY <1>2, <1>4
  <2>3. ~push'.overflow
    BY <1>4, <2>2, Zenon
  <2> QED
    BY <1>1, <2>1, <2>3
<1> QED
  BY <1>3, <1>4 DEF PushUnlock

\* The transaction writes the rows of the batch, or the ids are excused.
LEMMA PushPersistIds ==
    ASSUME Inv, PushPersist
    PROVE  /\ push.pc = "persist" /\ push' = Idle
           /\ RowIds \subseteq RowIds' /\ RowIds' \subseteq RowIds \cup push.batch
           /\ excused \subseteq excused' /\ excused' \subseteq excused \cup push.batch
           /\ push.batch \subseteq RowIds' \cup excused'
<1>1. PICK lost \in SUBSET push.batch :
        /\ rows' = rows \cup {[id |-> i, at |-> now] : i \in push.batch \ (RowIds \cup lost)}
        /\ excused' = excused \cup lost
  BY DEF PushPersist
<1> DEFINE new == {[id |-> i, at |-> now] : i \in push.batch \ (RowIds \cup lost)}
<1>2. RowIds' = RowIds \cup (push.batch \ (RowIds \cup lost))
  <2>1. {r.id : r \in new} = push.batch \ (RowIds \cup lost)
    <3> DEFINE row(i) == [id |-> i, at |-> now]
    <3>1. \A i : row(i).id = i
      OBVIOUS
    <3>2. new = {row(i) : i \in push.batch \ (RowIds \cup lost)}
      OBVIOUS
    <3> HIDE DEF row, new
    <3>3. ASSUME NEW i \in push.batch \ (RowIds \cup lost)
          PROVE  i \in {r.id : r \in new}
      BY <3>1, <3>2
    <3>4. ASSUME NEW r \in new
          PROVE  r.id \in push.batch \ (RowIds \cup lost)
      <4>1. PICK i \in push.batch \ (RowIds \cup lost) : r = row(i)
        BY <3>2
      <4> QED
        BY <3>1, <4>1
    <3> QED
      BY <3>3, <3>4
  <2>2. rows' = rows \cup new
    BY <1>1
  <2> HIDE DEF new
  <2>3. RowIds' = RowIds \cup {r.id : r \in new}
    BY <2>2 DEF RowIds
  <2> QED
    BY <2>1, <2>3
<1> HIDE DEF new
<1>3. push.pc = "persist" /\ push' = Idle
  BY DEF PushPersist
<1> QED
  BY <1>1, <1>2, <1>3

\* An Ack removes ids it acknowledges.
LEMMA AckLockedIds ==
    ASSUME Inv, NEW c \in Requests, NEW n \in Nat, AckLocked(c, n)
    PROVE  /\ consumerOffset' = Larger(n, consumerOffset)
           /\ IdsOf(q') \subseteq IdsOf(q)
           /\ \A id \in IdsOf(q) \ IdsOf(q') : id <= consumerOffset'
           /\ SameOrder
<1>1. PICK k \in 0 .. Len(q) :
        Prefix(k, {i \in DOMAIN q : q[i].id <= consumerOffset'}) /\ PopFront(k)
  BY Zenon DEF AckLocked
<1>2. IdsOf(q') = IdsOf(q) \ {q[i].id : i \in 1 .. k} /\ SameOrder
  BY <1>1, PopIds, Zenon DEF SameOrder
<1>3. \A i \in 1 .. k : q[i].id <= consumerOffset'
  BY <1>1 DEF Prefix
<1>4. consumerOffset' = Larger(n, consumerOffset)
  BY DEF AckLocked
<1> QED
  BY <1>2, <1>3, <1>4, Zenon

\* The DELETE of an Ack removes rows up to its offset.
LEMMA AckDeleteIds ==
    ASSUME Inv, NEW c \in Requests, AckDelete(c)
    PROVE  /\ RowIds' \subseteq RowIds
           /\ \A id \in RowIds \ RowIds' : id <= consumerOffset
<1>1. CASE rows' = rows
  BY <1>1 DEF RowIds
<1>2. CASE rows' = {r \in rows : r.id > acked[c]}
  <2>1. acked[c] <= consumerOffset /\ acked[c] \in Nat /\ consumerOffset \in Nat
    BY DEF Inv, TypeOK, CursorNotAhead, AckDelete
  <2>2. \A r \in rows : r.id \in Nat
    BY DEF Inv, TypeOK, Item
  <2>3. RowIds' = {r.id : r \in rows'}
    BY DEF RowIds
  <2>4. RowIds' \subseteq RowIds
    BY <1>2, <2>3 DEF RowIds
  <2>5. ASSUME NEW id \in RowIds, id \notin RowIds'
        PROVE  id <= consumerOffset
    <3>1. PICK r \in rows : r.id = id
      BY DEF RowIds
    <3>2. ~(r.id > acked[c])
      BY <1>2, <2>3, <2>5, <3>1, Zenon
    <3> QED
      BY <2>1, <2>2, <3>1, <3>2
  <2> QED
    BY <2>4, <2>5
<1> QED
  BY <1>1, <1>2 DEF AckDelete

\* A reload that leaves nothing behind its cap: every row is in the deque, or
\* accounted for.
LEMMA RestartIds ==
    ASSUME Inv, BusRestart
    PROVE  /\ consumerOffset' = dbOffset /\ push' = Idle
           /\ RowIds' \subseteq RowIds
           /\ \A id \in RowIds \ RowIds' : id <= dbOffset
           /\ IdsOf(q') \subseteq RowIds'
           /\ RowIds' \subseteq IdsOf(q') \cup corrupt' \cup excused' \cup behind'
           /\ behind \subseteq behind' /\ behind' \subseteq behind \cup RowIds'
           /\ excused \subseteq excused' /\ excused' \subseteq excused \cup RowIds
           /\ corrupt \subseteq corrupt' /\ corrupt' \subseteq corrupt \cup RowIds
           /\ \A i, j \in DOMAIN q' : i < j => q'[i].id < q'[j].id
<1> DEFINE live == {r \in rows : r.id > dbOffset /\ ~Aged(r.at)}
           kept == {r \in rows : r.id > dbOffset}
<1>1. /\ consumerOffset' = dbOffset /\ push' = Idle /\ rows' = kept
      /\ excused' = excused \cup {r.id : r \in kept \ live}
  BY DEF BusRestart, Restart
<1>12. PICK cap \in SUBSET live : \E bad \in SUBSET {r.id : r \in cap} :
        /\ corrupt' = corrupt \cup bad
        /\ q' \in [1 .. Cardinality({r \in cap : r.id \notin bad}) -> {r \in cap : r.id \notin bad}]
        /\ \A i, j \in DOMAIN q' : i < j => q'[i].id < q'[j].id
  BY Zenon DEF BusRestart, Restart
<1>2. PICK bad \in SUBSET {r.id : r \in cap} :
        /\ corrupt' = corrupt \cup bad
        /\ q' \in [1 .. Cardinality({r \in cap : r.id \notin bad}) -> {r \in cap : r.id \notin bad}]
        /\ \A i, j \in DOMAIN q' : i < j => q'[i].id < q'[j].id
  BY <1>12, Zenon
<1>3. kept \subseteq rows /\ cap \subseteq kept
  OBVIOUS
<1>4. \A id \in RowIds \ RowIds' : id <= dbOffset
  <2>1. \A r \in rows : r.id \in Nat /\ dbOffset \in Nat
    BY DEF Inv, TypeOK, Item
  <2>2. \A r \in rows : r \notin rows' => r.id <= dbOffset
    BY <1>1, <2>1
  <2> QED
    BY <2>2, Zenon DEF RowIds
<1>5. behind' = behind \cup {id \in RowIds' : id \notin IdsOf(q') \cup corrupt' \cup excused'}
  BY Zenon DEF BusRestart
<1> HIDE DEF live, kept
<1>6. RowIds' = {r.id : r \in rows'}
  BY DEF RowIds
<1>7. RowIds' \subseteq RowIds
  BY <1>1, <1>3, <1>6, Zenon DEF RowIds
<1>8. IdsOf(q') \subseteq RowIds'
  <2>1. \A i \in DOMAIN q' : q'[i] \in cap
    BY <1>2
  <2>2. \A i \in DOMAIN q' : q'[i] \in rows'
    BY <1>1, <1>3, <2>1, Zenon
  <2> QED
    BY <1>6, <2>2, Zenon DEF IdsOf
<1>9. /\ RowIds' \subseteq IdsOf(q') \cup corrupt' \cup excused' \cup behind'
      /\ behind \subseteq behind' /\ behind' \subseteq behind \cup RowIds'
  BY <1>5
<1>10. excused \subseteq excused' /\ excused' \subseteq excused \cup RowIds
  <2>1. {r.id : r \in kept \ live} \subseteq RowIds
    BY <1>3, Zenon DEF RowIds
  <2> QED
    BY <1>1, <2>1
<1>11. corrupt \subseteq corrupt' /\ corrupt' \subseteq corrupt \cup RowIds
  <2>1. {r.id : r \in cap} \subseteq RowIds
    BY <1>3, Zenon DEF RowIds
  <2> QED
    BY <1>2, <2>1
<1> QED
  BY <1>1, <1>2, <1>4, <1>7, <1>8, <1>9, <1>10, <1>11, Zenon

--------------------------------------------------------------------------------
(* Nothing is lost: what the steps of the bus preserve *)

\* Lossless is preserved when what is answered, held and durable only grows,
\* and every new member of its sets has its predecessors.
LEMMA Carry ==
    ASSUME Lossless,
           Answered \subseteq Answered', Held \subseteq Held', Durable \subseteq Durable',
           \A n \in got' \cup {consumerOffset'} :
              n \in got \cup {consumerOffset} \/ 1 .. n \subseteq Answered',
           \A n \in InMemory' : n \in InMemory \/ 1 .. n \subseteq Held',
           \A n \in OnDisk' : n \in OnDisk \/ 1 .. n \subseteq Durable',
           Synced', InOrder'
    PROVE  Lossless'
<1>1. \A n \in got' \cup {consumerOffset'} : 1 .. n \subseteq Answered'
  <2>1. \A n \in got \cup {consumerOffset} : 1 .. n \subseteq Answered
    BY Zenon DEF Lossless
  <2> QED
    BY <2>1, Zenon
<1>2. \A n \in InMemory' : 1 .. n \subseteq Held'
  <2>1. \A n \in InMemory : 1 .. n \subseteq Held
    BY Zenon DEF Lossless
  <2> QED
    BY <2>1, Zenon
<1>3. \A n \in OnDisk' : 1 .. n \subseteq Durable'
  <2>1. \A n \in OnDisk : 1 .. n \subseteq Durable
    BY Zenon DEF Lossless
  <2> QED
    BY <2>1, Zenon
<1> QED
  BY <1>1, <1>2, <1>3, Zenon DEF Lossless

\* Removing items keeps the order.
LEMMA KeepsOrder ==
    ASSUME Lossless, Answered \subseteq Answered', SameOrder
    PROVE  InOrder'
<1> SUFFICES ASSUME NEW i \in DOMAIN q', NEW j \in DOMAIN q', i < j, q'[j].id \notin Answered'
             PROVE  q'[i].id < q'[j].id
  BY Zenon DEF InOrder
<1>1. PICK a \in DOMAIN q, b \in DOMAIN q : a < b /\ q'[i] = q[a] /\ q'[j] = q[b]
  BY Zenon DEF SameOrder
<1>2. q[b].id \notin Answered
  BY <1>1, Zenon
<1>3. q[a].id < q[b].id
  BY <1>1, <1>2, Zenon DEF Lossless, InOrder
<1> QED
  BY <1>1, <1>3, Zenon

\* The same deque is in the same order.
LEMMA SameQueue ==
    ASSUME q' = q
    PROVE  SameOrder
BY Zenon DEF SameOrder

\* The types of what the bus counts.
LEMMA Counts ==
    ASSUME Inv, BusTypes, Batched
    PROVE  /\ emitted \in Nat /\ confirmed \in Nat /\ offset \in Nat /\ telegramOffset \in Nat
           /\ polled \in Nat /\ consumerOffset \in Nat /\ Len(push.todo) \in Nat
           /\ push.todo \in Seq(Nat) /\ q \in Seq(Item) /\ DOMAIN q = 1 .. Len(q)
           /\ Len(push.todo) <= polled
<1>1. emitted \in Nat /\ confirmed \in Nat /\ offset \in Nat /\ telegramOffset \in Nat
  BY QueueAssumption DEF BusTypes
<1>2. polled \in Nat /\ Len(push.todo) <= polled
  BY <1>1 DEF Batched
<1>3. push.todo \in Seq(Nat) /\ q \in Seq(Item) /\ consumerOffset \in Nat
  BY DEF Inv, TypeOK
<1>4. Len(push.todo) \in Nat /\ DOMAIN q = 1 .. Len(q)
  BY <1>3
<1> QED
  BY <1>1, <1>2, <1>3, <1>4

\* Between two calls of PushAll memory and disk hold the same, and nothing is
\* left of a batch.
LEMMA Settles ==
    ASSUME BusInv, push.pc = "idle"
    PROVE  /\ push.batch = {} /\ push.todo = <<>> /\ polled - Len(push.todo) = polled
           /\ Held = Durable
<1>1. push.batch = {} /\ push.todo = <<>>
  BY DEF BusInv, Inv, PushConsistent, Batched
<1>2. Held = Durable
  BY <1>1 DEF BusInv, Lossless, Synced, Held, Durable
<1>3. polled \in Nat
  BY Counts DEF BusInv
<1>4. polled - Len(push.todo) = polled
  BY <1>1, <1>3
<1> QED
  BY <1>1, <1>2, <1>4

\* Steps of the queue and of its clients that leave the ids alone.
LEMMA QuietBus ==
    ASSUME BusInv, Inv', emitted' \in emitted .. MaxId, settled' \in Nat, overlapped' \in BOOLEAN,
           UNCHANGED <<q, rows, push, got, dropped, behind, history, consumerOffset,
                       confirmed, poller>>
    PROVE  BusInv'
<1>1. Inv /\ BusTypes /\ Produced /\ Batched /\ Lossless
  BY Zenon DEF BusInv
<1>2. emitted \in Nat /\ MaxId \in Nat
  BY <1>1, Counts, QueueAssumption
<1>3. /\ 0 .. emitted \subseteq 0 .. emitted' /\ 1 .. emitted \subseteq 1 .. emitted'
      /\ emitted' \in 0 .. MaxId
  BY <1>2
<1>4. /\ IdsOf(q)' = IdsOf(q) /\ RowIds' = RowIds /\ Answered' = Answered
      /\ push' = push /\ ppc' = ppc /\ offset' = offset /\ polled' = polled
      /\ telegramOffset' = telegramOffset /\ dropped' = dropped
  BY DEF IdsOf, RowIds, Answered, history, poller
<1>5. Held' = Held /\ Durable' = Durable /\ InMemory' = InMemory /\ OnDisk' = OnDisk
  BY <1>4 DEF Held, Durable, InMemory, OnDisk
<1>6. Lossless'
  BY <1>1, <1>4, <1>5 DEF Lossless, Synced, InOrder
<1>7. BusTypes'
  BY <1>1, <1>3, <1>4 DEF BusTypes
<1>8. Produced' /\ Batched'
  BY <1>1, <1>3, <1>4, Zenon DEF Produced, Batched
<1> QED
  BY <1>6, <1>7, <1>8 DEF BusInv

\* A fault that is only logged, and an answer that is lost, leave the queue
\* alone.
LEMMA StillInv ==
    ASSUME Inv, UNCHANGED faults \/ Fault,
           pc' = pc \/ \E c \in Requests : Goto(c, "idle"),
           UNCHANGED <<memory, disk, acked, woken, now, pushes, restarts, history, push, policy>>
    PROVE  Inv'
<1>1. faults' \in Nat
  BY DEF Inv, TypeOK, Fault
<1>2. /\ pc \in [Requests -> {"idle", "delete", "upsert", "scan", "subscribe", "wait"}]
      /\ pc' = pc \/ \E c \in Requests : pc' = [pc EXCEPT ![c] = "idle"]
  BY DEF Inv, TypeOK, Goto
<1>3. /\ pc' \in [Requests -> {"idle", "delete", "upsert", "scan", "subscribe", "wait"}]
      /\ \A d \in Requests : pc'[d] \in {"delete", "upsert"} => pc'[d] = pc[d]
  <2>1. CASE pc' = pc
    BY <1>2, <2>1
  <2>2. ASSUME NEW c \in Requests, pc' = [pc EXCEPT ![c] = "idle"]
        PROVE  /\ pc' \in [Requests -> {"idle", "delete", "upsert", "scan", "subscribe", "wait"}]
               /\ \A d \in Requests : pc'[d] \in {"delete", "upsert"} => pc'[d] = pc[d]
    BY <1>2, <2>2
  <2> QED
    BY <1>2, <2>1, <2>2
<1>4. TypeOK'
  BY <1>1, <1>3 DEF Inv, TypeOK, memory, disk, history
<1>5. PushConsistent' /\ SeenMatchesQueue' /\ Bounded' /\ Retained'
  BY DEF Inv, PushConsistent, SeenMatchesQueue, Bounded, Retained, RowIds, memory, disk, history
<1>6. CursorNotAhead'
  BY <1>3 DEF Inv, CursorNotAhead, memory, disk
<1> QED
  BY <1>4, <1>5, <1>6 DEF Inv

\* Telegram produces an update.
LEMMA EmitInv ==
    ASSUME BusInv, Emit
    PROVE  BusInv'
<1>1. Inv /\ BusTypes /\ Produced /\ Batched /\ Lossless
  BY Zenon DEF BusInv
<1>2. emitted \in Nat /\ MaxId \in Nat
  BY <1>1, Counts, QueueAssumption
<1>3. emitted' \in emitted .. MaxId
  BY <1>2 DEF Emit
<1>4. UNCHANGED <<qvars, confirmed, poller, seenBy>>
  BY DEF Emit
<1>5. Inv'
  BY <1>1, <1>4, StillInv DEF qvars, calls, budget
<1> QED
  BY <1>1, <1>3, <1>4, <1>5, QuietBus
     DEF BusTypes, qvars, memory, disk, history, poller, seenBy

\* The poller reads the saved offset: all up to it is in memory.
LEMMA PollerStartInv ==
    ASSUME BusInv, PollerStart
    PROVE  BusInv'
<1>1. Inv /\ BusTypes /\ Produced /\ Batched /\ Lossless
  BY Zenon DEF BusInv
<1>2. /\ ppc = "boot" /\ ppc' = "poll" /\ offset' = telegramOffset
      /\ UNCHANGED <<qvars, telegram, polled, telegramOffset, seenBy>>
  BY DEF PollerStart
<1>3. Inv'
  BY <1>1, <1>2, StillInv DEF qvars, calls, budget
<1>4. /\ IdsOf(q') = IdsOf(q) /\ RowIds' = RowIds /\ Answered' = Answered /\ push' = push
      /\ q' = q /\ got' = got /\ consumerOffset' = consumerOffset /\ dropped' = dropped
  BY <1>2, Zenon DEF qvars, memory, disk, history, seenBy, RowIds, Answered
<1>5. BusTypes' /\ Produced' /\ Batched'
  <2>1. BusTypes'
    BY <1>1, <1>2 DEF BusTypes, telegram, seenBy
  <2>2. Produced'
    BY <1>1, <1>2, <1>4, Zenon DEF Produced, telegram
  <2>3. push.pc = "idle"
    BY <1>1, <1>2 DEF Batched, Inv, TypeOK
  <2>4. Batched'
    BY <1>1, <1>2, <1>4, <2>3, Zenon DEF Batched, telegram
  <2> QED
    BY <2>1, <2>2, <2>4
<1>6. Lossless'
  <2>1. Held' = Held /\ Durable' = Durable /\ OnDisk' = OnDisk
    BY <1>2, <1>4 DEF Held, Durable, OnDisk, telegram
  <2>2. 1 .. telegramOffset \subseteq Held
    BY <1>1 DEF Lossless, Synced, OnDisk, Durable, Held
  <2>3. InMemory' \subseteq InMemory \cup {telegramOffset}
    BY <1>2, <1>4 DEF InMemory
  <2>4. InOrder'
    BY <1>1, <1>4, SameQueue, KeepsOrder
  <2>5. Synced'
    BY <1>1, <1>4, <2>1 DEF Lossless, Synced
  <2>6. \A n \in InMemory' : n \in InMemory \/ 1 .. n \subseteq Held'
    BY <2>1, <2>2, <2>3, Zenon
  <2> QED
    BY <1>1, <1>4, <2>1, <2>4, <2>5, <2>6, Carry
<1> QED
  BY <1>3, <1>5, <1>6 DEF BusInv

\* getUpdates confirms what is in memory, which then is on disk as well.
LEMMA ConfirmedIsDurable ==
    ASSUME BusInv, ppc = "poll"
    PROVE  /\ push.pc = "idle" /\ Confirms \in {confirmed, offset} /\ Confirms \in 0 .. emitted
           /\ 1 .. Confirms \subseteq Durable
<1>1. Inv /\ BusTypes /\ Produced /\ Batched /\ Lossless
  BY Zenon DEF BusInv
<1>2. push.pc = "idle"
  BY <1>1 DEF Batched, Inv, TypeOK
<1>3. Confirms \in {confirmed, offset}
  BY DEF Confirms, Larger
<1>4. Confirms \in 0 .. emitted
  BY <1>1, <1>3 DEF BusTypes
<1>5. 1 .. Confirms \subseteq Durable
  <2>1. 1 .. confirmed \subseteq Durable
    BY <1>1, Zenon DEF Lossless, OnDisk
  <2>2. 1 .. offset \subseteq Held
    BY <1>1, Zenon DEF Lossless, InMemory
  <2>3. Held \subseteq Durable
    BY <1>2, Settles
  <2> QED
    BY <1>3, <2>1, <2>2, <2>3
<1> QED
  BY <1>2, <1>3, <1>4, <1>5

\* A poll that brings nothing confirms all the same.
LEMMA PollNothingInv ==
    ASSUME BusInv, PollNothing
    PROVE  BusInv'
<1>1. Inv /\ BusTypes /\ Produced /\ Batched /\ Lossless
  BY Zenon DEF BusInv
<1>2. ppc = "poll" /\ confirmed' = Confirms /\ UNCHANGED <<qvars, emitted, poller, seenBy>>
  BY DEF PollNothing
<1>3. Inv'
  BY <1>1, <1>2, StillInv DEF qvars, calls, budget
<1>4. /\ IdsOf(q') = IdsOf(q) /\ RowIds' = RowIds /\ Answered' = Answered /\ push' = push
      /\ q' = q /\ got' = got /\ consumerOffset' = consumerOffset /\ dropped' = dropped
  BY <1>2 DEF qvars, memory, disk, history, seenBy, RowIds, Answered
<1>5. BusTypes' /\ Produced' /\ Batched'
  <2>1. Confirms \in 0 .. emitted
    BY <1>2, ConfirmedIsDurable
  <2>2. BusTypes'
    BY <1>1, <1>2, <2>1 DEF BusTypes, poller, seenBy
  <2>3. Produced' /\ Batched'
    BY <1>1, <1>2, <1>4, Zenon DEF Produced, Batched, poller
  <2> QED
    BY <2>2, <2>3
<1>6. Lossless'
  <2>1. Held' = Held /\ Durable' = Durable /\ InMemory' = InMemory
    BY <1>2, <1>4 DEF Held, Durable, InMemory, poller
  <2>2. 1 .. Confirms \subseteq Durable
    BY <1>1, <1>2, ConfirmedIsDurable
  <2>3. OnDisk' \subseteq OnDisk \cup {Confirms}
    BY <1>2, <1>4 DEF OnDisk, poller
  <2>4. InOrder'
    BY <1>1, <1>4, SameQueue, KeepsOrder
  <2>5. Synced'
    BY <1>1, <1>4, <2>1 DEF Lossless, Synced
  <2>6. \A n \in OnDisk' : n \in OnDisk \/ 1 .. n \subseteq Durable'
    BY <2>1, <2>2, <2>3, Zenon
  <2> QED
    BY <1>1, <1>4, <2>1, <2>4, <2>5, <2>6, Carry
<1> QED
  BY <1>3, <1>5, <1>6 DEF BusInv

\* The answer of getUpdates: consecutive ids after the confirmed ones.
LEMMA AnswerIs ==
    ASSUME BusInv, ppc = "poll", Answer # <<>>
    PROVE  /\ Answer \in Batches /\ Len(Answer) \in Nat \ {0}
           /\ \A i \in 1 .. Len(Answer) : Answer[i] = Confirms + i
           /\ Answer[Len(Answer)] = Confirms + Len(Answer)
           /\ Confirms + Len(Answer) \in 0 .. emitted
<1>1. Inv /\ BusTypes /\ Produced /\ Batched /\ Lossless
  BY Zenon DEF BusInv
<1>2. Confirms \in 0 .. emitted
  BY ConfirmedIsDurable
<1>3. emitted \in Nat /\ emitted <= MaxId /\ MaxId \in Nat /\ MaxBatch \in Nat
  BY <1>1, QueueAssumption DEF BusTypes
<1> DEFINE n == IF emitted - Confirms < MaxBatch THEN emitted - Confirms ELSE MaxBatch
<1>4. n \in Nat /\ n <= MaxBatch /\ Confirms + n <= emitted
  BY <1>2, <1>3
<1>5. Answer = [i \in 1 .. n |-> Confirms + i]
  BY DEF Answer
<1> HIDE DEF n
<1>6. Len(Answer) = n /\ \A i \in 1 .. n : Answer[i] = Confirms + i
  BY <1>4, <1>5
<1>7. n # 0
  <2>1. SUFFICES ASSUME n = 0 PROVE FALSE
    OBVIOUS
  <2>2. Answer \in Seq(Int) /\ Len(Answer) = 0
    BY <1>2, <1>3, <1>4, <1>5, <1>6, <2>1
  <2> QED
    BY <2>2
<1>8. \A i \in 1 .. n : Confirms + i \in Ids \cup {NoId}
  BY <1>2, <1>3, <1>4 DEF Ids
<1>9. Answer \in [1 .. n -> Ids \cup {NoId}] /\ n \in 1 .. MaxBatch
  BY <1>3, <1>4, <1>5, <1>7, <1>8
<1>10. Answer \in Batches
  BY <1>9 DEF Batches
<1>11. Answer[n] = Confirms + n /\ Confirms + n \in 0 .. emitted
  BY <1>2, <1>3, <1>4, <1>6, <1>7
<1> QED
  BY <1>4, <1>6, <1>7, <1>10, <1>11

\* A poll hands its answer to PushAll, which prunes first.
LEMMA PollInv ==
    ASSUME BusInv, Poll
    PROVE  BusInv'
<1>1. Inv /\ BusTypes /\ Produced /\ Batched /\ Lossless
  BY Zenon DEF BusInv
<1>2. /\ ppc = "poll" /\ ppc' = "push" /\ Answer # <<>> /\ confirmed' = Confirms
      /\ polled' = Answer[Len(Answer)] /\ PushLock(Answer)
      /\ UNCHANGED <<emitted, offset, telegramOffset, seenBy>>
  BY DEF Poll
<1>3. /\ Answer \in Batches /\ Len(Answer) \in Nat \ {0}
      /\ \A i \in 1 .. Len(Answer) : Answer[i] = Confirms + i
      /\ polled' = Confirms + Len(Answer) /\ polled' \in 0 .. emitted
  BY <1>2, AnswerIs
<1>4. Inv'
  BY <1>1, <1>2, <1>3, PushLockInv
<1>5. /\ IdsOf(q') \subseteq IdsOf(q) /\ IdsOf(q) \subseteq IdsOf(q') \cup excused'
      /\ RowIds' \subseteq RowIds /\ RowIds \subseteq RowIds' \cup excused'
      /\ excused \subseteq excused' /\ excused' \subseteq excused \cup IdsOf(q) \cup RowIds
      /\ push.pc = "idle" /\ push'.pc = "loop" /\ push'.todo = Answer /\ push'.batch = {}
      /\ ~push'.overflow /\ SameOrder
      /\ UNCHANGED <<consumerOffset, policy, dbOffset, calls, corrupt>>
  BY <1>1, <1>2, PushLockIds
<1>6. got' = got /\ dropped' = dropped /\ behind' = behind
  BY <1>2 DEF seenBy
<1>7. Confirms \in 0 .. emitted /\ emitted \in Nat
  BY <1>1, <1>2, ConfirmedIsDurable, Counts
<1>8. polled' - Len(push'.todo) = Confirms /\ Len(push'.todo) <= polled'
  BY <1>3, <1>5, <1>7
<1>9. BusTypes'
  BY <1>1, <1>2, <1>7 DEF BusTypes, seenBy
<1>10. Produced'
  <2>1. IdsOf(q)' \cup RowIds' \cup excused' \subseteq IdsOf(q) \cup RowIds \cup excused
    BY <1>5
  <2> QED
    BY <1>1, <1>2, <1>5, <1>6, <2>1 DEF Produced, Answered
<1>11. Batched'
  <2>1. \A i \in 1 .. Len(push'.todo) : push'.todo[i] = polled' - Len(push'.todo) + i
    BY <1>3, <1>5, <1>8
  <2> QED
    BY <1>2, <1>3, <1>5, <1>8, <2>1 DEF Batched
<1>12. Lossless'
  <2>1. Answered \subseteq Answered'
    BY <1>5, <1>6 DEF Answered
  <2>2. Held \subseteq Held' /\ Durable \subseteq Durable'
    BY <1>5, <2>1 DEF Held, Durable, Answered
  <2>3. 1 .. Confirms \subseteq Durable /\ Durable = Held
    BY <1>2, <1>5, ConfirmedIsDurable, Settles
  <2>4. InMemory' \subseteq InMemory \cup {Confirms} /\ OnDisk' \subseteq OnDisk \cup {Confirms}
    BY <1>2, <1>5, <1>8 DEF InMemory, OnDisk
  <2>5. \A n \in InMemory' : n \in InMemory \/ 1 .. n \subseteq Held'
    BY <2>2, <2>3, <2>4, Zenon
  <2>6. \A n \in OnDisk' : n \in OnDisk \/ 1 .. n \subseteq Durable'
    BY <2>2, <2>3, <2>4, Zenon
  <2>7. Synced'
    BY <1>5, <2>2, <2>3 DEF Synced, Held, Durable
  <2>8. InOrder'
    BY <1>1, <1>5, <2>1, KeepsOrder
  <2> QED
    BY <1>1, <1>5, <1>6, <2>1, <2>2, <2>5, <2>6, <2>7, <2>8, Carry
<1> QED
  BY <1>4, <1>5, <1>6, <1>9, <1>10, <1>11, <1>12 DEF BusInv

\* The offset is saved once the batch is in memory and committed.
LEMMA SaveOffsetInv ==
    ASSUME BusInv, SaveOffset
    PROVE  BusInv'
<1>1. Inv /\ BusTypes /\ Produced /\ Batched /\ Lossless
  BY Zenon DEF BusInv
<1>2. /\ ppc = "push" /\ push.pc = "idle" /\ ppc' = "poll"
      /\ offset' = Larger(offset, polled) /\ polled' = 0
      /\ telegramOffset' \in {telegramOffset, offset'}
      /\ UNCHANGED faults \/ Fault
      /\ UNCHANGED <<memory, disk, calls, now, pushes, restarts, history, push, policy,
                     telegram, seenBy>>
  BY DEF SaveOffset
<1>3. Inv'
  BY <1>1, <1>2, StillInv DEF calls
<1>4. /\ IdsOf(q') = IdsOf(q) /\ RowIds' = RowIds /\ Answered' = Answered /\ push' = push
      /\ q' = q /\ got' = got /\ consumerOffset' = consumerOffset /\ dropped' = dropped
  BY <1>2 DEF memory, disk, history, seenBy, RowIds, Answered
<1>5. push.batch = {} /\ push.todo = <<>> /\ polled - Len(push.todo) = polled
  BY <1>1, <1>2, Settles, Zenon
<1>6. offset' \in {offset, polled} /\ emitted \in Nat
  BY <1>1, <1>2, Counts DEF Larger
<1>7. polled' - Len(push'.todo) = 0 /\ Len(push'.todo) = 0
  <2>1. push'.todo = <<>>
    BY <1>4, <1>5, Zenon
  <2>2. Len(push'.todo) = 0
    BY <2>1
  <2> QED
    BY <1>2, <2>2
<1>8. BusTypes'
  BY <1>1, <1>2, <1>6 DEF BusTypes, Batched, telegram, seenBy
<1>9. Produced'
  BY <1>1, <1>2, <1>4 DEF Produced, telegram
<1>10. Batched'
  <2>1. polled' \in 0 .. emitted'
    BY <1>2, <1>6 DEF telegram
  <2> QED
    BY <1>2, <1>4, <1>5, <1>7, <2>1 DEF Batched
<1>11. Lossless'
  <2>1. Held' = Held /\ Durable' = Durable
    BY <1>4 DEF Held, Durable
  <2>2. 1 .. offset' \subseteq Held
    <3>1. 1 .. offset \subseteq Held
      BY <1>1, Zenon DEF Lossless, InMemory
    <3>2. polled \in InMemory
      BY <1>5 DEF InMemory
    <3>3. 1 .. polled \subseteq Held
      BY <1>1, <3>2, Zenon DEF Lossless
    <3> QED
      BY <1>6, <3>1, <3>3
  <2>3. Held \subseteq Durable
    BY <1>1, <1>2, Settles
  <2>4. InMemory' \subseteq InMemory \cup {offset', 0} /\ OnDisk' \subseteq OnDisk \cup {offset'}
    BY <1>2, <1>4, <1>7 DEF InMemory, OnDisk, telegram
  <2>5. 1 .. 0 = {}
    OBVIOUS
  <2>6. \A n \in InMemory' : n \in InMemory \/ 1 .. n \subseteq Held'
    BY <2>1, <2>2, <2>4, <2>5
  <2>7. \A n \in OnDisk' : n \in OnDisk \/ 1 .. n \subseteq Durable'
    BY <2>1, <2>2, <2>3, <2>4
  <2>8. InOrder'
    BY <1>1, <1>4, SameQueue, KeepsOrder
  <2>9. Synced'
    BY <1>1, <1>4, <2>1, Zenon DEF Lossless, Synced
  <2> QED
    BY <1>1, <1>4, <2>1, <2>6, <2>7, <2>8, <2>9, Carry
<1> QED
  BY <1>3, <1>8, <1>9, <1>10, <1>11 DEF BusInv

\* The first id of what is left of a batch follows the ids before the batch.
LEMMA HeadOfBatch ==
    ASSUME BusInv, push.pc = "loop", push.todo # <<>>
    PROVE  /\ Head(push.todo) = (polled - Len(push.todo)) + 1
           /\ Head(push.todo) \in 1 .. emitted
           /\ Tail(push.todo) \in Seq(Nat)
           /\ polled - Len(Tail(push.todo)) = Head(push.todo)
           /\ Len(Tail(push.todo)) <= polled
           /\ \A i \in 1 .. Len(Tail(push.todo)) :
                 Tail(push.todo)[i] = polled - Len(Tail(push.todo)) + i
<1>1. Inv /\ BusTypes /\ Produced /\ Batched /\ Lossless
  BY Zenon DEF BusInv
<1>2. /\ push.todo \in Seq(Nat) /\ Len(push.todo) \in Nat /\ Len(push.todo) <= polled
      /\ polled \in Nat /\ emitted \in Nat /\ polled <= emitted
  <2>1. polled \in 0 .. emitted /\ emitted \in Nat
    BY <1>1, Counts, Zenon DEF Batched
  <2> QED
    BY <1>1, <2>1, Counts
<1>3. /\ Len(push.todo) # 0 /\ Head(push.todo) = push.todo[1]
      /\ Tail(push.todo) \in Seq(Nat) /\ Len(Tail(push.todo)) = Len(push.todo) - 1
      /\ \A i \in 1 .. Len(push.todo) - 1 : Tail(push.todo)[i] = push.todo[i + 1]
  BY <1>2
<1>4. \A i \in 1 .. Len(push.todo) : push.todo[i] = polled - Len(push.todo) + i
  BY <1>1, Zenon DEF Batched
<1>5. PICK n \in Nat : n = Len(push.todo)
  BY <1>2
<1>6. 1 \in 1 .. n /\ n <= polled /\ n # 0
  BY <1>2, <1>3, <1>5
<1>7. Head(push.todo) = (polled - n) + 1
  BY <1>3, <1>4, <1>5, <1>6
<1>8. Len(Tail(push.todo)) = n - 1
  BY <1>3, <1>5
<1>9. ASSUME NEW i \in 1 .. n - 1
      PROVE  Tail(push.todo)[i] = polled - (n - 1) + i
  <2>1. i + 1 \in 1 .. n
    BY <1>5
  <2>2. Tail(push.todo)[i] = push.todo[i + 1] /\ push.todo[i + 1] = polled - n + (i + 1)
    BY <1>3, <1>4, <1>5, <2>1
  <2>3. polled - n + (i + 1) = polled - (n - 1) + i
    BY <1>2
  <2> QED
    BY <2>2, <2>3, Zenon
<1>10. (polled - n) + 1 \in 1 .. emitted /\ polled - (n - 1) = (polled - n) + 1 /\ n - 1 <= polled
  BY <1>2, <1>6
<1> QED
  BY <1>3, <1>5, <1>7, <1>8, <1>9, <1>10

\* The ids up to polled are those before the batch and those left of it.
LEMMA RestOfBatch ==
    ASSUME Inv, BusTypes, Batched
    PROVE  /\ emitted \in Nat /\ polled \in 0 .. emitted /\ polled \in Nat
           /\ \A m \in 1 .. polled : m \in 1 .. (polled - Len(push.todo))
                                           \cup {push.todo[i] : i \in DOMAIN push.todo}
           /\ {push.todo[i] : i \in DOMAIN push.todo} \subseteq 1 .. emitted
<1>1. /\ push.todo \in Seq(Nat) /\ Len(push.todo) \in Nat /\ Len(push.todo) <= polled
      /\ polled \in Nat /\ emitted \in Nat /\ polled \in 0 .. emitted
  BY Counts, Zenon DEF Batched
<1>2. PICK n \in Nat : n = Len(push.todo)
  BY <1>1
<1>3. DOMAIN push.todo = 1 .. n /\ n <= polled /\ polled <= emitted
  BY <1>1, <1>2
<1>4. \A i \in 1 .. n : push.todo[i] = polled - n + i
  BY <1>2, Zenon DEF Batched
<1>5. ASSUME NEW i \in DOMAIN push.todo
      PROVE  push.todo[i] \in 1 .. emitted
  <2>1. polled - n + i \in 1 .. emitted
    BY <1>1, <1>3
  <2> QED
    BY <1>3, <1>4, <2>1
<1>6. ASSUME NEW m \in 1 .. polled, m \notin 1 .. (polled - n)
      PROVE  m \in {push.todo[i] : i \in DOMAIN push.todo}
  <2>1. PICK i \in Int : i = m - (polled - n)
    BY <1>1
  <2>2. i \in 1 .. n /\ polled - n + i = m
    BY <1>1, <1>3, <1>6, <2>1
  <2>3. push.todo[i] = m
    BY <1>4, <2>2
  <2> QED
    BY <1>3, <2>2, <2>3
<1> QED
  BY <1>1, <1>2, <1>5, <1>6

\* The new id is the next one, so it follows every id in the deque that counts.
LEMMA PushOneOrder ==
    ASSUME Inv, Produced, Lossless, Answered \subseteq Answered',
           NEW u \in Nat \ {0}, u \notin IdsOf(q),
           \A i, j \in DOMAIN q' : i < j =>
              \/ \E a, b \in DOMAIN q : a < b /\ q'[i] = q[a] /\ q'[j] = q[b]
              \/ q'[i].id \in IdsOf(q) /\ q'[j].id = u
    PROVE  InOrder'
<1> SUFFICES ASSUME NEW i \in DOMAIN q', NEW j \in DOMAIN q', i < j, q'[j].id \notin Answered'
             PROVE  q'[i].id < q'[j].id
  BY Zenon DEF InOrder
<1>1. CASE \E a, b \in DOMAIN q : a < b /\ q'[i] = q[a] /\ q'[j] = q[b]
  <2>1. PICK a \in DOMAIN q, b \in DOMAIN q : a < b /\ q'[i] = q[a] /\ q'[j] = q[b]
    BY <1>1, Zenon
  <2>2. q[a].id < q[b].id
    BY <2>1, Zenon DEF Lossless, InOrder
  <2> QED
    BY <2>1, <2>2, Zenon
<1>2. CASE q'[i].id \in IdsOf(q) /\ q'[j].id = u
  <2>1. PICK m \in IdsOf(q) : m = q'[i].id
    BY <1>2, Zenon
  <2>2. 1 .. m \subseteq Held
    BY <2>1, Zenon DEF Lossless, InMemory
  <2>3. u \notin Held
    BY <1>2, Zenon DEF Held
  <2>4. m \in Nat
    <3>1. PICK k \in DOMAIN q : m = q[k].id
      BY Zenon DEF IdsOf
    <3>2. q[k] \in Item
      BY DEF Inv, TypeOK
    <3> QED
      BY <3>1, <3>2 DEF Item
  <2>5. ~(m < u) => u \in 1 .. m
    BY <2>4
  <2>6. m < u
    BY <2>2, <2>3, <2>5
  <2> QED
    BY <1>2, <2>1, <2>6
<1> QED
  BY <1>1, <1>2, Zenon

\* One turn of the loop of PushAll: what the overflow policy gives up is counted
\* as dropped.
LEMMA BusPushOneInv ==
    ASSUME BusInv, PushOne, dropped' = dropped \cup (IdsOf(q) \ IdsOf(q')) \cup Refused,
           UNCHANGED <<telegram, poller, got, settled, overlapped, behind>>
    PROVE  BusInv'
<1>1. Inv /\ BusTypes /\ Produced /\ Batched /\ Lossless
  BY Zenon DEF BusInv
<1>2. PICK u : u = Head(push.todo)
  OBVIOUS
<1> DEFINE todo == {push.todo[i] : i \in DOMAIN push.todo}
           again == /\ q' = q /\ push'.batch = push.batch
                    /\ push'.todo = Tail(push.todo) /\ u \in IdsOf(q)
                    /\ ~push'.overflow /\ Refused = {}
           refuse == /\ q' = q /\ push'.batch = push.batch
                     /\ push'.todo = <<>> /\ Refused = push.batch \cup todo
           accept == /\ IdsOf(q') \subseteq IdsOf(q) \cup {u}
                     /\ u \in IdsOf(q') /\ u \notin IdsOf(q)
                     /\ push'.batch = push.batch \cup {u}
                     /\ push'.todo = Tail(push.todo)
                     /\ ~push'.overflow /\ Refused = {}
           follows == \A i, j \in DOMAIN q' : i < j =>
                         \/ \E a, b \in DOMAIN q : a < b /\ q'[i] = q[a] /\ q'[j] = q[b]
                         \/ q'[i].id \in IdsOf(q) /\ q'[j].id = u
<1>3. /\ push.pc = "loop" /\ push'.pc = "loop" /\ push.todo # <<>>
      /\ again \/ refuse \/ (accept /\ follows)
      /\ UNCHANGED <<consumerOffset, policy, disk, calls, history>>
  BY <1>1, <1>2, PushOneIds, Zenon
<1>4. /\ u = (polled - Len(push.todo)) + 1 /\ u \in 1 .. emitted
      /\ Tail(push.todo) \in Seq(Nat) /\ polled - Len(Tail(push.todo)) = u
      /\ Len(Tail(push.todo)) <= polled
      /\ \A i \in 1 .. Len(Tail(push.todo)) :
            Tail(push.todo)[i] = polled - Len(Tail(push.todo)) + i
  BY <1>2, <1>3, HeadOfBatch, Zenon
<1>5. /\ ppc' = ppc /\ offset' = offset /\ polled' = polled /\ telegramOffset' = telegramOffset
      /\ emitted' = emitted /\ confirmed' = confirmed /\ got' = got /\ settled' = settled
      /\ overlapped' = overlapped /\ behind' = behind /\ consumerOffset' = consumerOffset
      /\ RowIds' = RowIds /\ excused' = excused /\ corrupt' = corrupt
  BY <1>3, Zenon DEF telegram, poller, disk, history, RowIds
<1>6. Inv'
  BY <1>1, PushOneInv
<1>7. BusTypes'
  BY <1>1, <1>5 DEF BusTypes
<1>8. /\ emitted \in Nat /\ polled \in 0 .. emitted /\ polled \in Nat
      /\ \A m \in 1 .. polled : m \in 1 .. (polled - Len(push.todo)) \cup todo
      /\ todo \subseteq 1 .. emitted
  BY <1>1, RestOfBatch
<1> HIDE DEF todo
<1>9. Batched'
  <2>1. CASE push'.todo = Tail(push.todo) /\ ~push'.overflow
    BY <1>1, <1>3, <1>4, <1>5, <2>1, Zenon DEF Batched
  <2>2. CASE refuse
    <3>1. Len(push'.todo) = 0
      BY <2>2
    <3>2. Len(push'.todo) <= polled' /\ 1 .. Len(push'.todo) = {}
      BY <1>5, <1>8, <3>1
    <3>3. push'.batch \subseteq dropped'
      BY <2>2
    <3> QED
      BY <1>1, <1>3, <1>5, <2>2, <3>2, <3>3, Zenon DEF Batched
  <2> QED
    BY <1>3, <2>1, <2>2, Zenon
<1>10. IdsOf(q)' \subseteq IdsOf(q) \cup {u} /\ push'.batch \subseteq push.batch \cup {u}
  BY <1>3, Zenon
<1>11. Produced'
  <2>1. Refused \subseteq push.batch \cup todo
    BY <1>3, Zenon
  <2>2. dropped' \subseteq dropped \cup IdsOf(q) \cup push.batch \cup todo
    BY <2>1, Zenon
  <2> QED
    BY <1>1, <1>4, <1>5, <1>8, <1>10, <2>2, Zenon DEF Produced, Answered
<1>12. Lossless'
  <2>1. Answered \subseteq Answered' /\ Durable \subseteq Durable'
    BY <1>5 DEF Answered, Durable
  <2>2. Held \subseteq Held'
    BY <1>5 DEF Held, Answered
  <2>3. 1 .. (polled - Len(push.todo)) \subseteq Held
    <3>1. polled - Len(push.todo) \in InMemory
      BY DEF InMemory
    <3> QED
      BY <1>1, <3>1, Zenon DEF Lossless
  <2>4. \A n \in InMemory' : n \in InMemory \/ 1 .. n \subseteq Held'
    <3>1. CASE again \/ accept
      <4>1. u \in Held' /\ polled' - Len(push'.todo) = u
        BY <1>4, <1>5, <3>1, Zenon DEF Held
      <4>2. 1 .. u = 1 .. (polled - Len(push.todo)) \cup {u}
        <5>1. PICK n \in Int : n = polled - Len(push.todo)
          BY <1>1, Counts
        <5>2. u = n + 1 /\ u \in Nat \ {0}
          BY <1>4, <5>1
        <5>3. 1 .. u = 1 .. n \cup {u}
          BY <5>1, <5>2
        <5> QED
          BY <5>1, <5>3
      <4>3. 1 .. u \subseteq Held'
        BY <2>2, <2>3, <4>1, <4>2
      <4>4. InMemory' \subseteq InMemory \cup {u}
        BY <1>5, <1>10, <4>1, Zenon DEF InMemory
      <4> QED
        BY <4>3, <4>4, Zenon
    <3>2. CASE refuse
      <4>1. todo \subseteq Held'
        BY <3>2 DEF Held, Answered
      <4>2. 1 .. polled \subseteq Held'
        BY <1>8, <2>2, <2>3, <4>1
      <4>3. Len(push'.todo) = 0
        BY <3>2
      <4>4. polled' - Len(push'.todo) = polled
        BY <1>5, <1>8, <4>3
      <4>5. InMemory' \subseteq InMemory \cup {polled}
        BY <1>5, <3>2, <4>4 DEF InMemory
      <4> QED
        BY <4>2, <4>5, Zenon
    <3> QED
      BY <1>3, <3>1, <3>2, Zenon
  <2>5. OnDisk' = OnDisk
    BY <1>5 DEF OnDisk
  <2>6. Synced'
    <3>1. \/ push'.batch = push.batch /\ IdsOf(q') = IdsOf(q)
          \/ push'.batch = push.batch \cup {u}
      BY <1>3
    <3> QED
      BY <1>1, <1>5, <1>10, <2>1, <2>2, <3>1 DEF Lossless, Synced
  <2>7. InOrder'
    <3>1. CASE q' = q
      BY <1>1, <2>1, <3>1, SameQueue, KeepsOrder
    <3>2. CASE accept /\ follows
      <4>1. u \in Nat \ {0}
        BY <1>4
      <4> QED
        BY <1>1, <2>1, <3>2, <4>1, PushOneOrder, Zenon
    <3> QED
      BY <1>3, <3>1, <3>2, Zenon
  <2> QED
    BY <1>1, <1>5, <2>1, <2>2, <2>4, <2>5, <2>6, <2>7, Carry
<1> QED
  BY <1>6, <1>7, <1>9, <1>11, <1>12 DEF BusInv

\* The loop ends and the lock is released.
LEMMA BusPushUnlockInv ==
    ASSUME BusInv, PushUnlock, UNCHANGED <<telegram, poller, seenBy>>
    PROVE  BusInv'
<1>1. Inv /\ BusTypes /\ Produced /\ Batched /\ Lossless
  BY Zenon DEF BusInv
<1>2. /\ push.todo = <<>> /\ push'.todo = <<>> /\ push'.pc # "loop" /\ ~push'.overflow
      /\ push.pc = "loop"
      /\ push'.batch = push.batch \/ (push'.batch = {} /\ push.batch \subseteq dropped)
  BY <1>1, PushUnlockIds
<1>3. /\ ppc' = ppc /\ offset' = offset /\ polled' = polled /\ telegramOffset' = telegramOffset
      /\ emitted' = emitted /\ confirmed' = confirmed /\ got' = got /\ settled' = settled
      /\ overlapped' = overlapped /\ behind' = behind /\ consumerOffset' = consumerOffset
      /\ RowIds' = RowIds /\ Answered' = Answered /\ q' = q /\ dropped' = dropped
  BY DEF PushUnlock, telegram, poller, seenBy, memory, disk, history, RowIds, Answered
<1>4. Inv'
  BY <1>1, PushUnlockInv
<1>5. BusTypes'
  BY <1>1, <1>3 DEF BusTypes
<1>6. Produced'
  BY <1>1, <1>2, <1>3 DEF Produced
<1>7. Batched'
  BY <1>1, <1>2, <1>3, Zenon DEF Batched
<1>8. Lossless'
  <2>1. Held' = Held /\ Durable' = Durable /\ InMemory' \subseteq InMemory /\ OnDisk' = OnDisk
    BY <1>2, <1>3, Zenon DEF Held, Durable, InMemory, OnDisk
  <2>2. InOrder'
    BY <1>1, <1>3, SameQueue, KeepsOrder
  <2>3. Synced'
    BY <1>1, <1>2, <1>3, <2>1, Zenon DEF Lossless, Synced, Durable, Answered
  <2> QED
    BY <1>1, <1>3, <2>1, <2>2, <2>3, Carry
<1> QED
  BY <1>4, <1>5, <1>6, <1>7, <1>8 DEF BusInv

\* The transaction of PushAll.
LEMMA BusPushPersistInv ==
    ASSUME BusInv, PushPersist, UNCHANGED <<telegram, poller, seenBy>>
    PROVE  BusInv'
<1>1. Inv /\ BusTypes /\ Produced /\ Batched /\ Lossless
  BY Zenon DEF BusInv
<1>2. /\ push.pc = "persist" /\ push' = Idle
      /\ RowIds \subseteq RowIds' /\ RowIds' \subseteq RowIds \cup push.batch
      /\ excused \subseteq excused' /\ excused' \subseteq excused \cup push.batch
      /\ push.batch \subseteq RowIds' \cup excused'
  BY <1>1, PushPersistIds
<1>3. /\ ppc' = ppc /\ offset' = offset /\ polled' = polled /\ telegramOffset' = telegramOffset
      /\ emitted' = emitted /\ confirmed' = confirmed /\ got' = got /\ settled' = settled
      /\ overlapped' = overlapped /\ behind' = behind /\ consumerOffset' = consumerOffset
      /\ corrupt' = corrupt /\ dropped' = dropped /\ q' = q
  BY Zenon DEF PushPersist, telegram, poller, seenBy, memory
<1>4. /\ push'.todo = <<>> /\ push'.batch = {} /\ push'.pc = "idle" /\ push.todo = <<>>
      /\ ~push'.overflow
  BY <1>1, <1>2, Zenon DEF Idle, Batched
<1>5. Inv'
  BY <1>1, PushPersistInv
<1>6. BusTypes'
  BY <1>1, <1>3 DEF BusTypes
<1>7. Produced'
  BY <1>1, <1>2, <1>3, <1>4, Zenon DEF Produced, Answered
<1>8. Batched'
  BY <1>1, <1>3, <1>4, Zenon DEF Batched
<1>9. Lossless'
  <2>1. Answered \subseteq Answered' /\ Durable \subseteq Durable' /\ push.batch \subseteq Durable'
    BY <1>2, <1>3, Zenon DEF Answered, Durable
  <2>2. Held \subseteq Held'
    BY <1>3, <2>1 DEF Held
  <2>3. Held \subseteq Durable'
    BY <1>1, <2>1 DEF Lossless, Synced, Held, Durable
  <2>4. \A n \in push.batch : n \in InMemory /\ 1 .. n \subseteq Held
    BY <1>1, Zenon DEF Lossless, InMemory
  <2>5. push.batch \subseteq Held
    <3>1. emitted \in Nat /\ push.batch \subseteq 1 .. emitted
      BY <1>1, Counts DEF Produced
    <3>2. \A n \in push.batch : n \in 1 .. n
      BY <3>1
    <3> QED
      BY <2>4, <3>2, Zenon
  <2>6. InMemory' \subseteq InMemory /\ OnDisk' \subseteq OnDisk \cup push.batch
    BY <1>2, <1>3, <1>4, Zenon DEF InMemory, OnDisk
  <2>7. \A n \in OnDisk' : n \in OnDisk \/ 1 .. n \subseteq Durable'
    BY <2>3, <2>4, <2>6, Zenon
  <2>8. Synced'
    BY <1>1, <1>2, <1>3, <2>2, <2>3, <2>5, Zenon DEF Lossless, Synced, Held
  <2>9. InOrder'
    BY <1>1, <1>3, <2>1, SameQueue, KeepsOrder
  <2> QED
    BY <1>1, <1>3, <2>1, <2>2, <2>6, <2>7, <2>8, <2>9, Carry
<1> QED
  BY <1>3, <1>5, <1>6, <1>7, <1>8, <1>9 DEF BusInv

\* An Ack for an id that was received passes answered ids only.
LEMMA AckReceivedInv ==
    ASSUME BusInv, NEW c \in Requests, NEW n \in {0} \cup got, AckReceived(c, n)
    PROVE  BusInv'
<1>1. Inv /\ BusTypes /\ Produced /\ Batched /\ Lossless
  BY Zenon DEF BusInv
<1>2. n \in Nat /\ consumerOffset \in Nat /\ emitted \in Nat
  BY <1>1, Counts DEF Produced, Answered
<1>3. AckLocked(c, n) /\ UNCHANGED <<telegram, poller, got, dropped, settled, behind>>
  BY DEF AckReceived
<1>4. /\ consumerOffset' = Larger(n, consumerOffset)
      /\ IdsOf(q') \subseteq IdsOf(q)
      /\ \A id \in IdsOf(q) \ IdsOf(q') : id <= consumerOffset'
      /\ SameOrder
  BY <1>1, <1>2, <1>3, AckLockedIds
<1>5. /\ ppc' = ppc /\ offset' = offset /\ polled' = polled /\ telegramOffset' = telegramOffset
      /\ emitted' = emitted /\ confirmed' = confirmed /\ got' = got /\ settled' = settled
      /\ RowIds' = RowIds /\ Answered' = Answered /\ push' = push /\ dropped' = dropped
  BY <1>3, Zenon DEF AckLocked, telegram, poller, disk, history, RowIds, Answered
<1>6. overlapped' \in BOOLEAN
  BY <1>1 DEF AckReceived, BusTypes
<1>7. Inv'
  BY <1>1, <1>2, <1>3, AckLockedInv
<1>8. BusTypes'
  BY <1>1, <1>5, <1>6 DEF BusTypes
<1>9. Produced'
  BY <1>1, <1>4, <1>5, Zenon DEF Produced
<1>10. Batched'
  BY <1>1, <1>5, Zenon DEF Batched
<1>11. Lossless'
  <2>1. 1 .. consumerOffset' \subseteq Answered
    <3>1. consumerOffset' \in {n, consumerOffset}
      BY <1>4 DEF Larger
    <3>2. CASE consumerOffset' = 0
      BY <3>2
    <3>3. CASE consumerOffset' \in got \cup {consumerOffset}
      BY <1>1, <3>3, Zenon DEF Lossless
    <3> QED
      BY <3>1, <3>2, <3>3
  <2>2. IdsOf(q) \subseteq Held'
    <3>1. ASSUME NEW id \in IdsOf(q) \ IdsOf(q')
          PROVE  id \in Answered
      <4>1. id \in 1 .. emitted /\ id <= consumerOffset'
        BY <1>1, <1>4 DEF Produced
      <4>2. consumerOffset' \in Nat
        BY <1>2, <1>4 DEF Larger
      <4>3. id \in 1 .. consumerOffset'
        BY <1>2, <4>1, <4>2
      <4> QED
        BY <2>1, <4>3
    <3> QED
      BY <1>5, <3>1 DEF Held
  <2>3. Held \subseteq Held' /\ Durable' = Durable
    BY <1>5, <2>2 DEF Held, Durable
  <2>4. InMemory' \subseteq InMemory /\ OnDisk' = OnDisk
    BY <1>4, <1>5, Zenon DEF InMemory, OnDisk
  <2>5. Synced'
    BY <1>1, <1>4, <1>5, <2>3, Zenon DEF Lossless, Synced
  <2>6. InOrder'
    BY <1>1, <1>4, <1>5, KeepsOrder
  <2>7. \A m \in got' \cup {consumerOffset'} :
           m \in got \cup {consumerOffset} \/ 1 .. m \subseteq Answered'
    BY <1>5, <2>1
  <2> QED
    BY <1>1, <1>5, <2>3, <2>4, <2>5, <2>6, <2>7, Carry
<1> QED
  BY <1>5, <1>7, <1>8, <1>9, <1>10, <1>11 DEF BusInv

\* The DELETE of an Ack: the rows it removes are answered.
LEMMA BusAckDeleteInv ==
    ASSUME BusInv, NEW c \in Requests, AckDelete(c), UNCHANGED <<telegram, poller, seenBy>>
    PROVE  BusInv'
<1>1. Inv /\ BusTypes /\ Produced /\ Batched /\ Lossless
  BY Zenon DEF BusInv
<1>2. RowIds' \subseteq RowIds /\ \A id \in RowIds \ RowIds' : id <= consumerOffset
  BY <1>1, AckDeleteIds
<1>3. /\ ppc' = ppc /\ offset' = offset /\ polled' = polled /\ telegramOffset' = telegramOffset
      /\ emitted' = emitted /\ confirmed' = confirmed /\ got' = got /\ settled' = settled
      /\ overlapped' = overlapped /\ behind' = behind /\ consumerOffset' = consumerOffset
      /\ Answered' = Answered /\ q' = q /\ push' = push /\ dropped' = dropped
  BY Zenon DEF AckDelete, telegram, poller, seenBy, memory, history, Answered
<1>4. Inv'
  BY <1>1, AckDeleteInv
<1>5. BusTypes'
  BY <1>1, <1>3 DEF BusTypes
<1>6. Produced'
  BY <1>1, <1>2, <1>3, Zenon DEF Produced
<1>7. Batched'
  BY <1>1, <1>3, Zenon DEF Batched
<1>8. Lossless'
  <2>1. \A id \in RowIds \ RowIds' : id \in Answered
    <3>1. 1 .. consumerOffset \subseteq Answered
      BY <1>1, Zenon DEF Lossless
    <3>2. consumerOffset \in Nat /\ emitted \in Nat /\ RowIds \subseteq 1 .. emitted
      BY <1>1, Counts DEF Produced
    <3>3. \A id \in RowIds \ RowIds' : id \in 1 .. consumerOffset
      BY <1>2, <3>2
    <3> QED
      BY <3>1, <3>3
  <2>2. Held' = Held /\ Durable \subseteq Durable'
    BY <1>3, <2>1 DEF Held, Durable
  <2>3. InMemory' = InMemory /\ OnDisk' \subseteq OnDisk
    BY <1>2, <1>3, Zenon DEF InMemory, OnDisk
  <2>4. Synced'
    BY <1>1, <1>2, <1>3, <2>2, Zenon DEF Lossless, Synced
  <2>5. InOrder'
    BY <1>1, <1>3, SameQueue, KeepsOrder
  <2> QED
    BY <1>1, <1>3, <2>2, <2>3, <2>4, <2>5, Carry
<1> QED
  BY <1>3, <1>4, <1>5, <1>6, <1>7, <1>8 DEF BusInv

\* Pull hands out the front of what is unacknowledged: with an id, all ids
\* before it that nothing else accounts for.
LEMMA OutIsPrefix ==
    ASSUME Inv, Produced, Lossless, NEW n \in Out
    PROVE  1 .. n \subseteq Answered \cup Out
<1> DEFINE upto(j) == {k \in Visible : k <= j}
<1>1. PICK j \in Visible : n = q[j].id /\ Cardinality(upto(j)) <= Limit
  BY DEF Out
<1>2. /\ j \in DOMAIN q /\ q \in Seq(Item) /\ DOMAIN q = 1 .. Len(q) /\ Len(q) \in Nat
      /\ consumerOffset \in Nat /\ Limit \in Nat
  <2>1. q \in Seq(Item) /\ consumerOffset \in Nat
    BY Zenon DEF Inv, TypeOK
  <2>2. DOMAIN q = 1 .. Len(q) /\ Len(q) \in Nat
    BY <2>1
  <2>3. j \in DOMAIN q
    BY Zenon DEF Visible
  <2> QED
    BY <2>1, <2>2, <2>3, QueueAssumption
<1> SUFFICES ASSUME NEW m \in 1 .. n, m \notin Answered
             PROVE  m \in Out
  OBVIOUS
<1>3. n \in Nat
  <2>1. q[j] \in Item
    BY <1>2
  <2> QED
    BY <1>1, <2>1 DEF Item
<1>4. m \in Held
  <2>1. n \in InMemory
    BY <1>1, <1>2, Zenon DEF InMemory, IdsOf
  <2> QED
    BY <2>1, Zenon DEF Lossless
<1>5. PICK i \in DOMAIN q : q[i].id = m
  BY <1>4, Zenon DEF Held, IdsOf
<1>6. i \in Visible
  <2>1. 1 .. consumerOffset \subseteq Answered
    BY Zenon DEF Lossless
  <2>2. m > consumerOffset
    BY <1>2, <1>3, <2>1
  <2> QED
    BY <1>5, <2>2 DEF Visible
<1>7. i <= j
  <2>1. j < i => n < m
    BY <1>1, <1>2, <1>5, Zenon DEF Lossless, InOrder
  <2> QED
    BY <1>2, <1>3, <2>1
<1>8. Cardinality(upto(i)) <= Limit
  <2>1. IsFiniteSet(upto(j))
    <3>1. upto(j) \subseteq 1 .. Len(q)
      BY <1>2 DEF Visible
    <3>2. IsFiniteSet(1 .. Len(q))
      BY <1>2, FS_Interval
    <3> QED
      BY <3>1, <3>2, FS_Subset
  <2>2. upto(i) \subseteq upto(j)
    BY <1>2, <1>7 DEF Visible
  <2>3. Cardinality(upto(i)) <= Cardinality(upto(j)) /\ IsFiniteSet(upto(i))
    BY <2>1, <2>2, FS_Subset
  <2>4. Cardinality(upto(i)) \in Nat /\ Cardinality(upto(j)) \in Nat
    BY <2>1, <2>3, FS_CardinalityType
  <2> HIDE DEF upto
  <2> QED
    BY <1>1, <1>2, <2>3, <2>4
<1> QED
  BY <1>5, <1>6, <1>8, Zenon DEF Out

\* What Pull hands out are ids of the deque.
LEMMA OutIsQueued == Out \subseteq IdsOf(q)
BY Zenon DEF Out, Visible, IdsOf

\* The answer of Pull reaches the replica.
LEMMA DeliverInv ==
    ASSUME BusInv, NEW c \in Requests, Deliver(c)
    PROVE  BusInv'
<1>1. Inv /\ BusTypes /\ Produced /\ Batched /\ Lossless
  BY Zenon DEF BusInv
<1>2. Scan(c) /\ UNCHANGED <<telegram, poller, dropped, settled, overlapped, behind>>
  BY DEF Deliver
<1>3. got' = got \/ got' = got \cup Out
  BY DEF Deliver
<1>4. /\ ppc' = ppc /\ offset' = offset /\ polled' = polled /\ telegramOffset' = telegramOffset
      /\ emitted' = emitted /\ confirmed' = confirmed /\ settled' = settled
      /\ overlapped' = overlapped /\ behind' = behind /\ consumerOffset' = consumerOffset
      /\ RowIds' = RowIds /\ excused' = excused /\ corrupt' = corrupt /\ dropped' = dropped
      /\ q' = q /\ push' = push
  BY <1>2, Zenon DEF Scan, telegram, poller, memory, disk, history, RowIds
<1>5. Inv'
  BY <1>1, <1>2, QuietInv
<1>6. BusTypes'
  BY <1>1, <1>4 DEF BusTypes
<1>7. Produced'
  <2>1. got' \subseteq got \cup IdsOf(q)
    BY <1>3, OutIsQueued
  <2>2. Answered' \subseteq Answered \cup IdsOf(q)
    BY <1>4, <2>1 DEF Answered
  <2>3. IdsOf(q)' = IdsOf(q)
    BY <1>4, Zenon DEF IdsOf
  <2> QED
    BY <1>1, <1>4, <2>2, <2>3 DEF Produced
<1>8. Batched'
  BY <1>1, <1>4, Zenon DEF Batched
<1>9. Lossless'
  <2>1. Answered \subseteq Answered'
    BY <1>3, <1>4 DEF Answered
  <2>2. Held \subseteq Held' /\ Durable \subseteq Durable'
    BY <1>4, <2>1 DEF Held, Durable
  <2>3. InMemory' = InMemory /\ OnDisk' = OnDisk
    BY <1>4, Zenon DEF InMemory, OnDisk
  <2>4. ASSUME NEW n \in got', n \notin got
        PROVE  1 .. n \subseteq Answered'
    <3>1. n \in Out /\ got' = got \cup Out
      BY <1>3, <2>4
    <3>2. 1 .. n \subseteq Answered \cup Out
      BY <1>1, <3>1, OutIsPrefix
    <3>3. Out \subseteq Answered'
      BY <3>1 DEF Answered
    <3> QED
      BY <2>1, <3>2, <3>3
  <2>5. \A n \in got' \cup {consumerOffset'} :
           n \in got \cup {consumerOffset} \/ 1 .. n \subseteq Answered'
    BY <1>4, <2>4, Zenon
  <2>6. Synced'
    BY <1>1, <1>4, <2>2, Zenon DEF Lossless, Synced
  <2>7. InOrder'
    BY <1>1, <1>4, <2>1, SameQueue, KeepsOrder
  <2> QED
    BY <1>1, <2>1, <2>2, <2>3, <2>5, <2>6, <2>7, Carry
<1> QED
  BY <1>4, <1>5, <1>6, <1>7, <1>8, <1>9 DEF BusInv

\* The process dies and restarts: what is durable comes back into memory.
LEMMA BusRestartInv ==
    ASSUME BusInv, BusRestart
    PROVE  BusInv'
<1>1. Inv /\ BusTypes /\ Produced /\ Batched /\ Lossless
  BY Zenon DEF BusInv
<1>2. /\ consumerOffset' = dbOffset /\ push' = Idle
      /\ RowIds' \subseteq RowIds
      /\ \A id \in RowIds \ RowIds' : id <= dbOffset
      /\ IdsOf(q') \subseteq RowIds'
      /\ RowIds' \subseteq IdsOf(q') \cup corrupt' \cup excused' \cup behind'
      /\ behind \subseteq behind' /\ behind' \subseteq behind \cup RowIds'
      /\ excused \subseteq excused' /\ excused' \subseteq excused \cup RowIds
      /\ corrupt \subseteq corrupt' /\ corrupt' \subseteq corrupt \cup RowIds
      /\ \A i, j \in DOMAIN q' : i < j => q'[i].id < q'[j].id
  BY <1>1, RestartIds, Zenon
<1>3. /\ ppc' = "boot" /\ offset' = 0 /\ polled' = 0 /\ telegramOffset' = telegramOffset
      /\ emitted' = emitted /\ confirmed' = confirmed /\ got' = got /\ settled' = settled
      /\ overlapped' = overlapped /\ dropped' = dropped
  BY DEF BusRestart, telegram
<1>4. Restart
  BY Zenon DEF BusRestart, Restart
<1>5. push'.todo = <<>> /\ push'.batch = {} /\ push'.pc = "idle" /\ ~push'.overflow
  BY <1>2, Zenon DEF Idle
<1>6. Inv'
  BY <1>1, <1>4, RestartInv
<1>7. emitted \in Nat /\ dbOffset \in Nat /\ consumerOffset \in Nat /\ dbOffset <= consumerOffset
  BY <1>1, Counts, Zenon DEF Inv, TypeOK, CursorNotAhead
<1>8. BusTypes'
  BY <1>1, <1>3, <1>7 DEF BusTypes
<1>9. Produced'
  BY <1>1, <1>2, <1>3, <1>5, Zenon DEF Produced, Answered
<1>10. Len(push'.todo) = 0 /\ polled' - Len(push'.todo) = 0
  <2>1. Len(push'.todo) = 0
    BY <1>5
  <2> QED
    BY <1>3, <2>1
<1>11. Batched'
  <2>1. polled' \in 0 .. emitted' /\ Len(push'.todo) <= polled' /\ 1 .. Len(push'.todo) = {}
    BY <1>3, <1>7, <1>10
  <2> QED
    BY <1>5, <2>1, Zenon DEF Batched
<1>12. Lossless'
  <2>1. Answered \subseteq Answered'
    BY <1>2, <1>3, Zenon DEF Answered
  <2>2. 1 .. dbOffset \subseteq Answered
    <3>1. 1 .. consumerOffset \subseteq Answered
      BY <1>1, Zenon DEF Lossless
    <3>2. 1 .. dbOffset \subseteq 1 .. consumerOffset
      BY <1>7
    <3> QED
      BY <3>1, <3>2
  <2>3. \A id \in RowIds \ RowIds' : id \in Answered
    <3>1. RowIds \subseteq 1 .. emitted
      BY <1>1 DEF Produced
    <3>2. \A id \in RowIds \ RowIds' : id \in 1 .. dbOffset
      BY <1>2, <1>7, <3>1
    <3> QED
      BY <2>2, <3>2
  <2>4. Durable \subseteq Durable'
    BY <2>1, <2>3 DEF Durable
  <2>5. Durable' \subseteq Held'
    BY <1>1, <1>2, Zenon DEF Durable, Held, Answered
  <2>6. \A n \in got' \cup {consumerOffset'} : 1 .. n \subseteq Answered'
    <3>1. \A n \in got : 1 .. n \subseteq Answered
      BY <1>1, Zenon DEF Lossless
    <3> QED
      BY <1>2, <1>3, <2>1, <2>2, <3>1, Zenon
  <2>7. \A n \in OnDisk : 1 .. n \subseteq Durable
    BY <1>1, Zenon DEF Lossless
  <2>8. \A n \in OnDisk' : 1 .. n \subseteq Durable'
    <3>1. OnDisk' \subseteq OnDisk
      BY <1>2, <1>3, Zenon DEF OnDisk
    <3> QED
      BY <2>4, <2>7, <3>1, Zenon
  <2>9. \A n \in InMemory' : 1 .. n \subseteq Held'
    <3>1. InMemory' \subseteq RowIds \cup {0}
      BY <1>2, <1>3, <1>5, <1>10, Zenon DEF InMemory
    <3>2. \A n \in RowIds : 1 .. n \subseteq Held'
      BY <2>4, <2>5, <2>7, Zenon DEF OnDisk
    <3>3. 1 .. 0 = {}
      OBVIOUS
    <3> QED
      BY <3>1, <3>2, <3>3
  <2>10. Synced'
    BY <1>2, <2>5, Zenon DEF Synced, Durable
  <2>11. InOrder'
    BY <1>2, Zenon DEF InOrder
  <2> QED
    BY <2>6, <2>8, <2>9, <2>10, <2>11, Zenon DEF Lossless
<1> QED
  BY <1>3, <1>4, <1>6, <1>8, <1>9, <1>11, <1>12 DEF BusInv

\* The bus starts empty.
LEMMA BusInitInv == BusInit => BusInv
<1> SUFFICES ASSUME BusInit PROVE BusInv
  OBVIOUS
<1>1. /\ q = <<>> /\ consumerOffset = 0 /\ rows = {} /\ push = Idle
      /\ excused = {} /\ corrupt = {} /\ Inv
  BY InitInv DEF BusInit, Init
<1>2. /\ emitted = 0 /\ confirmed = 0 /\ ppc = "boot" /\ offset = 0 /\ polled = 0
      /\ telegramOffset = 0 /\ got = {} /\ dropped = {} /\ settled = 0 /\ behind = {}
  BY DEF BusInit
<1>9. overlapped \in BOOLEAN
  BY Zenon DEF BusInit
<1>3. push.todo = <<>> /\ push.batch = {} /\ push.pc = "idle" /\ Len(push.todo) = 0 /\ ~push.overflow
  BY <1>1 DEF Idle
<1>4. Answered = {} /\ RowIds = {} /\ IdsOf(q) = {} /\ DOMAIN q = {}
  BY <1>1, <1>2 DEF Answered, RowIds, IdsOf
<1>5. MaxId \in Nat
  BY QueueAssumption
<1>6. BusTypes
  BY <1>2, <1>5, <1>9 DEF BusTypes
<1>7. Produced /\ Batched
  <2>1. Produced
    BY <1>2, <1>3, <1>4 DEF Produced
  <2>2. polled \in 0 .. emitted /\ Len(push.todo) <= polled /\ 1 .. Len(push.todo) = {}
    BY <1>2, <1>3
  <2> QED
    BY <1>3, <2>1, <2>2 DEF Batched
<1>8. Lossless
  <2>1. polled - Len(push.todo) = 0 /\ 1 .. 0 = {}
    <3>1. polled = 0 /\ Len(push.todo) = 0
      BY <1>2, <1>3
    <3> QED
      BY <3>1
  <2>2. InMemory \subseteq {0}
    BY <1>2, <1>3, <1>4, <2>1 DEF InMemory
  <2>3. OnDisk \subseteq {0} /\ got \cup {consumerOffset} \subseteq {0}
    BY <1>1, <1>2, <1>4 DEF OnDisk
  <2> QED
    BY <1>4, <2>1, <2>2, <2>3 DEF Lossless, InOrder, Synced
<1> QED
  BY <1>1, <1>6, <1>7, <1>8 DEF BusInv

\* A step of a replica.
LEMMA ReplicaInv ==
    ASSUME BusInv, NEW c \in Requests, ReplicaStep(c)
    PROVE  BusInv'
<1>1. Inv /\ BusTypes /\ Produced /\ Batched /\ Lossless
  BY Zenon DEF BusInv
<1>2. emitted \in emitted .. MaxId /\ settled \in Nat /\ overlapped \in BOOLEAN
  BY <1>1, QueueAssumption DEF BusTypes
<1>3. CASE \E id \in {0} \cup got : AckReceived(c, id)
  BY <1>3, AckReceivedInv
<1>4. CASE AckCommit(c)
  <2>1. AckUpsert(c) /\ UNCHANGED <<telegram, poller, got, dropped, overlapped, behind>>
    BY <1>4 DEF AckCommit
  <2>2. Inv'
    BY <1>1, <2>1, AckUpsertInv
  <2>3. settled' \in Nat
    <3>1. acked[c] \in Nat
      BY <1>1 DEF Inv, TypeOK
    <3> QED
      BY <1>2, <1>4, <3>1 DEF AckCommit, Larger
  <2>4. UNCHANGED <<memory, rows, policy, push, history>>
    BY <2>1 DEF AckUpsert
  <2> QED
    BY <1>2, <2>1, <2>2, <2>3, <2>4, QuietBus DEF telegram, memory
<1>5. CASE Deliver(c)
  BY <1>5, DeliverInv
<1>6. CASE LoseAnswer(c)
  <2>1. /\ Goto(c, "idle") /\ Fault
        /\ UNCHANGED <<memory, disk, acked, woken, now, pushes, restarts, history, push, policy,
                       telegram, poller, seenBy>>
    BY <1>6 DEF LoseAnswer
  <2>2. Inv'
    BY <1>1, <2>1, StillInv
  <2> QED
    BY <1>2, <2>1, <2>2, QuietBus DEF telegram, seenBy, memory, disk
<1>7. CASE AckDelete(c) /\ UNCHANGED <<telegram, poller, seenBy>>
  BY <1>7, BusAckDeleteInv
<1>8. CASE /\ PullCall(c) \/ Subscribe(c) \/ Wake(c) \/ GiveUp(c)
           /\ UNCHANGED <<telegram, poller, seenBy>>
  <2>1. Inv'
    BY <1>1, <1>8, QuietInv
  <2>2. UNCHANGED <<memory, disk, policy, push, history>>
    BY <1>8, Zenon DEF PullCall, Subscribe, Wake, GiveUp
  <2> QED
    BY <1>2, <1>8, <2>1, <2>2, QuietBus DEF telegram, seenBy, memory, disk
<1> QED
  BY <1>3, <1>4, <1>5, <1>6, <1>7, <1>8 DEF ReplicaStep

\* Every step of the bus preserves the invariant.
LEMMA BusNextInv == BusInv /\ [BusNext]_bvars => BusInv'
<1> SUFFICES ASSUME BusInv, [BusNext]_bvars PROVE BusInv'
  OBVIOUS
<1>1. Inv /\ BusTypes
  BY Zenon DEF BusInv
<1>2. emitted \in emitted .. MaxId /\ settled \in Nat /\ overlapped \in BOOLEAN
  BY <1>1, QueueAssumption DEF BusTypes
<1>3. CASE PushStep
  <2>1. CASE PushOne /\ dropped' = dropped \cup (IdsOf(q) \ IdsOf(q')) \cup Refused
    BY <1>3, <2>1, BusPushOneInv DEF PushStep
  <2>2. CASE (PushUnlock \/ PushPersist) /\ UNCHANGED dropped
    <3>1. UNCHANGED <<telegram, poller, seenBy>>
      BY <1>3, <2>2 DEF PushStep, seenBy
    <3> QED
      BY <2>2, <3>1, BusPushUnlockInv, BusPushPersistInv
  <2> QED
    BY <1>3, <2>1, <2>2 DEF PushStep
<1>4. CASE PollerStep
  BY <1>3, <1>4, PollerStartInv, PollInv, SaveOffsetInv DEF PollerStep
<1>5. CASE Tick /\ UNCHANGED <<telegram, poller, seenBy>>
  <2>1. Inv' /\ UNCHANGED <<memory, disk, policy, push, history>>
    BY <1>1, <1>5, QuietInv DEF Tick
  <2> QED
    BY <1>2, <1>5, <2>1, QuietBus DEF telegram, seenBy, memory, disk
<1>6. CASE UNCHANGED bvars
  <2>1. Inv'
    BY <1>1, <1>6, StillInv DEF bvars, qvars, calls, budget
  <2> QED
    BY <1>2, <1>6, <2>1, QuietBus DEF bvars, qvars, telegram, seenBy, memory, disk
<1> QED
  BY <1>4, <1>5, <1>6, EmitInv, PollNothingInv, ReplicaInv, BusRestartInv DEF BusNext

--------------------------------------------------------------------------------
(* A committed Ack *)

\* Until two Acks overlap, what has settled is on disk, and the only Ack in
\* progress is about to write no less.
Floor ==
    ~overlapped =>
        /\ settled <= dbOffset
        /\ \A c \in Requests : Acking(c) =>
              settled <= acked[c] /\ \A d \in Requests : Acking(d) => c = d

\* Steps that start no Ack and commit none keep the floor.
LEMMA FloorKept ==
    ASSUME Floor, UNCHANGED <<settled, dbOffset, overlapped>>,
           \A d \in Requests : pc'[d] \in {"delete", "upsert"} =>
              pc[d] \in {"delete", "upsert"} /\ acked'[d] = acked[d]
    PROVE  Floor'
BY Zenon DEF Floor, Acking

\* A step of one request into a place outside of Ack.
LEMMA FloorMove ==
    ASSUME Inv, Floor, NEW c \in Requests, NEW l \in {"idle", "scan", "subscribe", "wait"},
           Goto(c, l), UNCHANGED <<settled, dbOffset, overlapped>>,
           \A d \in Requests \ {c} : acked'[d] = acked[d]
    PROVE  Floor'
<1>1. pc \in [Requests -> {"idle", "delete", "upsert", "scan", "subscribe", "wait"}]
  BY DEF Inv, TypeOK
<1>2. pc' = [pc EXCEPT ![c] = l]
  BY DEF Goto
<1>3. \A d \in Requests : pc'[d] \in {"delete", "upsert"} =>
         pc[d] \in {"delete", "upsert"} /\ acked'[d] = acked[d]
  BY <1>1, <1>2, Zenon
<1> QED
  BY <1>3, FloorKept

\* An Ack starts: it will write the acknowledged offset, which the disk has not
\* passed.
LEMMA FloorAck ==
    ASSUME BusInv, Floor, NEW c \in Requests, NEW n \in {0} \cup got, AckReceived(c, n)
    PROVE  Floor'
<1> SUFFICES ASSUME ~overlapped'
             PROVE  /\ settled' <= dbOffset'
                    /\ \A a \in Requests : Acking(a)' =>
                          settled' <= acked'[a] /\ \A d \in Requests : Acking(d)' => a = d
  BY Zenon DEF Floor
<1>1. Inv /\ BusTypes /\ Produced /\ Batched
  BY Zenon DEF BusInv
<1>2. /\ AckLocked(c, n) /\ UNCHANGED <<telegram, poller, got, dropped, settled, behind>>
      /\ overlapped' = (overlapped \/ \E d \in Requests \ {c} : Acking(d))
  BY DEF AckReceived
<1>3. ~overlapped /\ \A d \in Requests \ {c} : ~Acking(d)
  BY <1>2, Zenon
<1>4. /\ n \in Nat /\ consumerOffset \in Nat /\ dbOffset \in Nat /\ dbOffset <= consumerOffset
      /\ pc \in [Requests -> {"idle", "delete", "upsert", "scan", "subscribe", "wait"}]
      /\ acked \in [Requests -> Nat] /\ settled \in Nat /\ emitted \in Nat
  <2>1. /\ acked \in [Requests -> Nat] /\ dbOffset \in Nat /\ dbOffset <= consumerOffset
        /\ pc \in [Requests -> {"idle", "delete", "upsert", "scan", "subscribe", "wait"}]
    BY <1>1, Zenon DEF Inv, TypeOK, CursorNotAhead
  <2>2. n \in Nat
    BY <1>1 DEF Produced, Answered
  <2>3. settled \in Nat /\ emitted \in Nat /\ consumerOffset \in Nat
    BY <1>1, Counts DEF BusTypes
  <2> QED
    BY <2>1, <2>2, <2>3
<1>5. settled <= dbOffset
  BY <1>3 DEF Floor
<1>6. /\ pc' = [pc EXCEPT ![c] = "delete"]
      /\ acked' = [acked EXCEPT ![c] = Larger(n, consumerOffset)]
      /\ dbOffset' = dbOffset /\ settled' = settled
  BY <1>2, Zenon DEF AckLocked, Goto, disk
<1>7. \A d \in Requests \ {c} : ~(pc'[d] \in {"delete", "upsert"})
  BY <1>3, <1>4, <1>6 DEF Acking
<1>8. acked'[c] >= consumerOffset /\ acked'[c] \in Nat
  BY <1>4, <1>6 DEF Larger
<1>9. settled' <= dbOffset' /\ settled' <= acked'[c]
  BY <1>4, <1>5, <1>6, <1>8
<1>10. \A a \in Requests : Acking(a)' => a = c
  BY <1>7 DEF Acking
<1> QED
  BY <1>9, <1>10

\* An Ack commits, and is the only one.
LEMMA FloorCommit ==
    ASSUME BusInv, Floor, NEW c \in Requests, AckCommit(c)
    PROVE  Floor'
<1>1. Inv /\ BusTypes
  BY Zenon DEF BusInv
<1>2. /\ AckUpsert(c) /\ overlapped' = overlapped
      /\ settled' = IF faults' = faults THEN Larger(settled, acked[c]) ELSE settled
  BY DEF AckCommit
<1>3. /\ pc[c] = "upsert" /\ Goto(c, "scan") /\ acked' = [acked EXCEPT ![c] = 0]
      /\ \/ dbOffset' = acked[c] /\ UNCHANGED faults
         \/ Fault /\ UNCHANGED dbOffset
  BY <1>2 DEF AckUpsert
<1>4. /\ acked \in [Requests -> Nat] /\ settled \in Nat /\ faults \in Nat
      /\ pc \in [Requests -> {"idle", "delete", "upsert", "scan", "subscribe", "wait"}]
  BY <1>1 DEF Inv, TypeOK, BusTypes
<1>5. \A d \in Requests \ {c} : acked'[d] = acked[d]
  BY <1>3, <1>4
<1>6. CASE Fault /\ UNCHANGED dbOffset
  <2>1. settled' = settled
    BY <1>2, <1>4, <1>6 DEF Fault
  <2> QED
    BY <1>1, <1>2, <1>3, <1>5, <1>6, <2>1, FloorMove
<1>7. CASE dbOffset' = acked[c] /\ UNCHANGED faults
  <2> SUFFICES ASSUME ~overlapped'
               PROVE  /\ settled' <= dbOffset'
                      /\ \A a \in Requests : Acking(a)' =>
                            settled' <= acked'[a] /\ \A d \in Requests : Acking(d)' => a = d
    BY Zenon DEF Floor
  <2>1. Acking(c)
    BY <1>3 DEF Acking
  <2>2. settled <= acked[c] /\ \A d \in Requests : Acking(d) => c = d
    BY <1>2, <2>1, Zenon DEF Floor
  <2>3. settled' <= dbOffset'
    BY <1>2, <1>4, <1>7, <2>2 DEF Larger
  <2>4. pc' = [pc EXCEPT ![c] = "scan"]
    BY <1>3 DEF Goto
  <2>5. \A d \in Requests : ~(pc'[d] \in {"delete", "upsert"})
    BY <1>4, <2>2, <2>4 DEF Acking
  <2> QED
    BY <2>3, <2>5 DEF Acking
<1> QED
  BY <1>3, <1>6, <1>7

\* Every step keeps the floor.
LEMMA FloorNext == BusInv /\ Floor /\ [BusNext]_bvars => Floor'
<1> SUFFICES ASSUME BusInv, Floor, [BusNext]_bvars PROVE Floor'
  OBVIOUS
<1>1. Inv /\ pc \in [Requests -> {"idle", "delete", "upsert", "scan", "subscribe", "wait"}]
  BY Zenon DEF BusInv, Inv, TypeOK
<1>2. ASSUME UNCHANGED <<pc, acked, settled, dbOffset, overlapped>>
      PROVE  Floor'
  BY <1>2, FloorKept
<1>3. CASE Emit \/ PollNothing \/ PollerStart \/ SaveOffset
  <2>1. UNCHANGED <<pc, acked, settled, dbOffset, overlapped>>
    BY <1>3, Zenon DEF Emit, PollNothing, PollerStart, SaveOffset, qvars, calls, disk, seenBy
  <2> QED
    BY <1>2, <2>1
<1>4. CASE Poll
  <2>1. UNCHANGED <<pc, acked, settled, dbOffset, overlapped>>
    BY <1>4 DEF Poll, PushLock, calls, seenBy
  <2> QED
    BY <1>2, <2>1
<1>5. CASE PushStep
  <2>1. UNCHANGED <<pc, acked, settled, dbOffset, overlapped>>
    BY <1>5 DEF PushStep, PushOne, PushUnlock, PushPersist, calls, disk
  <2> QED
    BY <1>2, <2>1
<1>6. CASE UNCHANGED bvars \/ (Tick /\ UNCHANGED <<telegram, poller, seenBy>>)
  <2>1. UNCHANGED <<pc, acked, settled, dbOffset, overlapped>>
    BY <1>6, Zenon DEF bvars, Tick, qvars, calls, disk, seenBy
  <2> QED
    BY <1>2, <2>1
<1>7. CASE BusRestart
  <2>1. pc' = [c \in Requests |-> "idle"] /\ UNCHANGED <<settled, dbOffset, overlapped>>
    BY <1>7, Zenon DEF BusRestart, Restart
  <2>2. \A d \in Requests : ~(pc'[d] \in {"delete", "upsert"})
    BY <2>1
  <2> QED
    BY <2>1, <2>2, FloorKept, Zenon
<1>8. ASSUME NEW c \in Requests, ReplicaStep(c)
      PROVE  Floor'
  <2>1. CASE \E id \in {0} \cup got : AckReceived(c, id)
    BY <2>1, FloorAck
  <2>2. CASE AckCommit(c)
    BY <2>2, FloorCommit
  <2>3. CASE Deliver(c) \/ LoseAnswer(c)
    <3>1. /\ Goto(c, "idle") \/ Goto(c, "subscribe")
          /\ UNCHANGED <<acked, settled, dbOffset, overlapped>>
      BY <2>3, Zenon DEF Deliver, Scan, LoseAnswer, disk, seenBy
    <3> QED
      BY <1>1, <3>1, FloorMove
  <2>4. CASE AckDelete(c) /\ UNCHANGED <<telegram, poller, seenBy>>
    <3>1. UNCHANGED <<settled, dbOffset, overlapped>>
      BY <2>4, Zenon DEF AckDelete, seenBy
    <3>2. CASE Goto(c, "scan") /\ acked' = [acked EXCEPT ![c] = 0]
      <4>1. \A d \in Requests \ {c} : acked'[d] = acked[d]
        BY <1>1, <3>2 DEF Inv, TypeOK
      <4> QED
        BY <1>1, <3>1, <3>2, <4>1, FloorMove
    <3>3. CASE pc[c] = "delete" /\ Goto(c, "upsert") /\ UNCHANGED acked
      <4>1. \A d \in Requests : pc'[d] \in {"delete", "upsert"} => pc[d] \in {"delete", "upsert"}
        BY <1>1, <3>3 DEF Goto
      <4> QED
        BY <3>1, <3>3, <4>1, FloorKept, Zenon
    <3> QED
      BY <2>4, <3>2, <3>3, Zenon DEF AckDelete
  <2>5. CASE /\ PullCall(c) \/ Subscribe(c) \/ Wake(c) \/ GiveUp(c)
             /\ UNCHANGED <<telegram, poller, seenBy>>
    <3>1. /\ Goto(c, "scan") \/ Goto(c, "wait") \/ Goto(c, "idle")
          /\ UNCHANGED <<acked, settled, dbOffset, overlapped>>
      BY <2>5, Zenon DEF PullCall, Subscribe, Wake, GiveUp, disk, seenBy
    <3> QED
      BY <1>1, <3>1, FloorMove
  <2> QED
    BY <1>8, <2>1, <2>2, <2>3, <2>4, <2>5 DEF ReplicaStep
<1> QED
  BY <1>3, <1>4, <1>5, <1>6, <1>7, <1>8 DEF BusNext, PollerStep

--------------------------------------------------------------------------------
(* The abstract stream *)

\* The bus starts as the stream does.
LEMMA StreamInit == BusInit => Stream!Init
BY DEF BusInit, Init, Stream!Init

\* Giving up more is a step of the stream.
LEMMA StreamAbandons ==
    ASSUME BusInv, BusInv', UNCHANGED <<emitted, got, consumerOffset>>,
           excused \subseteq excused', corrupt \subseteq corrupt',
           dropped \subseteq dropped', behind \subseteq behind'
    PROVE  Stream!Abandon
<1> DEFINE given == excused \cup corrupt \cup dropped \cup behind
<1>1. given' \subseteq 1 .. emitted
  BY Zenon DEF BusInv, Produced, Answered
<1>2. given' = given \cup given'
  OBVIOUS
<1> QED
  BY <1>1, <1>2, Zenon DEF Stream!Abandon

\* An Ack of the bus is one of the stream: the cursor passes answered ids only.
LEMMA StreamAcknowledges ==
    ASSUME BusInv, BusInv', NEW c \in Requests, NEW n \in {0} \cup got, AckReceived(c, n)
    PROVE  Stream!Acknowledge \/ UNCHANGED Stream!svars
<1>1. /\ AckLocked(c, n) /\ UNCHANGED <<emitted, got, dropped, behind>>
  BY DEF AckReceived, telegram
<1>2. consumerOffset' = Larger(n, consumerOffset) /\ UNCHANGED <<excused, corrupt>>
  BY <1>1, Zenon DEF AckLocked, history
<1>3. consumerOffset \in Nat /\ emitted \in Nat /\ got \subseteq 1 .. emitted
  BY Counts, Zenon DEF BusInv, Produced, Answered
<1>4. CASE consumerOffset' = consumerOffset
  BY <1>1, <1>2, <1>4 DEF Stream!svars
<1>5. CASE consumerOffset' # consumerOffset
  <2>1. consumerOffset' = n /\ n \in consumerOffset + 1 .. emitted
    BY <1>2, <1>3, <1>5 DEF Larger
  <2>2. 1 .. consumerOffset' \subseteq Answered'
    BY Zenon DEF BusInv, Lossless
  <2>3. 1 .. n \subseteq got \cup (excused \cup corrupt \cup dropped \cup behind)
    BY <1>1, <1>2, <2>1, <2>2 DEF Answered
  <2> QED
    BY <1>1, <1>2, <2>1, <2>3 DEF Stream!Acknowledge
<1> QED
  BY <1>4, <1>5

\* A Pull hands out ids beyond the cursor.
LEMMA StreamHandsOut ==
    ASSUME BusInv, NEW c \in Requests, Deliver(c)
    PROVE  Stream!HandOut \/ UNCHANGED Stream!svars
<1>1. UNCHANGED <<emitted, dropped, behind, consumerOffset, excused, corrupt>>
  BY Zenon DEF Deliver, Scan, telegram, memory, history
<1>2. Out \subseteq consumerOffset + 1 .. emitted
  <2>1. ASSUME NEW id \in Out
        PROVE  id \in consumerOffset + 1 .. emitted
    <3>1. PICK i \in Visible : id = q[i].id
      BY Zenon DEF Out
    <3>2. i \in DOMAIN q /\ id > consumerOffset
      BY <3>1 DEF Visible
    <3>3. id \in IdsOf(q)
      BY <3>1, <3>2, Zenon DEF IdsOf
    <3>4. id \in 1 .. emitted /\ emitted \in Nat /\ consumerOffset \in Nat
      BY <3>3, Counts DEF BusInv, Produced
    <3> QED
      BY <3>2, <3>4
  <2> QED
    BY <2>1
<1>3. CASE got' = got
  BY <1>1, <1>3 DEF Stream!svars
<1>4. CASE got' = got \cup Out
  BY <1>1, <1>2, <1>4 DEF Stream!HandOut
<1> QED
  BY <1>3, <1>4 DEF Deliver

\* Every step of the bus is a step of the stream, or none.
LEMMA StreamStep == BusInv /\ BusInv' /\ [BusNext]_bvars => [Stream!Next]_(Stream!svars)
<1> SUFFICES ASSUME BusInv, BusInv', [BusNext]_bvars
             PROVE  Stream!Next \/ UNCHANGED Stream!svars
  OBVIOUS
<1>1. Inv /\ BusTypes /\ Batched
  BY DEF BusInv
<1>2. CASE Emit
  <2>1. /\ emitted' = emitted + 1
        /\ UNCHANGED <<got, excused, corrupt, dropped, behind, consumerOffset>>
    BY <1>2 DEF Emit, qvars, memory, history, seenBy
  <2>2. Stream!Produce
    BY <2>1 DEF Stream!Produce
  <2> QED
    BY <2>2 DEF Stream!Next
<1>3. CASE PollNothing \/ PollerStart \/ SaveOffset
  BY <1>3, Zenon DEF PollNothing, PollerStart, SaveOffset, qvars, memory, history, telegram, seenBy,
              Stream!svars
<1>4. CASE Poll
  <2>1. UNCHANGED <<emitted, got, consumerOffset, corrupt, dropped, behind>>
    BY <1>4 DEF Poll, PushLock, seenBy
  <2>2. excused \subseteq excused'
    BY <1>1, <1>4, PushLockIds, Zenon DEF Poll
  <2> QED
    BY <2>1, <2>2, StreamAbandons DEF Stream!Next
<1>5. CASE PushStep
  <2>1. UNCHANGED <<emitted, got, consumerOffset, corrupt, behind>> /\ dropped \subseteq dropped'
    BY <1>5 DEF PushStep, PushOne, PushUnlock, PushPersist, telegram, memory, history
  <2>2. excused \subseteq excused'
    <3>1. CASE PushPersist
      BY <1>1, <3>1, PushPersistIds
    <3>2. CASE PushOne \/ PushUnlock
      BY <3>2 DEF PushOne, PushUnlock, history
    <3> QED
      BY <1>5, <3>1, <3>2 DEF PushStep
  <2> QED
    BY <2>1, <2>2, StreamAbandons DEF Stream!Next
<1>6. CASE UNCHANGED bvars \/ (Tick /\ UNCHANGED <<telegram, poller, seenBy>>)
  BY <1>6, Zenon DEF bvars, Tick, qvars, memory, history, telegram, seenBy, Stream!svars
<1>7. CASE BusRestart
  <2>1. /\ consumerOffset' = dbOffset /\ excused \subseteq excused' /\ corrupt \subseteq corrupt'
        /\ behind \subseteq behind' /\ UNCHANGED <<emitted, got, dropped>>
    BY <1>1, <1>7, RestartIds, Zenon DEF BusRestart, telegram
  <2>2. dbOffset \in 0 .. consumerOffset
    BY <1>1 DEF Inv, TypeOK, CursorNotAhead
  <2> DEFINE given == excused \cup corrupt \cup dropped \cup behind
  <2>3. given' \subseteq 1 .. emitted /\ given' = given \cup given'
    BY <2>1, Zenon DEF BusInv, Produced, Answered
  <2>4. Stream!Crash
    BY <2>1, <2>2, <2>3, Zenon DEF Stream!Crash
  <2> QED
    BY <2>4 DEF Stream!Next
<1>8. ASSUME NEW c \in Requests, ReplicaStep(c)
      PROVE  Stream!Next \/ UNCHANGED Stream!svars
  <2>1. CASE \E id \in {0} \cup got : AckReceived(c, id)
    BY <2>1, StreamAcknowledges DEF Stream!Next
  <2>2. CASE Deliver(c)
    BY <2>2, StreamHandsOut DEF Stream!Next
  <2>3. CASE AckCommit(c) \/ LoseAnswer(c)
    BY <2>3, Zenon DEF AckCommit, AckUpsert, LoseAnswer, memory, history, telegram, seenBy, Stream!svars
  <2>4. CASE /\ PullCall(c) \/ AckDelete(c) \/ Subscribe(c) \/ Wake(c) \/ GiveUp(c)
             /\ UNCHANGED <<telegram, poller, seenBy>>
    BY <2>4, Zenon DEF PullCall, AckDelete, Subscribe, Wake, GiveUp, memory, history, telegram, seenBy,
                Stream!svars
  <2> QED
    BY <1>8, <2>1, <2>2, <2>3, <2>4 DEF ReplicaStep
<1> QED
  BY <1>2, <1>3, <1>4, <1>5, <1>6, <1>7, <1>8 DEF BusNext, PollerStep

--------------------------------------------------------------------------------
(* The theorems about the bus *)

\* The inductive invariant holds in every reachable state of the bus.
THEOREM BusInvariant == BusSpec => []BusInv
  BY BusInitInv, BusNextInv, PTL DEF BusSpec

\* For every number of replicas, every maxsize, TTL, overflow policy and limit:
\* no update is lost without a trace, whatever the poller, the replicas, failing
\* statements and crashes do.
THEOREM NothingIsLost == BusSpec => []NoSilentLoss
<1>1. BusInv => NoSilentLoss
  <2> SUFFICES ASSUME BusInv, NEW id \in 1 .. emitted,
                      id \notin got \cup excused \cup corrupt \cup dropped \cup behind
               PROVE  Safe(id)
    BY Zenon DEF NoSilentLoss
  <2>1. /\ confirmed \in Nat /\ emitted \in Nat /\ consumerOffset \in Nat
        /\ dbOffset \in Nat /\ dbOffset <= consumerOffset
    BY Counts, Zenon DEF BusInv, Inv, TypeOK, CursorNotAhead
  <2>2. id \notin Answered
    BY DEF Answered
  <2>3. id > consumerOffset /\ id > dbOffset
    <3>1. 1 .. consumerOffset \subseteq Answered
      BY Zenon DEF BusInv, Lossless
    <3> QED
      BY <2>1, <2>2, <3>1
  <2>4. id > confirmed \/ id \in RowIds
    <3>1. 1 .. confirmed \subseteq Durable
      BY Zenon DEF BusInv, Lossless, OnDisk
    <3> QED
      BY <2>1, <2>2, <3>1 DEF Durable
  <2> QED
    BY <2>3, <2>4 DEF Safe
<1> QED
  BY <1>1, BusInvariant, PTL

\* A committed Ack floors delivery across crashes and redeliveries, for any
\* number of replicas, until two Acks overlap.
THEOREM CommittedAckIsFloor == BusSpec => []SettledFloorsDelivery
<1>1. BusInit => Floor
  BY DEF BusInit, Init, Floor, Acking
<1>2. BusInv /\ Floor => SettledFloorsDelivery
  <2> SUFFICES ASSUME BusInv, Floor, ~overlapped, NEW id \in OnOffer
               PROVE  id > settled
    BY Zenon DEF SettledFloorsDelivery
  <2>1. /\ consumerOffset \in Nat /\ dbOffset \in Nat /\ dbOffset <= consumerOffset
        /\ settled \in Nat /\ settled <= dbOffset /\ q \in Seq(Item)
    BY Zenon DEF BusInv, Inv, TypeOK, CursorNotAhead, BusTypes, Floor
  <2>2. PICK i \in Visible : id = q[i].id
    BY DEF OnOffer
  <2>3. i \in DOMAIN q /\ id > consumerOffset
    BY <2>2 DEF Visible
  <2>4. q[i] \in Item
    BY <2>1, <2>3
  <2>5. id \in Nat
    BY <2>2, <2>4 DEF Item
  <2> QED
    BY <2>1, <2>3, <2>5
<1> QED
  BY <1>1, <1>2, FloorNext, BusInvariant, PTL DEF BusSpec

\* The bus implements the abstract stream: updates are handed out beyond the
\* cursor only, and the cursor passes an update only when it was handed out or
\* given up.
THEOREM BusImplementsStream == BusSpec => ImplementsStream
  BY StreamInit, StreamStep, BusInvariant, PTL DEF BusSpec, ImplementsStream, Stream!Spec
================================================================================
