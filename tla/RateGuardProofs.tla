--------------------------- MODULE RateGuardProofs ---------------------------
(***************************************************************************)
(* Proofs about RateGuard, for both planes and every number of chats and   *)
(* requests, and for every rate, capacity and wait.                        *)
(***************************************************************************)
EXTENDS RateGuard, TLAPS

-----------------------------------------------------------------------------
(* The inductive invariant *)

Bucket == [tokens : Int, age : Int, pause : Nat \cup {Nil}]

\* A request; what it has slept, and will sleep, is in some set V.
Request(V) ==
    [pc : {"idle", "check", "try", "sleep", "refused", "sent", "save", "exit"},
     kind : Kinds \cup {Nil}, chat : Scopes, paid : BOOLEAN, raw : BOOLEAN,
     waited : V, sleep : V, wait : Nat]

\* The types of the variables that the properties depend on.
Types ==
    /\ plane \in Planes
    /\ bucket \in [Buckets -> Bucket] /\ egress \in Nat
    /\ peer \in [Chats -> [offences : 0 .. MaxOffences, pause : Nat]]
    /\ ledger \in [Scopes -> Nat] /\ poll \in Nat /\ told \in [Scopes -> Nat]
    /\ \E V : 0 \in V /\ req \in [Reqs -> Request(V)]

\* A request that closes the lane when it leaves.
Holds(q) == q.paid /\ ~q.raw /\ q.pc # "idle"

Held == paidLane => \E r \in Reqs : Holds(req[r])

\* A wait that was reported and not forgotten is still a pause: of the bucket
\* of its chat, or of the whole egress.
Honoured ==
    /\ \A c \in Chats : told[c] > 0 /\ c \notin forgotten =>
            bucket[c].pause # Nil /\ bucket[c].pause >= told[c]
    /\ told[Nil] > 0 /\ Nil \notin forgotten => egress >= told[Nil]

Inv == Types /\ Held /\ Honoured /\ PausesPersist

-----------------------------------------------------------------------------
(* Buckets *)

\* What a refill does to a bucket: a pause that has not ended stays.
LEMMA RefillKeeps ==
    ASSUME Configured, NEW b \in Buckets, NEW k \in Bucket
    PROVE  /\ Refill(b, k) \in Bucket
           /\ k.pause # Nil /\ k.pause > 0 => Refill(b, k).pause = k.pause
<1> DEFINE had == IF k.pause = 0 THEN Max2(k.tokens, One) ELSE k.tokens
<1>1. k.tokens \in Int /\ k.age \in Int /\ k.pause \in Nat \cup {Nil}
  BY DEF Bucket
<1>2. Full(b) \in Int /\ One \in Int /\ Rate[b] \in Int
  BY DEF Configured, Full
<1>3. had \in Int
  BY <1>1, <1>2 DEF Max2
<1> HIDE DEF had
<1>4. k.age * Rate[b] \in Int
  BY <1>1, <1>2
<1>5. Min2(Full(b), had + k.age * Rate[b]) \in Int
  BY <1>2, <1>3, <1>4 DEF Min2
<1>6. Refill(b, k) = [tokens |-> Min2(Full(b), had + k.age * Rate[b]), age |-> 0,
                      pause |-> IF k.pause = 0 THEN Nil ELSE k.pause]
  BY DEF Refill, had
<1>7. (IF k.pause = 0 THEN Nil ELSE k.pause) \in Nat \cup {Nil}
  BY <1>1
<1>8. Refill(b, k) \in Bucket
  BY <1>5, <1>6, <1>7 DEF Bucket
<1>9. Refill(b, k).pause = IF k.pause = 0 THEN Nil ELSE k.pause
  BY <1>6
<1> QED
  BY <1>1, <1>8, <1>9

\* A new pause is at least as long as the wait and as the old one.
LEMMA PauseKeeps ==
    ASSUME Configured, NEW k \in Bucket, NEW w \in Nat
    PROVE  /\ Pause(k, w) \in Bucket
           /\ Pause(k, w).pause # Nil /\ Pause(k, w).pause >= w
           /\ k.pause # Nil => Pause(k, w).pause >= k.pause
<1> DEFINE p == IF k.pause = Nil THEN w ELSE Max2(k.pause, w)
<1>1. k.tokens \in Int /\ k.age \in Int /\ k.pause \in Nat \cup {Nil} /\ Nil \notin Nat
  BY DEF Bucket, Configured
<1>2. p \in Nat /\ p >= w /\ (k.pause # Nil => p >= k.pause)
  BY <1>1 DEF Max2
<1> HIDE DEF p
<1>3. Pause(k, w) \in Bucket /\ Pause(k, w).pause = p
  <2>1. Pause(k, w) = [k EXCEPT !.tokens = 0, !.pause = p]
    BY DEF Pause, p
  <2>2. [k EXCEPT !.tokens = 0] \in Bucket
    BY <1>1 DEF Bucket
  <2>3. ASSUME NEW e \in Bucket
        PROVE  [e EXCEPT !.pause = p] \in Bucket /\ [e EXCEPT !.pause = p].pause = p
    BY <1>2 DEF Bucket
  <2>4. Pause(k, w) = [[k EXCEPT !.tokens = 0] EXCEPT !.pause = p]
    BY <2>1
  <2> QED
    BY <2>2, <2>3, <2>4, Zenon
<1> QED
  BY <1>1, <1>2, <1>3

\* What the guard learns of a wait for a scope: its pause is at least as long
\* as every wait that is not marked as forgotten.
LEMMA LearnStep ==
    ASSUME Configured, Types, Honoured, NEW c \in Scopes, NEW w \in Nat, NEW pause \in Nat,
           PauseScope(c, pause), Learn(c, w, pause)
    PROVE  /\ bucket' \in [Buckets -> Bucket] /\ egress' \in Nat
           /\ told' \in [Scopes -> Nat] /\ Honoured'
<1> DEFINE b == Place(c)
           k == Pause(bucket[b], pause)
<1>1. /\ b \in Buckets /\ bucket \in [Buckets -> Bucket] /\ egress \in Nat /\ told \in [Scopes -> Nat]
      /\ Chats \subseteq Buckets /\ Nil \in Scopes /\ Scopes = Chats \cup {Nil} /\ Nil \notin Chats
      /\ Nil \notin Nat
  BY DEF Types, Place, Scopes, Buckets, Configured
<1>2. /\ k \in Bucket /\ k.pause # Nil /\ k.pause >= pause
      /\ bucket[b].pause # Nil => k.pause >= bucket[b].pause
  BY <1>1, PauseKeeps
<1>3. /\ bucket' = [bucket EXCEPT ![b] = k]
      /\ egress' = IF c = Nil THEN Max2(egress, pause) ELSE egress
      /\ told' = [told EXCEPT ![c] = Max2(@, w)]
      /\ forgotten' = IF w < told[c] THEN forgotten
                      ELSE IF pause < w THEN forgotten \cup {c} ELSE forgotten \ {c}
  BY DEF PauseScope, Learn
<1>4. c # Nil => b = c
  BY DEF Place
<1>5. \A d \in Chats : bucket[d].pause \in Nat \cup {Nil}
  BY <1>1 DEF Bucket
<1>6. k.pause \in Nat
  BY <1>2 DEF Bucket
<1> HIDE DEF k, b
<1>7. bucket' \in [Buckets -> Bucket] /\ egress' \in Nat /\ told' \in [Scopes -> Nat]
  BY <1>1, <1>2, <1>3 DEF Max2
<1>8. ASSUME NEW d \in Chats, told'[d] > 0, d \notin forgotten'
      PROVE  bucket'[d].pause # Nil /\ bucket'[d].pause >= told'[d]
  <2>1. told[d] > 0 /\ d \notin forgotten => bucket[d].pause # Nil /\ bucket[d].pause >= told[d]
    BY DEF Honoured
  <2>2. CASE d # c
    <3>1. told'[d] = told[d] /\ d \notin forgotten
      BY <1>1, <1>3, <1>8, <2>2
    <3>2. CASE d = b
      <4>1. bucket'[d] = k
        BY <1>1, <1>3, <3>2
      <4> QED
        BY <1>1, <1>2, <1>5, <1>6, <1>8, <2>1, <3>1, <3>2, <4>1
    <3>3. CASE d # b
      <4>1. bucket'[d] = bucket[d]
        BY <1>1, <1>3, <3>3
      <4> QED
        BY <1>8, <2>1, <3>1, <4>1
    <3> QED
      BY <3>2, <3>3
  <2>3. CASE d = c
    <3>1. bucket'[d] = k /\ d = b
      BY <1>1, <1>3, <1>4, <2>3
    <3>2. told'[d] = Max2(told[d], w)
      BY <1>1, <1>3, <2>3
    <3>3. CASE w < told[d]
      <4>1. told'[d] = told[d] /\ d \notin forgotten
        BY <1>1, <1>3, <1>8, <2>3, <3>2, <3>3 DEF Max2
      <4> QED
        BY <1>1, <1>2, <1>5, <1>6, <1>8, <2>1, <3>1, <4>1
    <3>4. CASE ~(w < told[d])
      <4>1. told'[d] = w /\ pause >= w
        BY <1>1, <1>3, <1>8, <2>3, <3>2, <3>4 DEF Max2
      <4> QED
        BY <1>1, <1>2, <1>6, <3>1, <4>1
    <3> QED
      BY <3>3, <3>4
  <2> QED
    BY <2>2, <2>3
<1>9. ASSUME told'[Nil] > 0, Nil \notin forgotten' PROVE egress' >= told'[Nil]
  <2>1. told[Nil] > 0 /\ Nil \notin forgotten => egress >= told[Nil]
    BY DEF Honoured
  <2>2. CASE c # Nil
    BY <1>1, <1>3, <1>9, <2>1, <2>2
  <2>3. CASE c = Nil
    <3>1. told'[Nil] = Max2(told[Nil], w) /\ egress' = Max2(egress, pause)
      BY <1>1, <1>3, <2>3
    <3>2. CASE w < told[Nil]
      <4>1. Nil \notin forgotten
        BY <1>3, <1>9, <2>3, <3>2
      <4> QED
        BY <1>1, <2>1, <3>1, <3>2, <4>1 DEF Max2
    <3>3. CASE ~(w < told[Nil])
      <4>1. pause >= w
        BY <1>1, <1>3, <1>9, <2>3, <3>3
      <4> QED
        BY <1>1, <3>1, <3>3, <4>1 DEF Max2
    <3> QED
      BY <3>2, <3>3
  <2> QED
    BY <2>2, <2>3
<1> QED
  BY <1>7, <1>8, <1>9 DEF Honoured

-----------------------------------------------------------------------------
(* Every step keeps the invariant *)

\* What the invariant says of the guard.
Pauses ==
    /\ bucket \in [Buckets -> Bucket] /\ egress \in Nat /\ told \in [Scopes -> Nat]
    /\ peer \in [Chats -> [offences : 0 .. MaxOffences, pause : Nat]]
    /\ Honoured

\* A step that touches no running pause of a bucket keeps it.
LEMMA TouchStep ==
    ASSUME Configured, Pauses, bucket' \in [Buckets -> Bucket],
           \A b \in Buckets : bucket[b].pause # Nil /\ bucket[b].pause > 0 =>
               bucket'[b].pause = bucket[b].pause,
           UNCHANGED <<egress, told, forgotten>>,
           peer' \in [Chats -> [offences : 0 .. MaxOffences, pause : Nat]]
    PROVE  Pauses'
<1>1. ASSUME NEW c \in Chats, told[c] > 0, c \notin forgotten
      PROVE  bucket'[c].pause # Nil /\ bucket'[c].pause >= told[c]
  <2>1. /\ c \in Buckets /\ bucket[c].pause # Nil /\ bucket[c].pause >= told[c]
        /\ bucket[c].pause \in Nat /\ told[c] \in Nat
    BY <1>1 DEF Pauses, Honoured, Buckets, Bucket, Scopes
  <2>2. bucket[c].pause > 0
    BY <1>1, <2>1
  <2> QED
    BY <2>1, <2>2
<1>2. Honoured'
  BY <1>1 DEF Pauses, Honoured
<1> QED
  BY <1>2 DEF Pauses

\* Refilling buckets touches no running pause ...
LEMMA RefilledKeeps ==
    ASSUME Configured, bucket \in [Buckets -> Bucket], NEW S
    PROVE  /\ Refilled(S) \in [Buckets -> Bucket]
           /\ \A b \in Buckets : bucket[b].pause # Nil /\ bucket[b].pause > 0 =>
                  Refilled(S)[b].pause = bucket[b].pause
<1>1. ASSUME NEW b \in Buckets
      PROVE  /\ bucket[b] \in Bucket /\ Refill(b, bucket[b]) \in Bucket
             /\ bucket[b].pause # Nil /\ bucket[b].pause > 0 =>
                    Refill(b, bucket[b]).pause = bucket[b].pause
  BY RefillKeeps
<1> QED
  BY <1>1 DEF Refilled

\* ... and neither does taking a token from the refilled ones.
LEMMA TakenKeeps ==
    ASSUME Configured, Pauses, NEW S,
           bucket' = [b \in Buckets |-> IF b \in S
                        THEN [Refill(b, bucket[b]) EXCEPT !.tokens = @ - One] ELSE bucket[b]]
    PROVE  /\ bucket' \in [Buckets -> Bucket]
           /\ \A b \in Buckets : bucket[b].pause # Nil /\ bucket[b].pause > 0 =>
                  bucket'[b].pause = bucket[b].pause
<1>1. ASSUME NEW b \in Buckets
      PROVE  /\ bucket[b] \in Bucket /\ Refill(b, bucket[b]) \in Bucket
             /\ bucket[b].pause # Nil /\ bucket[b].pause > 0 =>
                    Refill(b, bucket[b]).pause = bucket[b].pause
  BY RefillKeeps DEF Pauses
<1>2. ASSUME NEW k \in Bucket
      PROVE  [k EXCEPT !.tokens = @ - One] \in Bucket /\ [k EXCEPT !.tokens = @ - One].pause = k.pause
  <2>1. k.tokens - One \in Int
    BY DEF Bucket, Configured
  <2>2. \A x \in Int : [k EXCEPT !.tokens = x] \in Bucket /\ [k EXCEPT !.tokens = x].pause = k.pause
    BY DEF Bucket
  <2> QED
    BY <2>1, <2>2
<1> DEFINE taken(b) == [Refill(b, bucket[b]) EXCEPT !.tokens = @ - One]
<1>3. ASSUME NEW b \in Buckets
      PROVE  taken(b) \in Bucket /\ taken(b).pause = Refill(b, bucket[b]).pause
  BY <1>1, <1>2
<1>4. bucket' = [b \in Buckets |-> IF b \in S THEN taken(b) ELSE bucket[b]]
  OBVIOUS
<1> HIDE DEF taken
<1> QED
  BY <1>1, <1>3, <1>4

\* The adaptive wait is a number.
LEMMA AdaptiveNumber ==
    ASSUME Configured, NEW w \in Nat, NEW n \in 1 .. MaxOffences
    PROVE  Adaptive(w, n) \in Nat
<1>1. MaxAdaptive \in Nat /\ MaxOffences \in Nat
  BY DEF Configured
<1>2. n - 1 \in 0 .. MaxOffences
  BY <1>1
<1> DEFINE p == FloodBackoffNum ^ (n - 1)
           q == FloodBackoffDen ^ (n - 1)
<1>3. p \in Int /\ q \in Nat \ {0}
  BY <1>2, Zenon DEF Configured
<1>4. Adaptive(w, n) = Min2(Max2((w * p + q - 1) \div q, 0), MaxAdaptive)
  BY Zenon DEF Adaptive, Ticks
<1> HIDE DEF p, q
<1>5. w * p \in Int
  BY <1>3
<1> DEFINE a == w * p
           d == (a + q - 1) \div q
<1> HIDE DEF a
<1>6. d \in Int
  BY <1>3, <1>5 DEF a
<1> HIDE DEF d
<1>7. Adaptive(w, n) = Min2(Max2(d, 0), MaxAdaptive)
  BY <1>4 DEF a, d
<1> QED
  BY <1>1, <1>6, <1>7 DEF Min2, Max2

\* The report of a flood wait is a pause and what is learned of it, or neither.
LEMMA FloodIs ==
    ASSUME Configured, Pauses, NEW c \in Scopes, NEW type, NEW w \in Nat,
           ReportFloodWait(c, type, w)
    PROVE  /\ peer' \in [Chats -> [offences : 0 .. MaxOffences, pause : Nat]]
           /\ \/ UNCHANGED <<bucket, egress, history>>
              \/ \E pause \in Nat : PauseScope(c, pause) /\ Learn(c, w, pause)
<1> DEFINE n == Min2(peer[c].offences + 1, MaxOffences)
           pause == IF c = Nil THEN w
                    ELSE IF type = "peer_flood" THEN PeerFloodCooldown ELSE Adaptive(w, n)
<1>1. c # Nil => c \in Chats /\ n \in 1 .. MaxOffences
  <2>1. ASSUME c # Nil PROVE c \in Chats /\ peer[c].offences \in 0 .. MaxOffences /\ MaxOffences \in Nat \ {0}
    BY <2>1 DEF Pauses, Scopes, Configured
  <2> QED
    BY <2>1 DEF Min2
<1>2. pause \in Nat
  <2>1. PeerFloodCooldown \in Nat
    BY DEF Configured
  <2>2. c # Nil => Adaptive(w, n) \in Nat
    BY <1>1, AdaptiveNumber
  <2> HIDE DEF n
  <2> QED
    BY <2>1, <2>2
<1>3. /\ peer' = IF c = Nil \/ Ignored(c, type) THEN peer
                 ELSE [peer EXCEPT ![c] = [offences |-> n, pause |-> pause]]
      /\ \/ UNCHANGED <<bucket, egress, history>>
         \/ PauseScope(c, pause) /\ Learn(c, w, pause)
  BY Zenon DEF ReportFloodWait
<1> HIDE DEF n, pause
<1>4. peer' \in [Chats -> [offences : 0 .. MaxOffences, pause : Nat]]
  <2>1. c # Nil => n \in 0 .. MaxOffences
    BY <1>1 DEF Configured
  <2> QED
    BY <1>1, <1>2, <1>3, <2>1 DEF Pauses
<1> QED
  BY <1>2, <1>3, <1>4, Zenon

\* The report of a flood wait.
LEMMA FloodStep ==
    ASSUME Configured, Types, Pauses, NEW c \in Scopes, NEW type, NEW w \in Nat,
           ReportFloodWait(c, type, w)
    PROVE  Pauses'
<1>1. peer' \in [Chats -> [offences : 0 .. MaxOffences, pause : Nat]]
  BY FloodIs
<1>2. CASE UNCHANGED <<bucket, egress, history>>
  BY <1>1, <1>2 DEF Pauses, Honoured, history
<1>3. ASSUME NEW pause \in Nat, PauseScope(c, pause), Learn(c, w, pause)
      PROVE  Pauses'
  BY <1>1, <1>3, LearnStep DEF Pauses
<1> QED
  BY <1>2, <1>3, FloodIs

\* The clock: pauses and waits grow shorter together.
LEMMA TickPauses ==
    ASSUME Configured, Pauses, Tick
    PROVE  Pauses'
<1>1. /\ Nil \notin Nat /\ Chats \subseteq Buckets /\ Chats \subseteq Pausable
      /\ Chats \subseteq Scopes /\ Nil \in Scopes
  BY DEF Configured, Buckets, Pausable, Scopes
<1>2. \A n \in Nat : Less(n) \in Nat /\ Less(n) = Max2(n - 1, 0) /\ Less(Nil) = Nil
  BY <1>1 DEF Less, Max2
<1>3. bucket' \in [Buckets -> Bucket] /\ \A b \in Pausable : bucket'[b].pause = Less(bucket[b].pause)
  <2> DEFINE aged(b) == [bucket[b] EXCEPT !.age = Min2(@ + 1, OldAge(b)), !.pause = Less(@)]
             filled(b) == [bucket[b] EXCEPT !.tokens = Min2(Full(b), @ + Rate[b])]
  <2>1. bucket' = [b \in Buckets |-> IF b \in Pausable THEN aged(b) ELSE filled(b)]
    BY Zenon DEF Tick
  <2>2. ASSUME NEW b \in Buckets
        PROVE  aged(b) \in Bucket /\ aged(b).pause = Less(bucket[b].pause) /\ filled(b) \in Bucket
    <3>1. /\ bucket[b] \in Bucket /\ bucket[b].tokens \in Int /\ bucket[b].age \in Int
          /\ bucket[b].pause \in Nat \cup {Nil}
      BY DEF Pauses, Bucket
    <3>2. Full(b) \in Int /\ Rate[b] \in Nat \ {0}
      BY DEF Configured, Full
    <3>3. OldAge(b) \in Int
      BY <3>2 DEF OldAge
    <3> DEFINE x == Min2(bucket[b].age + 1, OldAge(b))
               y == Less(bucket[b].pause)
               z == Min2(Full(b), bucket[b].tokens + Rate[b])
    <3>4. x \in Int /\ y \in Nat \cup {Nil} /\ z \in Int
      BY <1>2, <3>1, <3>2, <3>3 DEF Min2
    <3>5. /\ aged(b) = [[bucket[b] EXCEPT !.age = x] EXCEPT !.pause = y]
          /\ filled(b) = [bucket[b] EXCEPT !.tokens = z]
      OBVIOUS
    <3> HIDE DEF x, y, z, aged, filled
    <3>6. filled(b) \in Bucket
      BY <3>1, <3>4, <3>5 DEF Bucket
    <3>7. [bucket[b] EXCEPT !.age = x] \in Bucket
      BY <3>1, <3>4 DEF Bucket
    <3>8. ASSUME NEW e \in Bucket
          PROVE  [e EXCEPT !.pause = y] \in Bucket /\ [e EXCEPT !.pause = y].pause = y
      BY <3>4 DEF Bucket
    <3> QED
      BY <3>5, <3>6, <3>7, <3>8, Zenon DEF y
  <2> HIDE DEF aged, filled
  <2>3. Pausable \subseteq Buckets
    BY DEF Pausable, Buckets
  <2> QED
    BY <2>1, <2>2, <2>3
<1>4. /\ egress' = Less(egress) /\ told' = [c \in Scopes |-> Less(told[c])]
      /\ forgotten' = {c \in forgotten : told[c] > 1}
      /\ peer' = [c \in Chats |-> [peer[c] EXCEPT !.pause = Less(@)]]
  BY Zenon DEF Tick
<1>5. egress' \in Nat /\ told' \in [Scopes -> Nat]
  BY <1>2, <1>4 DEF Pauses
<1>6. peer' \in [Chats -> [offences : 0 .. MaxOffences, pause : Nat]]
  <2>1. ASSUME NEW c \in Chats
        PROVE  [peer[c] EXCEPT !.pause = Less(@)] \in [offences : 0 .. MaxOffences, pause : Nat]
    <3>1. peer[c] \in [offences : 0 .. MaxOffences, pause : Nat] /\ Less(peer[c].pause) \in Nat
      BY <1>2 DEF Pauses
    <3> QED
      BY <3>1
  <2> QED
    BY <1>4, <2>1
<1>7. ASSUME NEW c \in Scopes, told'[c] > 0, c \notin forgotten'
      PROVE  told[c] \in Nat /\ told[c] > 1 /\ told'[c] = told[c] - 1 /\ c \notin forgotten
  <2>1. told[c] \in Nat /\ told'[c] = Max2(told[c] - 1, 0)
    BY <1>2, <1>4 DEF Pauses
  <2>2. told[c] > 1 /\ told'[c] = told[c] - 1
    BY <1>7, <2>1 DEF Max2
  <2> QED
    BY <1>4, <1>7, <2>1, <2>2
<1>8. ASSUME NEW c \in Chats, told'[c] > 0, c \notin forgotten'
      PROVE  bucket'[c].pause # Nil /\ bucket'[c].pause >= told'[c]
  <2>1. told[c] \in Nat /\ told[c] > 1 /\ told'[c] = told[c] - 1 /\ c \notin forgotten
    BY <1>1, <1>7, <1>8
  <2>2. bucket[c].pause \in Nat /\ bucket[c].pause >= told[c]
    BY <1>1, <2>1 DEF Pauses, Honoured, Bucket
  <2>3. bucket'[c].pause = Max2(bucket[c].pause - 1, 0)
    BY <1>1, <1>2, <1>3, <2>2
  <2> QED
    BY <1>1, <2>1, <2>2, <2>3 DEF Max2
<1>9. ASSUME told'[Nil] > 0, Nil \notin forgotten' PROVE egress' >= told'[Nil]
  <2>1. told[Nil] \in Nat /\ told[Nil] > 1 /\ told'[Nil] = told[Nil] - 1 /\ Nil \notin forgotten
    BY <1>1, <1>7, <1>9
  <2>2. egress \in Nat /\ egress >= told[Nil] /\ egress' = Max2(egress - 1, 0)
    BY <1>2, <1>4, <2>1 DEF Pauses, Honoured
  <2> QED
    BY <2>1, <2>2 DEF Max2
<1> QED
  BY <1>3, <1>5, <1>6, <1>8, <1>9 DEF Pauses, Honoured

\* A restart: the pauses come from the ledger, and a longer wait is forgotten.
LEMMA RestartPauses ==
    ASSUME Configured, Types, Pauses, Restart
    PROVE  Pauses'
<1> DEFINE left(c) == IF plane = "bot" THEN ledger[c] ELSE 0
           scope(b) == IF b = "global" THEN Nil ELSE b
<1>1. /\ Nil \notin Nat /\ Chats \subseteq Buckets /\ Chats \subseteq Pausable
      /\ Scopes = Chats \cup {Nil} /\ "global" \notin Chats /\ Nil \notin Chats
  BY DEF Configured, Buckets, Pausable, Scopes
<1>2. \A c \in Scopes : left(c) \in Nat
  BY DEF Types
<1>3. \A b \in Pausable : scope(b) \in Scopes
  BY DEF Pausable, Scopes
<1>4. \A c \in Chats : scope(c) = c
  BY <1>1
<1>5. /\ bucket' = [b \in Buckets |-> IF b \in Pausable /\ left(scope(b)) > 0
                        THEN Pause(NewBucket(b), left(scope(b))) ELSE NewBucket(b)]
      /\ egress' = left(Nil)
      /\ forgotten' = {c \in Scopes : told[c] > left(c)}
      /\ peer' = [c \in Chats |-> NoPeer] /\ told' = told
  BY DEF Restart, RestoreBackoffs
<1> HIDE DEF left, scope
<1>6. ASSUME NEW b \in Buckets PROVE NewBucket(b) \in Bucket
  BY DEF NewBucket, Bucket, Full, Configured
<1>7. bucket' \in [Buckets -> Bucket]
  BY <1>2, <1>3, <1>5, <1>6, PauseKeeps
<1>8. ASSUME NEW c \in Chats, told[c] > 0, c \notin forgotten'
      PROVE  bucket'[c].pause # Nil /\ bucket'[c].pause >= told[c]
  <2>1. c \in Scopes /\ c \in Pausable /\ c \in Buckets /\ told[c] \in Nat /\ left(c) \in Nat
    BY <1>1, <1>2 DEF Pauses
  <2>2. left(c) >= told[c] /\ left(c) > 0
    BY <1>5, <1>8, <2>1
  <2>3. bucket'[c] = Pause(NewBucket(c), left(c))
    BY <1>4, <1>5, <2>1, <2>2
  <2>4. /\ bucket'[c].pause # Nil /\ bucket'[c].pause >= left(c)
        /\ bucket'[c] \in Bucket
    <3>1. NewBucket(c) \in Bucket
      BY <1>6, <2>1
    <3>2. /\ Pause(NewBucket(c), left(c)) \in Bucket
          /\ Pause(NewBucket(c), left(c)).pause # Nil
          /\ Pause(NewBucket(c), left(c)).pause >= left(c)
      BY <2>1, <3>1, PauseKeeps
    <3> QED
      BY <2>3, <3>2, Zenon
  <2>5. bucket'[c].pause \in Nat
    BY <2>4 DEF Bucket
  <2> QED
    BY <2>1, <2>2, <2>4, <2>5
<1>9. ASSUME told[Nil] > 0, Nil \notin forgotten' PROVE egress' >= told[Nil]
  <2>1. Nil \in Scopes /\ told[Nil] \in Nat /\ left(Nil) \in Nat
    BY <1>1, <1>2 DEF Pauses
  <2> QED
    BY <1>5, <1>9, <2>1
<1>10. egress' \in Nat /\ told' \in [Scopes -> Nat]
  BY <1>1, <1>2, <1>5 DEF Pauses
<1>11. peer' \in [Chats -> [offences : 0 .. MaxOffences, pause : Nat]]
  BY <1>5 DEF NoPeer, Configured
<1> QED
  BY <1>5, <1>7, <1>8, <1>9, <1>10, <1>11, Zenon DEF Pauses, Honoured

\* The step of one request.
LEMMA RequestPauses ==
    ASSUME Configured, Types, Pauses, NEW r \in Reqs,
           \/ \E call \in Calls[plane] : Arrive(r, call)
           \/ Proceed(r) \/ ClientGone(r)
    PROVE  Pauses'
<1>1. CASE UNCHANGED <<bucket, egress, peer, told, forgotten>>
  BY <1>1 DEF Pauses, Honoured
<1>2. CASE TryAcquire(r)
  <2>1. PICK S : bucket' = [b \in Buckets |-> IF b \in S
                   THEN [Refill(b, bucket[b]) EXCEPT !.tokens = @ - One] ELSE bucket[b]]
    BY <1>2, Zenon DEF TryAcquire
  <2>2. UNCHANGED <<egress, told, forgotten, peer>>
    BY <1>2 DEF TryAcquire
  <2> QED
    BY <2>1, <2>2, TakenKeeps, TouchStep, Zenon DEF Pauses
<1>3. CASE Refused(r) \/ AskWaitTime(r)
  <2>1. PICK S : bucket' = Refilled(S)
    BY <1>3, Zenon DEF Refused, AskWaitTime
  <2>2. UNCHANGED <<egress, told, forgotten, peer>>
    BY <1>3 DEF Refused, AskWaitTime, history
  <2> QED
    BY <2>1, <2>2, RefilledKeeps, TouchStep DEF Pauses
<1>4. ASSUME NEW ok \in BOOLEAN, Completed(r, ok) PROVE Pauses'
  <2>1. UNCHANGED <<bucket, egress, told, forgotten>>
    BY <1>4 DEF Completed, history
  <2>2. peer' \in [Chats -> [offences : 0 .. MaxOffences, pause : Nat]]
    BY <1>4 DEF Completed, ClearPeerBackoff, NoPeer, Pauses, Configured
  <2> QED
    BY <2>1, <2>2 DEF Pauses, Honoured
<1>5. ASSUME NEW type \in FloodTypes, NEW w \in Waits[req[r].chat], Flooded(r, type, w)
      PROVE  Pauses'
  <2>1. req[r].chat \in Scopes
    BY DEF Types, Request
  <2>2. w \in Nat
    BY <2>1 DEF Configured
  <2>3. CASE ReportFloodWait(req[r].chat, type, w)
    BY <2>1, <2>2, <2>3, FloodStep
  <2>4. CASE Report429(req[r].chat, w)
    BY <2>1, <2>2, <2>4, LearnStep DEF Report429, Pauses
  <2> QED
    BY <1>5, <2>3, <2>4 DEF Flooded
<1>6. ASSUME NEW call \in Calls[plane], Arrive(r, call) PROVE Pauses'
  BY <1>1, <1>6 DEF Arrive, history
<1>7. CASE CheckOptIn(r) \/ RecordBackoff(r) \/ ExitPaidLane(r) \/ ClientGone(r)
  BY <1>1, <1>7 DEF CheckOptIn, RecordBackoff, ExitPaidLane, ClientGone, guard, history
<1> QED
  BY <1>2, <1>3, <1>4, <1>5, <1>6, <1>7 DEF Proceed

\* Every step keeps what the invariant says of the guard.
LEMMA PausesStep ==
    ASSUME Configured, Types, Pauses, [Next]_vars
    PROVE  Pauses'
<1>1. CASE UNCHANGED <<bucket, egress, peer, told, forgotten>>
  BY <1>1 DEF Pauses, Honoured
<1>2. ASSUME NEW S, bucket' = Refilled(S), UNCHANGED <<egress, peer, history>> PROVE Pauses'
  <2>1. UNCHANGED <<egress, told, forgotten, peer>>
    BY <1>2 DEF history
  <2> QED
    BY <1>2, <2>1, RefilledKeeps, TouchStep DEF Pauses
<1>3. ASSUME NEW c \in Scopes, ChatSendState(c) PROVE Pauses'
  BY <1>2, <1>3 DEF ChatSendState
<1>4. CASE Snapshot
  BY <1>2, <1>4 DEF Snapshot
<1>5. ASSUME NEW w \in Waits[Nil], PollFlooded(w) PROVE Pauses'
  <2>1. Nil \in Scopes /\ w \in Nat
    BY DEF Configured, Scopes
  <2> QED
    BY <1>5, <2>1, LearnStep DEF PollFlooded, Report429, Pauses
<1>6. CASE PollSave \/ \E v \in BOOLEAN : SetPaid(v)
  BY <1>1, <1>6 DEF PollSave, SetPaid, guard, history
<1>7. CASE UNCHANGED vars
  BY <1>1, <1>7 DEF vars, guard, history
<1> QED
  BY <1>3, <1>4, <1>5, <1>6, <1>7, RequestPauses, TickPauses, RestartPauses DEF Next

-----------------------------------------------------------------------------
(* Requests *)

\* A request that leaves, or that starts over.
LEMMA LeftIs ==
    ASSUME Configured, NEW V, 0 \in V, NEW q \in Request(V)
    PROVE  /\ Idle \in Request(V) /\ Left(q) \in Request(V)
           /\ ~q.raw => Left(q).pc = "exit" /\ Left(q).paid = q.paid /\ ~Left(q).raw
           /\ Left(q).pc \in {"idle", "exit"}
<1>1. Idle \in Request(V) /\ Idle.raw = FALSE /\ Idle.pc = "idle"
  BY DEF Idle, Request, Scopes
<1>2. q.raw \in BOOLEAN /\ q.paid \in BOOLEAN
  BY DEF Request
<1> DEFINE e == [Idle EXCEPT !.pc = "exit"]
           f == [e EXCEPT !.paid = q.paid]
<1>3. e \in Request(V) /\ e.pc = "exit" /\ e.raw = FALSE
  BY <1>1 DEF Request
<1> HIDE DEF e
<1>4. f \in Request(V) /\ f.pc = "exit" /\ f.raw = FALSE /\ f.paid = q.paid
  BY <1>2, <1>3 DEF Request
<1>5. Left(q) = IF q.raw THEN Idle ELSE f
  BY DEF Left, e
<1> HIDE DEF f
<1> QED
  BY <1>1, <1>2, <1>4, <1>5

\* A request that arrives.
LEMMA ArrivedIs ==
    ASSUME Configured, Types, NEW V, 0 \in V, NEW call \in Calls[plane]
    PROVE  /\ Arrived(call) \in Request(V)
           /\ Arrived(call).paid = call.paid /\ Arrived(call).raw = call.raw
           /\ Arrived(call).pc \in {"check", "try"}
<1>1. /\ call.kind \in Kinds /\ call.chat \in Scopes /\ call.paid \in BOOLEAN /\ call.raw \in BOOLEAN
  <2> DEFINE K == IF plane = "mt" THEN Kinds ELSE Kinds \ {"silent"}
             R == IF plane = "mt" THEN {FALSE} ELSE BOOLEAN
  <2>1. call \in [kind : K, chat : Scopes, paid : BOOLEAN, raw : R]
    BY Zenon DEF Configured, Types
  <2>2. K \subseteq Kinds /\ R \subseteq BOOLEAN
    BY Zenon
  <2> HIDE DEF K, R
  <2> QED
    BY <2>1, <2>2
<1>2. Idle \in Request(V)
  BY DEF Idle, Request, Scopes
<1> DEFINE p == IF call.paid /\ ~call.raw THEN "check" ELSE "try"
           e1 == [Idle EXCEPT !.pc = p]
           e2 == [e1 EXCEPT !.kind = call.kind]
           e3 == [e2 EXCEPT !.chat = call.chat]
           e4 == [e3 EXCEPT !.paid = call.paid]
           e5 == [e4 EXCEPT !.raw = call.raw]
<1>3. Arrived(call) = e5
  BY DEF Arrived
<1>4. p \in {"check", "try"}
  OBVIOUS
<1> HIDE DEF p
<1>5. e1 \in Request(V) /\ e1.pc = p
  BY <1>2, <1>4 DEF Request
<1> HIDE DEF e1
<1>6. e2 \in Request(V) /\ e2.pc = p
  BY <1>1, <1>5 DEF Request
<1> HIDE DEF e2
<1>7. e3 \in Request(V) /\ e3.pc = p
  BY <1>1, <1>6 DEF Request
<1> HIDE DEF e3
<1>8. e4 \in Request(V) /\ e4.pc = p /\ e4.paid = call.paid
  BY <1>1, <1>7 DEF Request
<1> HIDE DEF e4
<1>9. e5 \in Request(V) /\ e5.pc = p /\ e5.paid = call.paid /\ e5.raw = call.raw
  BY <1>1, <1>8 DEF Request
<1> QED
  BY <1>3, <1>4, <1>9, Zenon

\* A request that was let through.
LEMMA SentIs ==
    ASSUME Configured, NEW V, 0 \in V, NEW q \in Request(V)
    PROVE  Sent(q) \in Request(V) /\ Sent(q).pc = "sent" /\ Sent(q).paid = q.paid /\ Sent(q).raw = q.raw
<1>1. q.chat \in Scopes /\ q.paid \in BOOLEAN /\ q.raw \in BOOLEAN
  BY DEF Request
<1>2. Idle \in Request(V)
  BY DEF Idle, Request, Scopes
<1> DEFINE e1 == [Idle EXCEPT !.pc = "sent"]
           e2 == [e1 EXCEPT !.chat = q.chat]
           e3 == [e2 EXCEPT !.paid = q.paid]
           e4 == [e3 EXCEPT !.raw = q.raw]
<1>3. Sent(q) = e4
  BY DEF Sent
<1>4. e1 \in Request(V) /\ e1.pc = "sent"
  BY <1>2 DEF Request
<1> HIDE DEF e1
<1>5. e2 \in Request(V) /\ e2.pc = "sent"
  BY <1>1, <1>4 DEF Request
<1> HIDE DEF e2
<1>6. e3 \in Request(V) /\ e3.pc = "sent" /\ e3.paid = q.paid
  BY <1>1, <1>5 DEF Request
<1> HIDE DEF e3
<1>7. e4 \in Request(V) /\ e4.pc = "sent" /\ e4.paid = q.paid /\ e4.raw = q.raw
  BY <1>1, <1>6 DEF Request
<1> QED
  BY <1>3, <1>7, Zenon

\* A request that naps.
LEMMA NappingIs ==
    ASSUME NEW W, NEW nap \in W, NEW q \in Request(W), q.waited + nap \in W
    PROVE  /\ Napping(q, nap) \in Request(W) /\ Napping(q, nap).pc = "sleep"
           /\ Napping(q, nap).paid = q.paid /\ Napping(q, nap).raw = q.raw
<1> DEFINE x == q.waited + nap
           e1 == [q EXCEPT !.pc = "sleep"]
           e2 == [e1 EXCEPT !.sleep = nap]
           e3 == [e2 EXCEPT !.waited = x]
<1>1. Napping(q, nap) = e3
  BY DEF Napping
<1>2. x \in W
  OBVIOUS
<1> HIDE DEF x
<1>3. e1 \in Request(W) /\ e1.pc = "sleep" /\ e1.paid = q.paid /\ e1.raw = q.raw
  BY DEF Request
<1> HIDE DEF e1
<1>4. e2 \in Request(W) /\ e2.pc = "sleep" /\ e2.paid = q.paid /\ e2.raw = q.raw
  BY <1>3 DEF Request
<1> HIDE DEF e2
<1>5. e3 \in Request(W) /\ e3.pc = "sleep" /\ e3.paid = q.paid /\ e3.raw = q.raw
  BY <1>2, <1>4 DEF Request
<1> HIDE DEF e3
<1> QED
  BY <1>1, <1>5

\* What one step of a request does to it: it keeps its type, and the lane stays
\* open only if it holds it or did not hold it before.
Moves(r) ==
    \E V, x :
        /\ 0 \in V /\ req \in [Reqs -> Request(V)]
        /\ x \in Request(V) /\ req' = [req EXCEPT ![r] = x]
        /\ paidLane' => Holds(x) \/ (paidLane /\ ~Holds(req[r]))

\* Every step of a request is such a step.
LEMMA RequestMoves ==
    ASSUME Configured, Types, NEW r \in Reqs,
           \/ \E call \in Calls[plane] : Arrive(r, call)
           \/ Proceed(r) \/ ClientGone(r)
    PROVE  Moves(r)
<1>1. PICK V : 0 \in V /\ req \in [Reqs -> Request(V)]
  BY DEF Types
<1>2. req[r] \in Request(V)
  BY <1>1
<1>3. ASSUME NEW x \in Request(V), req' = [req EXCEPT ![r] = x],
             paidLane' => Holds(x) \/ (paidLane /\ ~Holds(req[r]))
      PROVE  Moves(r)
  BY <1>1, <1>3, Zenon DEF Moves
<1>4. ASSUME Done(r), paidLane' = paidLane PROVE Moves(r)
  <2>1. /\ Left(req[r]) \in Request(V) /\ req' = [req EXCEPT ![r] = Left(req[r])]
        /\ ~req[r].raw => Left(req[r]).pc = "exit" /\ Left(req[r]).paid = req[r].paid /\ ~Left(req[r]).raw
    BY <1>1, <1>2, <1>4, LeftIs DEF Done
  <2>2. Holds(req[r]) => Holds(Left(req[r]))
    BY <2>1, Zenon DEF Holds
  <2> QED
    BY <1>3, <1>4, <2>1, <2>2, Zenon
<1>5. ASSUME NEW call \in Calls[plane], Arrive(r, call) PROVE Moves(r)
  <2>1. /\ req[r].pc = "idle" /\ req' = [req EXCEPT ![r] = Arrived(call)]
        /\ paidLane' = IF call.raw THEN paidLane ELSE call.paid /\ optIn
    BY <1>5 DEF Arrive
  <2>2. ~Holds(req[r])
    BY <2>1 DEF Holds
  <2>3. /\ Arrived(call) \in Request(V) /\ Arrived(call).paid = call.paid
        /\ Arrived(call).raw = call.raw /\ Arrived(call).pc # "idle"
    BY <1>1, ArrivedIs
  <2>4. ~call.raw /\ call.paid => Holds(Arrived(call))
    BY <2>3 DEF Holds
  <2>5. paidLane' => Holds(Arrived(call)) \/ (paidLane /\ ~Holds(req[r]))
    BY <2>1, <2>2, <2>4, Zenon
  <2> QED
    BY <1>3, <2>1, <2>3, <2>5, Zenon
<1>6. CASE CheckOptIn(r)
  <2>1. CASE Done(r)
    BY <1>4, <1>6, <2>1 DEF CheckOptIn, guard
  <2>2. CASE Goto(r, "try")
    <3> DEFINE x == [req[r] EXCEPT !.pc = "try"]
    <3>1. x \in Request(V) /\ x.paid = req[r].paid /\ x.raw = req[r].raw /\ x.pc = "try"
      BY <1>2 DEF Request
    <3>2. req' = [req EXCEPT ![r] = x] /\ paidLane' = paidLane
      BY <1>6, <2>2 DEF Goto, CheckOptIn, guard
    <3> HIDE DEF x
    <3>3. Holds(req[r]) => Holds(x)
      BY <3>1 DEF Holds
    <3> QED
      BY <1>3, <3>1, <3>2, <3>3, Zenon
  <2> QED
    BY <1>6, <2>1, <2>2 DEF CheckOptIn
<1>7. CASE TryAcquire(r)
  <2>1. /\ req' = [req EXCEPT ![r] = Sent(req[r])] /\ paidLane' = paidLane
        /\ Sent(req[r]) \in Request(V)
    BY <1>1, <1>2, <1>7, SentIs DEF TryAcquire
  <2>2. Holds(req[r]) => Holds(Sent(req[r]))
    BY <1>1, <1>2, SentIs DEF Holds
  <2> QED
    BY <1>3, <2>1, <2>2, Zenon
<1>8. CASE AskWaitTime(r)
  <2>1. paidLane' = paidLane
    BY <1>8 DEF AskWaitTime
  <2>2. CASE Done(r)
    BY <1>4, <2>1, <2>2
  <2>3. ASSUME NEW nap, req' = [req EXCEPT ![r] = Napping(req[r], nap)] PROVE Moves(r)
    <3> DEFINE W == V \cup {nap, req[r].waited + nap}
               x == Napping(req[r], nap)
    <3>1. 0 \in W /\ Request(V) \subseteq Request(W) /\ nap \in W /\ req[r].waited + nap \in W
      BY <1>1 DEF Request
    <3>2. x \in Request(W) /\ x.pc = "sleep" /\ x.paid = req[r].paid /\ x.raw = req[r].raw
      <4> HIDE DEF W
      <4> QED
        BY <1>2, <3>1, NappingIs
    <3>3. Holds(req[r]) => Holds(x)
      BY <3>2 DEF Holds
    <3>4. req' = [req EXCEPT ![r] = x]
      BY <2>3
    <3> HIDE DEF W, x
    <3>5. req \in [Reqs -> Request(W)]
      BY <1>1, <3>1
    <3> QED
      BY <2>1, <3>1, <3>2, <3>3, <3>4, <3>5, Zenon DEF Moves
  <2> QED
    BY <1>8, <2>2, <2>3, Zenon DEF AskWaitTime
<1>13. CASE Refused(r)
  <2> DEFINE x == [req[r] EXCEPT !.pc = "refused"]
  <2>1. x \in Request(V) /\ x.paid = req[r].paid /\ x.raw = req[r].raw /\ x.pc = "refused"
    BY <1>2 DEF Request
  <2>2. req' = [req EXCEPT ![r] = x] /\ paidLane' = paidLane
    BY <1>13 DEF Goto, Refused
  <2> HIDE DEF x
  <2>3. Holds(req[r]) => Holds(x)
    BY <2>1 DEF Holds
  <2> QED
    BY <1>3, <2>1, <2>2, <2>3, Zenon
<1>9. ASSUME NEW ok \in BOOLEAN, Completed(r, ok) PROVE Moves(r)
  BY <1>4, <1>9 DEF Completed
<1>10. ASSUME NEW type \in FloodTypes, NEW w \in Waits[req[r].chat], Flooded(r, type, w)
       PROVE  Moves(r)
  <2> DEFINE x == [[req[r] EXCEPT !.pc = "save"] EXCEPT !.wait = w]
  <2>1. w \in Nat
    BY <1>2 DEF Configured, Request
  <2>2. /\ paidLane' = paidLane
        /\ plane = "mt" => Done(r)
        /\ plane # "mt" => req' = [req EXCEPT ![r] = x]
    BY <1>1, <1>10, Zenon DEF Flooded, Done
  <2>3. x \in Request(V) /\ x.pc = "save" /\ x.paid = req[r].paid /\ x.raw = req[r].raw
    BY <1>2, <2>1, Zenon DEF Request
  <2> HIDE DEF x
  <2>4. Holds(req[r]) => Holds(x)
    BY <2>3 DEF Holds
  <2>5. CASE plane = "mt"
    BY <1>4, <2>2, <2>5, Zenon
  <2>6. CASE plane # "mt"
    BY <1>3, <2>2, <2>3, <2>4, <2>6, Zenon
  <2> QED
    BY <2>5, <2>6, Zenon
<1>11. CASE RecordBackoff(r) \/ ClientGone(r)
  BY <1>4, <1>11 DEF RecordBackoff, ClientGone, guard
<1>12. CASE ExitPaidLane(r)
  <2>1. Idle \in Request(V)
    BY <1>1, <1>2, LeftIs
  <2> QED
    BY <1>3, <1>12, <2>1, Zenon DEF ExitPaidLane
<1> QED
  BY <1>5, <1>6, <1>7, <1>8, <1>9, <1>10, <1>11, <1>12, <1>13, Zenon DEF Proceed

\* Every step keeps the types of the requests and the holder of the lane.
LEMMA RequestsStep ==
    ASSUME Configured, Types, Held, [Next]_vars
    PROVE  (\E V : 0 \in V /\ req' \in [Reqs -> Request(V)]) /\ Held'
<1>1. PICK V : 0 \in V /\ req \in [Reqs -> Request(V)]
  BY DEF Types
<1>2. CASE UNCHANGED <<req, paidLane>>
  BY <1>1, <1>2 DEF Held
<1>3. ASSUME NEW r \in Reqs, Moves(r)
      PROVE  (\E U : 0 \in U /\ req' \in [Reqs -> Request(U)]) /\ Held'
  <2>1. PICK U, x : /\ 0 \in U /\ req \in [Reqs -> Request(U)]
                    /\ x \in Request(U) /\ req' = [req EXCEPT ![r] = x]
                    /\ paidLane' => Holds(x) \/ (paidLane /\ ~Holds(req[r]))
    BY <1>3, Zenon DEF Moves
  <2>2. req' \in [Reqs -> Request(U)] /\ req'[r] = x /\ \A s \in Reqs \ {r} : req'[s] = req[s]
    BY <2>1
  <2>3. ASSUME paidLane' PROVE \E s \in Reqs : Holds(req'[s])
    <3>1. CASE Holds(x)
      BY <2>2, <3>1
    <3>2. CASE paidLane /\ ~Holds(req[r])
      <4>1. PICK s \in Reqs : Holds(req[s])
        BY <3>2 DEF Held
      <4>2. s # r
        BY <3>2, <4>1
      <4> QED
        BY <2>2, <4>1, <4>2
    <3> QED
      BY <2>1, <2>3, <3>1, <3>2
  <2>4. Held'
    BY <2>3 DEF Held, Holds
  <2> QED
    BY <2>1, <2>2, <2>4
<1>4. CASE Tick
  <2> DEFINE U == V \cup {Less(v) : v \in V}
             x(r) == [req[r] EXCEPT !.sleep = Less(@)]
  <2>1. req' = [r \in Reqs |-> x(r)] /\ paidLane' = paidLane
    BY <1>4, Zenon DEF Tick
  <2>2. ASSUME NEW r \in Reqs
        PROVE  /\ x(r) \in Request(U) /\ x(r).paid = req[r].paid
               /\ x(r).raw = req[r].raw /\ x(r).pc = req[r].pc
    <3>1. req[r] \in Request(V) /\ Less(req[r].sleep) \in U /\ V \subseteq U
      BY <1>1 DEF Request
    <3> HIDE DEF U
    <3> QED
      BY <3>1 DEF Request
  <2>3. 0 \in U
    BY <1>1
  <2> HIDE DEF U, x
  <2>4. req' \in [Reqs -> Request(U)]
    BY <2>1, <2>2
  <2>5. \A r \in Reqs : Holds(req[r]) => Holds(req'[r])
    BY <2>1, <2>2 DEF Holds
  <2>6. Held'
    BY <2>1, <2>5 DEF Held, Holds
  <2> QED
    BY <2>3, <2>4, <2>6
<1>5. CASE Restart
  <2>1. req' = [r \in Reqs |-> Idle] /\ ~paidLane'
    BY <1>5 DEF Restart
  <2>2. Idle \in Request(V)
    BY <1>1 DEF Idle, Request, Scopes
  <2> QED
    BY <1>1, <2>1, <2>2 DEF Held
<1>6. ASSUME NEW w \in Waits[Nil], PollFlooded(w) PROVE UNCHANGED <<req, paidLane>>
  BY <1>6 DEF PollFlooded
<1>7. ASSUME NEW v \in BOOLEAN, SetPaid(v) PROVE UNCHANGED <<req, paidLane>>
  BY <1>7 DEF SetPaid
<1>8. ASSUME NEW c \in Scopes, ChatSendState(c) PROVE UNCHANGED <<req, paidLane>>
  BY <1>8 DEF ChatSendState
<1>9. CASE PollSave \/ Snapshot \/ UNCHANGED vars
  BY <1>2, <1>9 DEF PollSave, Snapshot, vars, guard
<1> QED
  BY <1>2, <1>3, <1>4, <1>5, <1>6, <1>7, <1>8, <1>9, RequestMoves DEF Next

-----------------------------------------------------------------------------
(* The ledger *)

\* Why a wait may be missing from the ledger.
Excused(c) ==
    \/ c \in short
    \/ \E r \in Reqs : req[r].pc = "save" /\ req[r].chat = c
    \/ c = Nil /\ poll > 0
    \/ c \in forgotten

\* Saving a wait settles its scope, and no other.
LEMMA SaveSettles ==
    ASSUME Types, NEW c \in Scopes, NEW w \in Nat, SaveBackoff(c, w)
    PROVE  /\ ledger' \in [Scopes -> Nat]
           /\ told[c] > ledger'[c] => c \in short'
           /\ \A d \in Scopes \ {c} : ledger'[d] = ledger[d] /\ (d \in short => d \in short')
<1>1. ledger \in [Scopes -> Nat] /\ told \in [Scopes -> Nat]
  BY DEF Types
<1> QED
  BY <1>1 DEF SaveBackoff

\* The types of the ledger and of what the poller has still to save.
LEMMA LedgerStep ==
    ASSUME Configured, Types, [Next]_vars
    PROVE  plane' = plane /\ ledger' \in [Scopes -> Nat] /\ poll' \in Nat
<1>1. ledger \in [Scopes -> Nat] /\ poll \in Nat /\ Nil \in Scopes
  BY DEF Types, Scopes
<1>2. CASE UNCHANGED <<plane, ledger, poll>>
  BY <1>1, <1>2
<1>3. ASSUME NEW r \in Reqs, RecordBackoff(r)
      PROVE  plane' = plane /\ ledger' \in [Scopes -> Nat] /\ poll' \in Nat
  <2>1. req[r].chat \in Scopes /\ req[r].wait \in Nat
    BY DEF Types, Request
  <2>2. ledger' \in [Scopes -> Nat]
    BY <1>3, <2>1, SaveSettles DEF RecordBackoff
  <2> QED
    BY <1>1, <1>3, <2>2 DEF RecordBackoff, config
<1>4. ASSUME NEW r \in Reqs,
             \/ \E call \in Calls[plane] : Arrive(r, call)
             \/ Proceed(r) \/ ClientGone(r),
             ~RecordBackoff(r)
      PROVE  UNCHANGED <<plane, ledger, poll>>
  BY <1>4, Zenon DEF Arrive, Proceed, ClientGone, CheckOptIn, TryAcquire, Refused, AskWaitTime,
     Completed, Flooded, ExitPaidLane, config
<1>5. CASE PollSave
  <2>1. ledger' \in [Scopes -> Nat]
    BY <1>1, <1>5, SaveSettles DEF PollSave
  <2> QED
    BY <1>1, <1>5, <2>1 DEF PollSave, config
<1>6. ASSUME NEW w \in Waits[Nil], PollFlooded(w)
      PROVE  plane' = plane /\ ledger' = ledger /\ poll' \in Nat
  BY <1>1, <1>6 DEF PollFlooded, config, Configured
<1>7. CASE Tick
  <2>1. ledger' = [c \in Scopes |-> Less(ledger[c])] /\ poll' = poll /\ plane' = plane
    BY <1>7, Zenon DEF Tick, config
  <2>2. \A n \in Nat : Less(n) \in Nat
    BY DEF Less, Max2, Configured
  <2> QED
    BY <1>1, <2>1, <2>2
<1>8. CASE Restart
  BY <1>1, <1>8 DEF Restart
<1>9. CASE (\E v \in BOOLEAN : SetPaid(v)) \/ (\E c \in Scopes : ChatSendState(c)) \/ Snapshot \/ UNCHANGED vars
  BY <1>2, <1>9, Zenon DEF SetPaid, ChatSendState, Snapshot, vars, config
<1> QED
  BY <1>1, <1>2, <1>3, <1>4, <1>5, <1>6, <1>7, <1>8, <1>9 DEF Next

\* A report adds one reason, for its own scope.
LEMMA ReportExcused ==
    ASSUME Types, NEW c \in Scopes, NEW w \in Nat, Report429(c, w), ledger' = ledger,
           Excused(c)',
           \A d \in Scopes \ {c} : d \notin short \cup forgotten /\ Excused(d) => Excused(d)',
           PausesPersist, plane = "bot"
    PROVE  \A d \in Scopes : told'[d] > ledger'[d] => Excused(d)'
<1> SUFFICES ASSUME NEW d \in Scopes, told'[d] > ledger'[d], d # c PROVE Excused(d)'
  OBVIOUS
<1>1. /\ told' = [told EXCEPT ![c] = Max2(@, w)] /\ short' = short
      /\ \A e \in forgotten : e # c => e \in forgotten'
  BY DEF Report429, Learn
<1>2. told'[d] = told[d]
  BY <1>1 DEF Types
<1>3. Excused(d)
  BY <1>2 DEF PausesPersist, Excused
<1>4. CASE d \in short \cup forgotten
  BY <1>1, <1>4 DEF Excused
<1> QED
  BY <1>3, <1>4

\* A request that has nothing to save leaves the reasons as they are.
LEMMA NothingToSave ==
    ASSUME Types, PausesPersist, NEW r \in Reqs, Moves(r), req[r].pc # "save",
           UNCHANGED <<plane, told, ledger, short, forgotten, poll>>
    PROVE  PausesPersist'
<1>1. PICK x : req' = [req EXCEPT ![r] = x]
  BY Zenon DEF Moves
<1>2. \A s \in Reqs : req[s].pc = "save" => req'[s] = req[s]
  BY <1>1 DEF Types
<1> QED
  BY <1>2 DEF PausesPersist

\* The step of one request.
LEMMA RequestPersists ==
    ASSUME Configured, Types, PausesPersist, NEW r \in Reqs, Moves(r),
           \/ \E call \in Calls[plane] : Arrive(r, call)
           \/ Proceed(r) \/ ClientGone(r)
    PROVE  PausesPersist'
<1>1. /\ req[r].chat \in Scopes /\ req[r].wait \in Nat /\ told \in [Scopes -> Nat]
      /\ DOMAIN req = Reqs
  BY DEF Types, Request
<1>2. PICK x : req' = [req EXCEPT ![r] = x]
  BY Zenon DEF Moves
<1>3. \A s \in Reqs \ {r} : req'[s] = req[s]
  BY <1>1, <1>2
<1>4. CASE RecordBackoff(r)
  <2>1. /\ SaveBackoff(req[r].chat, req[r].wait)
        /\ UNCHANGED <<plane, poll, told, forgotten>>
    BY <1>4 DEF RecordBackoff, config
  <2>2. ASSUME NEW d \in Scopes, plane = "bot", told[d] > ledger'[d] PROVE Excused(d)'
    <3>1. CASE d = req[r].chat
      BY <1>1, <2>1, <2>2, <3>1, SaveSettles DEF Excused
    <3>2. CASE d # req[r].chat
      <4>1. ledger'[d] = ledger[d] /\ (d \in short => d \in short')
        BY <1>1, <2>1, <3>2, SaveSettles
      <4>2. Excused(d)
        BY <2>2, <4>1 DEF PausesPersist, Excused
      <4>3. \A s \in Reqs : req[s].chat = d => req'[s] = req[s]
        BY <1>3, <3>2
      <4> QED
        BY <2>1, <4>1, <4>2, <4>3 DEF Excused
    <3> QED
      BY <3>1, <3>2
  <2> QED
    BY <2>1, <2>2 DEF PausesPersist, Excused
<1>5. ASSUME NEW type \in FloodTypes, NEW w \in Waits[req[r].chat], Flooded(r, type, w)
      PROVE  PausesPersist'
  <2>1. plane' = plane /\ ledger' = ledger /\ poll' = poll /\ req[r].pc = "sent"
    BY <1>5 DEF Flooded, config
  <2>2. ASSUME plane = "bot" PROVE \A d \in Scopes : told'[d] > ledger'[d] => Excused(d)'
    <3>1. Report429(req[r].chat, w) /\ w \in Nat
      BY <1>1, <1>5, <2>2 DEF Flooded, Configured
    <3>2. req'[r].pc = "save" /\ req'[r].chat = req[r].chat
      <4>1. req' = [req EXCEPT ![r] = [req[r] EXCEPT !.pc = "save", !.wait = w]]
        BY <1>5, <2>2 DEF Flooded
      <4>2. PICK V : req[r] \in Request(V)
        BY Zenon DEF Types
      <4> QED
        BY <1>1, <4>1, <4>2 DEF Request
    <3>3. PICK c \in Scopes : c = req[r].chat
      BY <1>1
    <3>4. Excused(c)' /\ Report429(c, w)
      BY <3>1, <3>2, <3>3, Zenon DEF Excused
    <3>5. ASSUME NEW d \in Scopes, d \notin short \cup forgotten, Excused(d) PROVE Excused(d)'
      <4>1. \A s \in Reqs : req[s].pc = "save" => req'[s] = req[s]
        BY <1>3, <2>1
      <4> QED
        BY <2>1, <3>5, <4>1 DEF Excused
    <3> QED
      BY <2>1, <2>2, <3>1, <3>4, <3>5, ReportExcused
  <2> QED
    BY <2>1, <2>2 DEF PausesPersist, Excused
<1>6. ASSUME req[r].pc # "save", UNCHANGED <<plane, told, ledger, short, forgotten, poll>>
      PROVE  PausesPersist'
  BY <1>6, NothingToSave
<1>7. ASSUME NEW call \in Calls[plane], Arrive(r, call) PROVE PausesPersist'
  BY <1>6, <1>7 DEF Arrive, config, history
<1>8. ASSUME NEW ok \in BOOLEAN, Completed(r, ok) PROVE PausesPersist'
  BY <1>6, <1>8, Zenon DEF Completed, config, history
<1>9. CASE TryAcquire(r) \/ Refused(r) \/ AskWaitTime(r)
  BY <1>6, <1>9 DEF TryAcquire, Refused, AskWaitTime, Attempts, config, history
<1>10. CASE CheckOptIn(r) \/ ExitPaidLane(r) \/ ClientGone(r)
  BY <1>6, <1>10, Zenon DEF CheckOptIn, ExitPaidLane, ClientGone, config, history
<1> QED
  BY <1>4, <1>5, <1>7, <1>8, <1>9, <1>10 DEF Proceed

\* Every step keeps the ledger's promise.
LEMMA PersistStep ==
    ASSUME Configured, Types, PausesPersist, [Next]_vars
    PROVE  PausesPersist'
<1>1. ledger \in [Scopes -> Nat] /\ told \in [Scopes -> Nat] /\ Nil \in Scopes /\ poll \in Nat
  BY DEF Types, Scopes
<1>2. CASE UNCHANGED <<plane, told, ledger, short, forgotten, poll, req>>
  BY <1>2 DEF PausesPersist
<1>3. ASSUME NEW w \in Waits[Nil], PollFlooded(w) PROVE PausesPersist'
  <2>1. /\ plane = "bot" /\ plane' = plane /\ ledger' = ledger /\ req' = req /\ poll = 0 /\ poll' = w
        /\ Report429(Nil, w)
    BY <1>3 DEF PollFlooded, config
  <2>2. w \in Nat /\ w > 0
    BY <1>1 DEF Configured
  <2>3. Excused(Nil)'
    BY <2>1, <2>2 DEF Excused
  <2>4. \A d \in Scopes : d \notin short \cup forgotten /\ Excused(d) => Excused(d)'
    BY <2>1 DEF Excused
  <2>5. \A d \in Scopes : told'[d] > ledger'[d] => Excused(d)'
    BY <1>1, <2>1, <2>2, <2>3, <2>4, ReportExcused
  <2> QED
    BY <2>5 DEF PausesPersist, Excused
<1>4. CASE PollSave
  <2>1. /\ SaveBackoff(Nil, poll) /\ UNCHANGED <<plane, req, told, forgotten>>
    BY <1>4 DEF PollSave, config
  <2>2. ASSUME NEW d \in Scopes, plane = "bot", told[d] > ledger'[d] PROVE Excused(d)'
    <3>1. CASE d = Nil
      BY <1>1, <2>1, <2>2, <3>1, SaveSettles DEF Excused
    <3>2. CASE d # Nil
      <4>1. ledger'[d] = ledger[d] /\ (d \in short => d \in short')
        BY <1>1, <2>1, <3>2, SaveSettles
      <4> QED
        BY <2>1, <2>2, <3>2, <4>1 DEF PausesPersist, Excused
    <3> QED
      BY <3>1, <3>2
  <2> QED
    BY <2>1, <2>2 DEF PausesPersist, Excused
<1>5. CASE Tick
  <2>1. /\ UNCHANGED <<plane, poll>>
        /\ ledger' = [c \in Scopes |-> Less(ledger[c])] /\ told' = [c \in Scopes |-> Less(told[c])]
        /\ short' = {c \in short : told[c] > 1} /\ forgotten' = {c \in forgotten : told[c] > 1}
        /\ req' = [r \in Reqs |-> [req[r] EXCEPT !.sleep = Less(@)]]
    BY <1>5, Zenon DEF Tick, config
  <2>2. \A n \in Nat : Less(n) = Max2(n - 1, 0)
    BY DEF Less, Configured
  <2>3. ASSUME NEW c \in Scopes, told'[c] > ledger'[c] PROVE told[c] > ledger[c] /\ told[c] > 1
    <3>1. told[c] \in Nat /\ ledger[c] \in Nat
      BY <1>1
    <3>2. told'[c] = Max2(told[c] - 1, 0) /\ ledger'[c] = Max2(ledger[c] - 1, 0)
      BY <2>1, <2>2, <3>1
    <3> QED
      BY <2>3, <3>1, <3>2 DEF Max2
  <2>4. ASSUME NEW r \in Reqs PROVE req'[r].pc = req[r].pc /\ req'[r].chat = req[r].chat
    <3>1. PICK V : req[r] \in Request(V)
      BY DEF Types
    <3> QED
      BY <2>1, <3>1 DEF Request
  <2>5. ASSUME NEW c \in Scopes, plane = "bot", told'[c] > ledger'[c] PROVE Excused(c)'
    BY <2>1, <2>3, <2>4, <2>5, Zenon DEF PausesPersist, Excused
  <2> QED
    BY <2>1, <2>5 DEF PausesPersist, Excused
<1>6. CASE Restart
  BY <1>6 DEF Restart, RestoreBackoffs, PausesPersist
<1>7. CASE (\E v \in BOOLEAN : SetPaid(v)) \/ (\E c \in Scopes : ChatSendState(c)) \/ Snapshot \/ UNCHANGED vars
  BY <1>2, <1>7, Zenon DEF SetPaid, ChatSendState, Snapshot, vars, config, history
<1> QED
  BY <1>3, <1>4, <1>5, <1>6, <1>7, RequestMoves, RequestPersists, Zenon DEF Next

-----------------------------------------------------------------------------
(* The theorems *)

\* RateInvariant: the invariant holds in every state.
THEOREM RateInvariant == Spec => []Inv
<1>1. Init => Inv
  <2> SUFFICES ASSUME Init PROVE Inv
    OBVIOUS
  <2>1. Configured
    BY RateAssumption
  <2>2. /\ plane \in Planes /\ egress = 0 /\ poll = 0 /\ paidLane = FALSE
        /\ bucket = [b \in Buckets |-> NewBucket(b)] /\ peer = [c \in Chats |-> NoPeer]
        /\ ledger = [c \in Scopes |-> 0] /\ told = [c \in Scopes |-> 0] /\ req = [r \in Reqs |-> Idle]
    BY DEF Init
  <2>3. \A b \in Buckets : NewBucket(b) \in Bucket
    BY <2>1 DEF NewBucket, Bucket, Full, Configured
  <2>4. NoPeer \in [offences : 0 .. MaxOffences, pause : Nat]
    BY <2>1 DEF NoPeer, Configured
  <2>5. Idle \in Request({0})
    BY DEF Idle, Request, Scopes
  <2>6. \E V : 0 \in V /\ req \in [Reqs -> Request(V)]
    <3>1. 0 \in {0} /\ req \in [Reqs -> Request({0})]
      BY <2>2, <2>5
    <3> QED
      BY <3>1, Zenon
  <2>7. Types
    BY <2>2, <2>3, <2>4, <2>6 DEF Types
  <2>8. Nil \in Scopes /\ Chats \subseteq Scopes
    BY DEF Scopes
  <2> QED
    BY <2>2, <2>7, <2>8 DEF Inv, Held, Honoured, PausesPersist
<1>2. Inv /\ [Next]_vars => Inv'
  <2> SUFFICES ASSUME Inv, [Next]_vars PROVE Inv'
    OBVIOUS
  <2>1. Configured
    BY RateAssumption
  <2>2. Types /\ Held /\ Honoured /\ PausesPersist /\ Pauses
    BY DEF Inv, Types, Pauses
  <2>3. Pauses'
    BY <2>1, <2>2, PausesStep
  <2>4. (\E V : 0 \in V /\ req' \in [Reqs -> Request(V)]) /\ Held'
    BY <2>1, <2>2, RequestsStep
  <2>5. plane' = plane /\ ledger' \in [Scopes -> Nat] /\ poll' \in Nat
    BY <2>1, <2>2, LedgerStep
  <2>6. PausesPersist'
    BY <2>1, <2>2, PersistStep
  <2>7. Types'
    BY <2>2, <2>3, <2>4, <2>5 DEF Types, Pauses
  <2> QED
    BY <2>3, <2>4, <2>6, <2>7 DEF Inv, Pauses
<1> QED
  BY <1>1, <1>2, PTL DEF Spec

\* LaneIsGivenBack: however the requests of a session interleave, the paid lane
\* is open only while one that asked for it is in flight.
THEOREM LaneIsGivenBack == Spec => []LaneHeld
<1>1. Inv => LaneHeld
  BY DEF Inv, Held, Holds, LaneHeld
<1> QED
  BY <1>1, RateInvariant, PTL

\* WaitsAreStored: the ledger of a bot holds every wait reported to it, but for
\* the exceptions that PausesPersist lists.
THEOREM WaitsAreStored == Spec => []PausesPersist
<1>1. Inv => PausesPersist
  BY DEF Inv
<1> QED
  BY <1>1, RateInvariant, PTL

\* Only the guard lets a request through.
LEMMA OnlyGranted ==
    ASSUME Configured, Types, [Next]_vars, NEW r \in Reqs,
           req[r].pc # "sent", req'[r].pc = "sent"
    PROVE  TryAcquire(r)
<1>1. PICK V : 0 \in V /\ req \in [Reqs -> Request(V)]
  BY DEF Types
<1>2. req[r] \in Request(V)
  BY <1>1
<1>3. CASE req' = req
  BY <1>3, Zenon
<1>4. ASSUME NEW s \in Reqs,
             \/ \E call \in Calls[plane] : Arrive(s, call)
             \/ Proceed(s) \/ ClientGone(s)
      PROVE  TryAcquire(r)
  <2>1. CASE s # r
    <3>1. PICK x : req' = [req EXCEPT ![s] = x]
      BY <1>4, RequestMoves DEF Moves
    <3> QED
      BY <1>1, <2>1, <3>1
  <2>2. CASE s = r
    <3>1. ASSUME Done(r) PROVE FALSE
      <4>1. req'[r] = Left(req[r])
        BY <1>1, <3>1 DEF Done
      <4> QED
        BY <1>1, <1>2, <4>1, LeftIs
    <3>2. ASSUME NEW call \in Calls[plane], Arrive(r, call) PROVE FALSE
      <4>1. req'[r] = Arrived(call)
        BY <1>1, <3>2 DEF Arrive
      <4> QED
        BY <1>1, <4>1, ArrivedIs
    <3>3. CASE CheckOptIn(r)
      <4>1. CASE Goto(r, "try")
        <5>1. req'[r].pc = "try"
          BY <1>1, <1>2, <4>1 DEF Goto, Request
        <5> QED
          BY <5>1
      <4> QED
        BY <3>1, <3>3, <4>1 DEF CheckOptIn
    <3>4. CASE AskWaitTime(r)
      <4>1. ASSUME NEW nap, req' = [req EXCEPT ![r] = Napping(req[r], nap)] PROVE FALSE
        <5>1. Napping(req[r], nap).pc = "sleep"
          BY <1>2 DEF Napping, Request
        <5> QED
          BY <1>1, <4>1, <5>1
      <4> QED
        BY <3>1, <3>4, <4>1, Zenon DEF AskWaitTime
    <3>8. CASE Refused(r)
      <4>1. req'[r].pc = "refused"
        BY <1>1, <1>2, <3>8 DEF Refused, Goto, Request
      <4> QED
        BY <4>1
    <3>5. CASE \E type \in FloodTypes, w \in Waits[req[r].chat] : Flooded(r, type, w)
      BY <3>5 DEF Flooded
    <3>6. CASE ExitPaidLane(r)
      BY <1>1, <3>6 DEF ExitPaidLane, Idle
    <3>7. CASE (\E ok \in BOOLEAN : Completed(r, ok)) \/ RecordBackoff(r) \/ ClientGone(r)
      BY <3>1, <3>7, Zenon DEF Completed, RecordBackoff, ClientGone
    <3> QED
      BY <1>4, <2>2, <3>2, <3>3, <3>4, <3>5, <3>6, <3>7, <3>8, Zenon DEF Proceed
  <2> QED
    BY <2>1, <2>2
<1>5. CASE Tick
  <2>1. req'[r] = [req[r] EXCEPT !.sleep = Less(@)]
    BY <1>5, Zenon DEF Tick
  <2>2. req'[r].pc = req[r].pc
    BY <1>2, <2>1 DEF Request
  <2> QED
    BY <2>2
<1>6. CASE Restart
  BY <1>6 DEF Restart, Idle
<1>7. CASE \/ \E w \in Waits[Nil] : PollFlooded(w)
           \/ PollSave \/ Snapshot \/ UNCHANGED vars
           \/ \E v \in BOOLEAN : SetPaid(v)
           \/ \E c \in Scopes : ChatSendState(c)
  BY <1>3, <1>7, Zenon DEF PollFlooded, PollSave, Snapshot, SetPaid, ChatSendState, vars
<1> QED
  BY <1>4, <1>5, <1>6, <1>7, Zenon DEF Next

\* What the guard lets through waits for nothing.
LEMMA GrantedWaits ==
    ASSUME Configured, Types, Honoured, NEW r \in Reqs, TryAcquire(r)
    PROVE  /\ told[Nil] = 0 \/ Nil \in forgotten
           /\ req[r].kind = "write" /\ req[r].chat # Nil =>
                  told[req[r].chat] = 0 \/ req[r].chat \in forgotten
<1>1. ~Blocked(req[r].chat) /\ \A b \in Charged(req[r].kind, req[r].chat) : Has(Refill(b, bucket[b]))
  BY DEF TryAcquire, Granted
<1>2. told[Nil] = 0 \/ Nil \in forgotten
  <2>1. ~(egress > 0) /\ egress \in Nat /\ told[Nil] \in Nat
    BY <1>1 DEF Blocked, Types, Scopes
  <2> QED
    BY <2>1 DEF Honoured
<1>3. ASSUME req[r].kind = "write", req[r].chat # Nil, told[req[r].chat] # 0
      PROVE  req[r].chat \in forgotten
  <2> DEFINE c == req[r].chat
  <2>1. c \in Chats
    BY <1>3 DEF Types, Request, Scopes
  <2>2. c \in Charged(req[r].kind, c)
    BY <1>3 DEF Charged, Known
  <2>3. Refill(c, bucket[c]).pause = Nil
    BY <1>1, <2>2 DEF Has
  <2>4. c \in Buckets /\ bucket[c] \in Bucket /\ told[c] \in Nat /\ told[c] > 0
    BY <1>3, <2>1 DEF Types, Buckets, Scopes
  <2>5. bucket[c].pause \in Nat \cup {Nil}
    BY <2>4 DEF Bucket
  <2>6. ~(bucket[c].pause # Nil /\ bucket[c].pause > 0)
    BY <2>3, <2>4, RefillKeeps
  <2> HIDE DEF c
  <2>7. c \in forgotten
    BY <2>1, <2>4, <2>5, <2>6 DEF Honoured
  <2> QED
    BY <2>7 DEF c
<1> QED
  BY <1>2, <1>3

\* WaitsAreHonoured: nothing is sent to a chat, or at all, before the wait that
\* Telegram answered with is over, for every rate, capacity, backoff base and order
\* of reports, but for the waits that `forgotten` excepts: dropped by a restart,
\* longer than the cap, or shortened by a base below 1.
THEOREM WaitsAreHonoured == Spec => HonoursRetryAfter
<1> DEFINE A == \A r \in Reqs : req[r].pc # "sent" /\ req'[r].pc = "sent" =>
                    /\ told[Nil] = 0 \/ Nil \in forgotten
                    /\ req[r].kind = "write" /\ req[r].chat # Nil =>
                           told[req[r].chat] = 0 \/ req[r].chat \in forgotten
<1>1. Inv /\ [Next]_vars => [A]_vars
  <2> SUFFICES ASSUME Inv, [Next]_vars PROVE A
    OBVIOUS
  <2>1. Configured
    BY RateAssumption
  <2> QED
    BY <2>1, OnlyGranted, GrantedWaits DEF Inv
<1> QED
  BY <1>1, RateInvariant, PTL DEF Spec, HonoursRetryAfter

-----------------------------------------------------------------------------
(* Pacing *)

\* The tokens a bucket holds, the time it has not credited yet, and the token
\* that the end of a pause may be worth.
Owed(b, k) == k.tokens + k.age * Rate[b] + (IF k.pause = Nil THEN 0 ELSE One)

\* An eager bucket with n parts allows whatever the bucket k allows.
Covers(b, k, n) ==
    /\ k.tokens >= 0 /\ k.age >= 0
    /\ n \in Int /\ n >= 0 /\ n >= Min2(Full(b), Owed(b, k))

\* Inductive: the eager bucket of the history is never behind.
Credited == credit \in [Pausable -> Int] /\ \A b \in Pausable : Covers(b, bucket[b], credit[b])

\* The numbers of a bucket.
LEMMA Numbers ==
    ASSUME Configured, NEW b \in Buckets, NEW k \in Bucket
    PROVE  /\ Full(b) \in Nat /\ Full(b) >= One /\ One \in Nat /\ One > 0
           /\ Rate[b] \in Nat /\ Rate[b] > 0 /\ Nil \notin Nat
           /\ k.tokens \in Int /\ k.age \in Int /\ k.pause \in Nat \cup {Nil}
           /\ k.age * Rate[b] \in Int /\ (k.age >= 0 => k.age * Rate[b] >= 0)
<1>1. One \in Nat /\ One > 0 /\ Capacity[b] \in Nat /\ Capacity[b] >= 1 /\ Rate[b] \in Nat
      /\ Rate[b] > 0 /\ Nil \notin Nat
  BY DEF Configured
<1>2. ASSUME NEW m \in Nat, m >= 1, NEW n \in Nat PROVE m * n \in Nat /\ m * n >= n
  BY <1>2
<1>3. Full(b) \in Nat /\ Full(b) >= One
  BY <1>1, <1>2 DEF Full
<1>4. k.tokens \in Int /\ k.age \in Int /\ k.pause \in Nat \cup {Nil}
  BY DEF Bucket
<1>5. ASSUME NEW m \in Int, NEW n \in Nat PROVE m * n \in Int /\ (m >= 0 => m * n >= 0)
  OBVIOUS
<1> QED
  BY <1>1, <1>3, <1>4, <1>5

\* Cutting off what a bucket cannot hold.
LEMMA Capped ==
    ASSUME NEW f \in Nat, NEW a \in Int, a >= 0, NEW o \in Nat, NEW n \in Int, n >= Min2(f, a + o)
    PROVE  Min2(f, a) \in Int /\ Min2(f, a) >= 0 /\ n >= Min2(f, Min2(f, a) + o)
BY DEF Min2

\* A refill gives what is owed, and no more; a token taken from it is paid for.
LEMMA RefillCovers ==
    ASSUME Configured, NEW b \in Buckets, NEW k \in Bucket, NEW n, Covers(b, k, n)
    PROVE  /\ Covers(b, Refill(b, k), n)
           /\ Has(Refill(b, k)) => Covers(b, [Refill(b, k) EXCEPT !.tokens = @ - One], n - One)
<1> DEFINE R == Refill(b, k)
           y == k.age * Rate[b]
           had == IF k.pause = 0 THEN Max2(k.tokens, One) ELSE k.tokens
           t == Min2(Full(b), had + y)
<1>1. /\ Full(b) \in Nat /\ Full(b) >= One /\ One \in Nat /\ One > 0
      /\ Rate[b] \in Nat /\ Nil \notin Nat /\ k.tokens \in Int /\ k.pause \in Nat \cup {Nil}
      /\ k.age \in Int /\ y \in Int /\ (k.age >= 0 => y >= 0)
  BY Numbers
<1>2. /\ k.tokens >= 0 /\ y >= 0 /\ n \in Int /\ n >= 0
      /\ n >= Min2(Full(b), k.tokens + y + (IF k.pause = Nil THEN 0 ELSE One))
  BY <1>1 DEF Covers, Owed
<1>3. R = [tokens |-> t, age |-> 0, pause |-> IF k.pause = 0 THEN Nil ELSE k.pause]
  BY DEF Refill
<1> HIDE DEF y
<1> HIDE DEF R
<1>4. t \in Int /\ t >= 0 /\ n >= Min2(Full(b), t + (IF k.pause = 0 \/ k.pause = Nil THEN 0 ELSE One))
  <2>1. CASE k.pause = Nil
    <3>1. had = k.tokens /\ n >= Min2(Full(b), k.tokens + y + 0)
      <4>1. had = k.tokens
        BY <1>1, <2>1
      <4> QED
        BY <1>2, <2>1, <4>1
    <3> HIDE DEF had
    <3> QED
      BY <1>1, <1>2, <2>1, <3>1, Capped
  <2>2. CASE k.pause = 0
    <3>1. had = Max2(k.tokens, One) /\ n >= Min2(Full(b), k.tokens + y + One)
      BY <1>1, <1>2, <2>2
    <3> HIDE DEF had
    <3>2. had \in Int /\ had >= 0 /\ had <= k.tokens + One
      BY <1>1, <1>2, <3>1 DEF Max2
    <3>3. n >= Min2(Full(b), (had + y) + 0)
      BY <1>1, <1>2, <3>1, <3>2 DEF Min2
    <3>4. had + y \in Int /\ had + y >= 0
      BY <1>1, <1>2, <3>2
    <3>5. t \in Int /\ t >= 0 /\ n >= Min2(Full(b), t + 0)
      BY <1>1, <1>2, <3>3, <3>4, Capped
    <3> QED
      BY <2>2, <3>5
  <2>3. CASE k.pause # Nil /\ k.pause # 0
    <3>1. had = k.tokens /\ n >= Min2(Full(b), k.tokens + y + One)
      BY <1>2, <2>3
    <3> HIDE DEF had
    <3> QED
      BY <1>1, <1>2, <2>3, <3>1, Capped
  <2> QED
    BY <2>1, <2>2, <2>3
<1>5. t <= Full(b)
  BY <1>1, <1>2 DEF Min2, Max2
<1> HIDE DEF t
<1>6. R.tokens = t /\ R.age = 0 /\ (R.pause = Nil <=> k.pause = 0 \/ k.pause = Nil)
  BY <1>1, <1>3
<1>7. R.age * Rate[b] = 0
  BY <1>1, <1>6
<1>8. Covers(b, R, n)
  BY <1>1, <1>2, <1>4, <1>6, <1>7 DEF Covers, Owed
<1>9. ASSUME Has(R) PROVE Covers(b, [R EXCEPT !.tokens = @ - One], n - One)
  <2> DEFINE e == [R EXCEPT !.tokens = @ - One]
  <2>1. R \in Bucket
    BY RefillKeeps DEF R
  <2>2. e.tokens = t - One /\ e.age = 0 /\ e.pause = R.pause
    BY <1>6, <2>1 DEF Bucket
  <2>3. R.pause = Nil /\ t >= One
    BY <1>6, <1>9 DEF Has
  <2> HIDE DEF e
  <2>4. e.age * Rate[b] = 0
    BY <1>1, <2>2
  <2>5. n >= t
    BY <1>1, <1>4, <1>5, <1>6, <2>3 DEF Min2
  <2>6. Owed(b, e) = t - One
    BY <1>1, <1>4, <2>2, <2>3, <2>4 DEF Owed
  <2>7. Covers(b, e, n - One)
    BY <1>1, <1>2, <1>4, <2>2, <2>3, <2>5, <2>6 DEF Covers, Min2
  <2> QED
    BY <2>7 DEF e
<1> QED
  BY <1>8, <1>9 DEF R

\* A pause is worth a token.
LEMMA PauseCovers ==
    ASSUME Configured, NEW b \in Buckets, NEW k \in Bucket, NEW n, Covers(b, k, n), NEW w \in Nat
    PROVE  Covers(b, Pause(k, w), Min2(Full(b), n + One))
<1> DEFINE P == Pause(k, w)
           y == k.age * Rate[b]
<1>1. /\ Full(b) \in Nat /\ One \in Nat /\ k.tokens \in Int /\ k.age \in Int /\ y \in Int
      /\ (k.age >= 0 => y >= 0)
  BY Numbers
<1>2. /\ k.tokens >= 0 /\ k.age >= 0 /\ n \in Int /\ n >= 0
      /\ n >= Min2(Full(b), k.tokens + y + (IF k.pause = Nil THEN 0 ELSE One))
  BY DEF Covers, Owed
<1>3. P.tokens = 0 /\ P.age = k.age /\ P.pause # Nil
  <2>1. P.tokens = 0 /\ P.age = k.age
    BY DEF Pause, Bucket
  <2> QED
    BY <2>1, PauseKeeps
<1> HIDE DEF P
<1>4. Owed(b, P) = y + One
  BY <1>1, <1>3 DEF Owed
<1> HIDE DEF y
<1>5. Covers(b, P, Min2(Full(b), n + One))
  BY <1>1, <1>2, <1>3, <1>4 DEF Covers, Min2
<1> QED
  BY <1>5 DEF P

\* Time: both buckets gain at most the rate.
LEMMA AgeCovers ==
    ASSUME Configured, NEW b \in Buckets, NEW k \in Bucket, NEW n, Covers(b, k, n)
    PROVE  Covers(b, [k EXCEPT !.age = Min2(@ + 1, OldAge(b)), !.pause = Less(@)],
                  Min2(Full(b), n + Rate[b]))
<1> DEFINE a == Min2(k.age + 1, OldAge(b))
           y == k.age * Rate[b]
           z == a * Rate[b]
           p == Less(k.pause)
           e == [[k EXCEPT !.age = a] EXCEPT !.pause = p]
<1>1. /\ Full(b) \in Nat /\ One \in Nat /\ k.tokens \in Int /\ k.age \in Int /\ y \in Int
      /\ Rate[b] \in Nat /\ Rate[b] > 0 /\ (k.age >= 0 => y >= 0) /\ k.pause \in Nat \cup {Nil}
      /\ Nil \notin Nat
  BY Numbers
<1>2. /\ k.tokens >= 0 /\ k.age >= 0 /\ n \in Int /\ n >= 0
      /\ n >= Min2(Full(b), k.tokens + y + (IF k.pause = Nil THEN 0 ELSE One))
  BY DEF Covers, Owed
<1>3. OldAge(b) \in Nat
  <2>1. ASSUME NEW f \in Nat, NEW r \in Nat, r > 0 PROVE (f + r - 1) \div r \in Nat
    BY <2>1
  <2> QED
    BY <1>1, <2>1 DEF OldAge
<1>4. a \in Int /\ a >= 0 /\ a <= k.age + 1
  BY <1>1, <1>2, <1>3 DEF Min2
<1>5. p = Nil <=> k.pause = Nil
  BY <1>1 DEF Less, Max2
<1>6. e.tokens = k.tokens /\ e.age = a /\ e.pause = p
  <2> HIDE DEF a, p
  <2> QED
    BY DEF Bucket
<1>7. [k EXCEPT !.age = Min2(@ + 1, OldAge(b)), !.pause = Less(@)] = e
  OBVIOUS
<1> HIDE DEF a, p, e
<1>8. z \in Int /\ z <= y + Rate[b]
  <2>1. ASSUME NEW m \in Nat, NEW l \in Nat, m <= l + 1, NEW r \in Nat
        PROVE  m * r \in Int /\ m * r <= l * r + r
    <3>1. m * r <= (l + 1) * r
      BY <2>1
    <3> QED
      BY <3>1
  <2> QED
    BY <1>1, <1>2, <1>4, <2>1
<1>9. Owed(b, e) = k.tokens + z + (IF k.pause = Nil THEN 0 ELSE One)
  BY <1>5, <1>6 DEF Owed
<1> HIDE DEF y, z
<1>10. Covers(b, e, Min2(Full(b), n + Rate[b]))
  BY <1>1, <1>2, <1>4, <1>6, <1>8, <1>9 DEF Covers, Min2
<1> QED
  BY <1>7, <1>10

\* A fresh bucket, paused or not, is covered by a full one.
LEMMA NewCovers ==
    ASSUME Configured, NEW b \in Buckets
    PROVE  /\ NewBucket(b) \in Bucket /\ Covers(b, NewBucket(b), Full(b))
           /\ \A w \in Nat : Covers(b, Pause(NewBucket(b), w), Full(b))
<1> DEFINE k == NewBucket(b)
<1>1. k \in Bucket /\ k.tokens = Full(b) /\ k.age = 0 /\ k.pause = Nil
  BY DEF NewBucket, Bucket, Full, Configured
<1> HIDE DEF k
<1>2. Full(b) \in Nat /\ One \in Nat /\ Rate[b] \in Nat
  BY <1>1, Numbers
<1>3. k.age * Rate[b] = 0
  BY <1>1, <1>2
<1>4. Covers(b, k, Full(b))
  BY <1>1, <1>2, <1>3 DEF Covers, Owed, Min2
<1>5. ASSUME NEW w \in Nat PROVE Covers(b, Pause(k, w), Full(b))
  <2>1. Min2(Full(b), Full(b) + One) = Full(b)
    BY <1>2 DEF Min2
  <2>2. Covers(b, Pause(k, w), Min2(Full(b), Full(b) + One))
    BY <1>1, <1>4, PauseCovers
  <2> QED
    BY <2>1, <2>2, Zenon
<1> QED
  BY <1>1, <1>4, <1>5 DEF k

\* Refilling buckets keeps them covered.
LEMMA RefilledCredited ==
    ASSUME Configured, Types, Credited, NEW S, bucket' = Refilled(S), credit' = credit
    PROVE  Credited'
<1>1. Pausable \subseteq Buckets /\ \A b \in Buckets : bucket[b] \in Bucket
  BY DEF Pausable, Buckets, Types
<1>2. ASSUME NEW b \in Pausable PROVE Covers(b, bucket'[b], credit'[b])
  <2>1. Covers(b, bucket[b], credit[b]) /\ Covers(b, Refill(b, bucket[b]), credit[b])
    BY <1>1, RefillCovers, Zenon DEF Credited
  <2>2. bucket'[b] = bucket[b] \/ bucket'[b] = Refill(b, bucket[b])
    BY <1>1 DEF Refilled
  <2> QED
    BY <2>1, <2>2
<1> QED
  BY <1>2 DEF Credited, Covers, Owed

\* So does a report, which also credits the bucket that it pauses.
LEMMA LearnCredited ==
    ASSUME Configured, Types, Credited, NEW c \in Scopes, NEW w, NEW pause \in Nat,
           PauseScope(c, pause), Learn(c, w, pause)
    PROVE  Credited'
<1>1. /\ Pausable \subseteq Buckets /\ Place(c) \in Pausable
      /\ bucket \in [Buckets -> Bucket] /\ credit \in [Pausable -> Int]
  BY DEF Pausable, Buckets, Types, Place, Scopes, Credited
<1>2. /\ bucket' = [bucket EXCEPT ![Place(c)] = Pause(bucket[Place(c)], pause)]
      /\ credit' = [b \in Pausable |-> IF b = Place(c) THEN Min2(Full(b), credit[b] + One) ELSE credit[b]]
  BY DEF PauseScope, Learn
<1>3. ASSUME NEW b \in Pausable PROVE Covers(b, bucket'[b], credit'[b])
  <2>1. Covers(b, bucket[b], credit[b]) /\ bucket[b] \in Bucket /\ b \in Buckets
    BY <1>1 DEF Credited
  <2>2. CASE b = Place(c)
    <3>1. bucket'[b] = Pause(bucket[b], pause) /\ credit'[b] = Min2(Full(b), credit[b] + One)
      BY <1>1, <1>2, <2>2
    <3>2. Covers(b, Pause(bucket[b], pause), Min2(Full(b), credit[b] + One))
      BY <2>1, PauseCovers
    <3> QED
      BY <3>1, <3>2, Zenon
  <2>3. CASE b # Place(c)
    <3>1. bucket'[b] = bucket[b] /\ credit'[b] = credit[b]
      BY <1>1, <1>2, <2>3
    <3> QED
      BY <2>1, <3>1
  <2> QED
    BY <2>2, <2>3
<1>4. credit' \in [Pausable -> Int]
  BY <1>2, <1>3, Zenon DEF Covers
<1> QED
  BY <1>3, <1>4 DEF Credited, Covers, Owed

\* The step of one request.
LEMMA RequestCredited ==
    ASSUME Configured, Types, Pauses, Credited, NEW r \in Reqs,
           \/ \E call \in Calls[plane] : Arrive(r, call)
           \/ Proceed(r) \/ ClientGone(r)
    PROVE  Credited'
<1>1. CASE UNCHANGED <<bucket, credit>>
  BY <1>1 DEF Credited, Covers, Owed
<1>2. CASE TryAcquire(r)
  <2>1. PICK S : /\ \A b \in S : Has(Refill(b, bucket[b]))
                 /\ bucket' = [b \in Buckets |-> IF b \in S
                        THEN [Refill(b, bucket[b]) EXCEPT !.tokens = @ - One] ELSE bucket[b]]
                 /\ credit' = [b \in Pausable |-> IF b \in S THEN credit[b] - One ELSE credit[b]]
    BY <1>2, Zenon DEF TryAcquire, Granted
  <2>2. ASSUME NEW b \in Pausable PROVE Covers(b, bucket'[b], credit'[b])
    <3>1. b \in Buckets /\ bucket[b] \in Bucket /\ Covers(b, bucket[b], credit[b])
      BY Zenon DEF Pausable, Buckets, Types, Credited
    <3>2. CASE b \in S
      <4>1. /\ bucket'[b] = [Refill(b, bucket[b]) EXCEPT !.tokens = @ - One]
            /\ credit'[b] = credit[b] - One
        BY <2>1, <3>1, <3>2, Zenon
      <4>2. Covers(b, [Refill(b, bucket[b]) EXCEPT !.tokens = @ - One], credit[b] - One)
        BY <2>1, <3>1, <3>2, RefillCovers
      <4> QED
        BY <4>1, <4>2, Zenon
    <3>3. CASE b \notin S
      <4>1. bucket'[b] = bucket[b] /\ credit'[b] = credit[b]
        BY <2>1, <3>1, <3>3, Zenon
      <4> QED
        BY <3>1, <4>1, Zenon
    <3> QED
      BY <3>2, <3>3
  <2>3. credit' \in [Pausable -> Int]
    <3>1. One \in Int
      <4>1. One \in Nat
        BY Zenon DEF Configured
      <4> QED
        BY <4>1
    <3>2. credit \in [Pausable -> Int]
      BY Zenon DEF Credited
    <3>3. credit' = [b \in Pausable |-> IF b \in S THEN credit[b] - One ELSE credit[b]]
      BY <2>1, Zenon
    <3> QED
      BY <3>1, <3>2, <3>3
  <2> QED
    BY <2>2, <2>3 DEF Credited, Covers, Owed
<1>3. CASE Refused(r) \/ AskWaitTime(r)
  <2>1. PICK S : bucket' = Refilled(S)
    BY <1>3, Zenon DEF Refused, AskWaitTime
  <2>2. credit' = credit
    BY <1>3, Zenon DEF Refused, AskWaitTime, history
  <2> QED
    BY <2>1, <2>2, RefilledCredited
<1>4. ASSUME NEW type \in FloodTypes, NEW w \in Waits[req[r].chat], Flooded(r, type, w)
      PROVE  Credited'
  <2>1. req[r].chat \in Scopes
    BY DEF Types, Request
  <2>2. w \in Nat
    BY <2>1 DEF Configured
  <2>3. PICK c \in Scopes : c = req[r].chat
    BY <2>1
  <2>4. \/ UNCHANGED <<bucket, egress, history>>
        \/ \E pause \in Nat : PauseScope(c, pause) /\ Learn(c, w, pause)
    <3>1. CASE ReportFloodWait(c, type, w)
      BY <2>2, <3>1, FloodIs
    <3>2. CASE Report429(c, w)
      BY <2>2, <3>2 DEF Report429
    <3> QED
      BY <1>4, <2>3, <3>1, <3>2 DEF Flooded
  <2>5. CASE UNCHANGED <<bucket, egress, history>>
    BY <1>1, <2>5 DEF history
  <2> QED
    BY <2>4, <2>5, LearnCredited, Zenon
<1>5. ASSUME NEW call \in Calls[plane], Arrive(r, call) PROVE UNCHANGED <<bucket, credit>>
  BY <1>5 DEF Arrive, history
<1>6. ASSUME NEW ok \in BOOLEAN, Completed(r, ok) PROVE UNCHANGED <<bucket, credit>>
  BY <1>6 DEF Completed, history
<1>7. CASE CheckOptIn(r) \/ RecordBackoff(r) \/ ExitPaidLane(r) \/ ClientGone(r)
  BY <1>1, <1>7, Zenon DEF CheckOptIn, RecordBackoff, ExitPaidLane, ClientGone, guard, history
<1> QED
  BY <1>1, <1>2, <1>3, <1>4, <1>5, <1>6, <1>7, Zenon DEF Proceed

\* Every step keeps the buckets covered.
LEMMA CreditedStep ==
    ASSUME Configured, Types, Pauses, Credited, [Next]_vars
    PROVE  Credited'
<1>1. CASE UNCHANGED <<bucket, credit>>
  BY <1>1, Zenon DEF Credited, Covers, Owed
<1>2. /\ Pausable \subseteq Buckets /\ \A b \in Buckets : bucket[b] \in Bucket
      /\ \A b \in Pausable : Covers(b, bucket[b], credit[b])
  BY DEF Pausable, Buckets, Types, Credited
<1>3. ASSUME NEW S, bucket' = Refilled(S), UNCHANGED history PROVE Credited'
  BY <1>3, RefilledCredited DEF history
<1>4. CASE Snapshot \/ \E c \in Scopes : ChatSendState(c)
  BY <1>3, <1>4, Zenon DEF Snapshot, ChatSendState
<1>5. ASSUME NEW w \in Waits[Nil], PollFlooded(w) PROVE Credited'
  <2>1. Nil \in Scopes /\ w \in Nat
    BY DEF Configured, Scopes
  <2> QED
    BY <1>5, <2>1, LearnCredited DEF PollFlooded, Report429
<1>6. CASE PollSave \/ \E v \in BOOLEAN : SetPaid(v)
  BY <1>1, <1>6 DEF PollSave, SetPaid, guard, history
<1>7. CASE Tick
  <2> DEFINE aged(b) == [bucket[b] EXCEPT !.age = Min2(@ + 1, OldAge(b)), !.pause = Less(@)]
             more(b) == Min2(Full(b), credit[b] + Rate[b])
             filled(b) == [bucket[b] EXCEPT !.tokens = Min2(Full(b), @ + Rate[b])]
  <2>1. /\ bucket' = [b \in Buckets |-> IF b \in Pausable THEN aged(b) ELSE filled(b)]
        /\ credit' = [b \in Pausable |-> more(b)]
    BY <1>7, Zenon DEF Tick
  <2>2. ASSUME NEW b \in Pausable PROVE Covers(b, aged(b), more(b))
    BY <1>2, AgeCovers, Zenon
  <2> HIDE DEF aged, more, filled
  <2>3. ASSUME NEW b \in Pausable PROVE Covers(b, bucket'[b], credit'[b]) /\ more(b) \in Int
    <3>1. bucket'[b] = aged(b) /\ credit'[b] = more(b)
      BY <1>2, <2>1
    <3> QED
      BY <2>2, <3>1 DEF Covers
  <2>4. credit' \in [Pausable -> Int]
    BY <2>1, <2>3
  <2> QED
    BY <2>3, <2>4 DEF Credited, Covers, Owed
<1>8. CASE Restart
  <2> DEFINE left(c) == IF plane = "bot" THEN ledger[c] ELSE 0
             scope(b) == IF b = "global" THEN Nil ELSE b
  <2>1. /\ bucket' = [b \in Buckets |-> IF b \in Pausable /\ left(scope(b)) > 0
                        THEN Pause(NewBucket(b), left(scope(b))) ELSE NewBucket(b)]
        /\ credit' = [b \in Pausable |-> Full(b)]
    BY <1>8 DEF Restart, RestoreBackoffs
  <2>2. \A b \in Pausable : left(scope(b)) \in Nat
    BY DEF Types, Pausable, Scopes
  <2> HIDE DEF left, scope
  <2>3. ASSUME NEW b \in Pausable PROVE Covers(b, bucket'[b], credit'[b]) /\ Full(b) \in Int
    <3>1. credit'[b] = Full(b) /\ b \in Buckets
      BY <1>2, <2>1, Zenon
    <3>2. bucket'[b] = NewBucket(b) \/ bucket'[b] = Pause(NewBucket(b), left(scope(b)))
      BY <2>1, <3>1
    <3>3. Covers(b, NewBucket(b), Full(b)) /\ Covers(b, Pause(NewBucket(b), left(scope(b))), Full(b))
      BY <2>2, <3>1, NewCovers
    <3>4. Full(b) \in Int
      BY <3>3 DEF Covers
    <3> QED
      BY <3>1, <3>2, <3>3, <3>4, Zenon
  <2>4. credit' \in [Pausable -> Int]
    BY <2>1, <2>3
  <2> QED
    BY <2>3, <2>4 DEF Credited, Covers, Owed
<1>9. CASE UNCHANGED vars
  BY <1>1, <1>9 DEF vars, guard, history
<1> QED
  BY <1>4, <1>5, <1>6, <1>7, <1>8, <1>9, RequestCredited, Zenon DEF Next

\* WritesArePaced: however lazily the buckets are refilled, and by whatever
\* probes, a chat and the free lane never let through more than an eager token
\* bucket of the same rate and capacity, plus one write per pause.
THEOREM WritesArePaced == Spec => []Paced
<1>1. Init => Credited
  <2> SUFFICES ASSUME Init PROVE Credited
    OBVIOUS
  <2>1. Configured
    BY RateAssumption
  <2>2. bucket = [b \in Buckets |-> NewBucket(b)] /\ credit = [b \in Pausable |-> Full(b)]
    BY DEF Init
  <2>3. ASSUME NEW b \in Pausable PROVE Covers(b, bucket[b], credit[b]) /\ Full(b) \in Int
    <3>1. b \in Buckets
      BY DEF Pausable, Buckets
    <3>2. bucket[b] = NewBucket(b) /\ credit[b] = Full(b)
      BY <2>2, <3>1
    <3>3. Covers(b, NewBucket(b), Full(b))
      BY <2>1, <3>1, NewCovers
    <3>4. Full(b) \in Int
      BY <3>3 DEF Covers
    <3> QED
      BY <3>2, <3>3, <3>4, Zenon
  <2> QED
    BY <2>2, <2>3 DEF Credited
<1>2. Inv /\ Credited /\ [Next]_vars => Credited'
  <2> SUFFICES ASSUME Inv, Credited, [Next]_vars PROVE Credited'
    OBVIOUS
  <2>1. Configured
    BY RateAssumption
  <2>2. Types /\ Pauses
    BY DEF Inv, Types, Pauses
  <2> QED
    BY <2>1, <2>2, CreditedStep
<1>3. Credited => Paced
  BY DEF Credited, Covers, Paced
<1> QED
  BY <1>1, <1>2, <1>3, RateInvariant, PTL DEF Spec

-----------------------------------------------------------------------------
(* WaitTime agrees with TryAcquire *)

\* The maximum of up to four numbers.
LEMMA MaxZero ==
    ASSUME NEW a \in Nat, NEW b \in Nat, NEW c \in Nat, NEW d \in Nat
    PROVE  Max({a, b, c, d}) = 0 <=> a = 0 /\ b = 0 /\ c = 0 /\ d = 0
<1> DEFINE S == {a, b, c, d}
           P(x) == \A y \in S : x >= y
<1>1. \E x \in S : P(x)
  <2>1. PICK m \in {a, b} : m >= a /\ m >= b
    OBVIOUS
  <2>2. PICK n \in {c, d} : n >= c /\ n >= d
    OBVIOUS
  <2>3. CASE m >= n
    BY <2>1, <2>2, <2>3
  <2>4. CASE ~(m >= n)
    BY <2>1, <2>2, <2>4
  <2> QED
    BY <2>3, <2>4
<1>2. Max(S) = CHOOSE x \in S : P(x)
  BY DEF Max
<1>3. Max(S) \in S /\ P(Max(S))
  <2> HIDE DEF S, P
  <2> QED
    BY <1>1, <1>2, Zenon
<1> QED
  BY <1>3

\* A bucket is available now exactly when a refill lets it grant.
LEMMA AvailableNow ==
    ASSUME Configured, Types, NEW b \in Buckets
    PROVE  /\ NextAvailable(b) \in Nat
           /\ NextAvailable(b) = 0 <=> Has(Refill(b, bucket[b]))
<1> DEFINE k == Refill(b, bucket[b])
<1>1. bucket[b] \in Bucket
  BY DEF Types
<1>2. k \in Bucket
  BY <1>1, RefillKeeps
<1>3. /\ One \in Nat /\ One > 0 /\ Rate[b] \in Nat /\ Rate[b] > 0 /\ Nil \notin Nat
      /\ k.tokens \in Int /\ k.pause \in Nat \cup {Nil}
  BY <1>2, Numbers
<1>4. k.pause # 0
  <2>1. bucket[b].pause \in Nat \cup {Nil} /\ Nil \notin Nat
    BY <1>1, Numbers
  <2>2. k.pause = IF bucket[b].pause = 0 THEN Nil ELSE bucket[b].pause
    BY Zenon DEF Refill
  <2> QED
    BY <2>1, <2>2
<1>5. NextAvailable(b) = IF k.pause # Nil THEN k.pause
                         ELSE IF k.tokens >= One THEN 0
                         ELSE (One - k.tokens + Rate[b] - 1) \div Rate[b]
  BY DEF NextAvailable
<1>6. Has(k) <=> k.pause = Nil /\ k.tokens >= One
  BY DEF Has
<1> HIDE DEF k
<1>7. ASSUME ~(k.tokens >= One)
      PROVE  (One - k.tokens + Rate[b] - 1) \div Rate[b] \in Nat \ {0}
  <2>1. ASSUME NEW m \in Nat, NEW r \in Nat, r > 0, m >= r PROVE m \div r \in Nat \ {0}
    BY <2>1
  <2>2. One - k.tokens + Rate[b] - 1 \in Nat /\ One - k.tokens + Rate[b] - 1 >= Rate[b]
    BY <1>3, <1>7
  <2> QED
    BY <1>3, <2>1, <2>2
<1>8. /\ NextAvailable(b) \in Nat
      /\ NextAvailable(b) = 0 <=> Has(k)
  <2> DEFINE v == (One - k.tokens + Rate[b] - 1) \div Rate[b]
  <2>1. ~(k.tokens >= One) => v \in Nat \ {0}
    BY <1>7
  <2>2. NextAvailable(b) = IF k.pause # Nil THEN k.pause ELSE IF k.tokens >= One THEN 0 ELSE v
    BY <1>5
  <2> HIDE DEF v
  <2>3. CASE k.pause # Nil
    BY <1>3, <1>4, <1>6, <2>2, <2>3
  <2>4. CASE k.pause = Nil
    BY <1>3, <1>6, <2>1, <2>2, <2>4
  <2> QED
    BY <2>3, <2>4
<1> QED
  BY <1>8 DEF k

\* GuardAgrees: off the paid lane the wait that the guard announces is zero
\* exactly when it would let the request through.
THEOREM GuardAgrees == Spec => []WaitTimeExact
<1>1. Inv => WaitTimeExact
  <2> SUFFICES ASSUME Inv, NEW kind \in Kinds \ {"silent"}, NEW c \in Scopes, ~paidLane
               PROVE  Granted(kind, c) <=> WaitTime(kind, c) = 0
    BY DEF WaitTimeExact
  <2>1. Configured
    BY RateAssumption
  <2>2. Types
    BY DEF Inv
  <2>3. \A b \in Buckets : /\ NextAvailable(b) \in Nat
                           /\ NextAvailable(b) = 0 <=> Has(Refill(b, bucket[b]))
    BY <2>1, <2>2, AvailableNow
  <2>4. egress \in Nat /\ (c # Nil => c \in Chats /\ peer[c].pause \in Nat)
    BY <2>2 DEF Types, Scopes
  <2> DEFINE B == plane = "mt" /\ c # Nil
             x == IF B THEN peer[c].pause ELSE egress
             G == \A b \in Charged(kind, c) : Has(Refill(b, bucket[b]))
  <2>5. x \in Nat /\ (Blocked(c) <=> ~(egress = 0 /\ x = 0))
    BY <2>4 DEF Blocked
  <2>6. {egress} \cup (IF plane = "mt" THEN {peer[d].pause : d \in Known(c)} ELSE {}) = {egress, x}
    BY DEF Known
  <2> HIDE DEF x
  <2>7. WaitTime(kind, c) = Max({egress, x} \cup {NextAvailable(b) : b \in Asked(kind, c)})
    BY <2>6 DEF WaitTime
  <2>8. Granted(kind, c) <=> ~Blocked(c) /\ G
    BY DEF Granted
  <2>9. ASSUME NEW y \in Nat, NEW z \in Nat,
               {egress, x} \cup {NextAvailable(b) : b \in Asked(kind, c)} = {egress, x, y, z},
               egress = 0 /\ x = 0 => (G <=> y = 0 /\ z = 0)
        PROVE  Granted(kind, c) <=> WaitTime(kind, c) = 0
    <3>1. WaitTime(kind, c) = Max({egress, x, y, z})
      BY <2>7, <2>9, Zenon
    <3>2. Max({egress, x, y, z}) = 0 <=> egress = 0 /\ x = 0 /\ y = 0 /\ z = 0
      <4>1. egress \in Nat /\ x \in Nat
        BY <2>4, <2>5
      <4> QED
        BY <4>1, MaxZero
    <3> HIDE DEF G
    <3> QED
      BY <2>5, <2>8, <2>9, <3>1, <3>2
  <2>10. CASE kind = "fast"
    <3>1. Asked(kind, c) = {} /\ Charged(kind, c) = {}
      BY <2>10 DEF Asked, Charged
    <3>2. {egress, x} \cup {NextAvailable(b) : b \in Asked(kind, c)} = {egress, x, egress, x}
      BY <3>1
    <3> QED
      BY <2>4, <2>5, <2>9, <3>1, <3>2, Zenon
  <2>11. CASE kind = "read"
    <3>1. Asked(kind, c) = {"reads"} /\ Charged(kind, c) = {"reads"}
      BY <2>11 DEF Asked, Charged
    <3>2. "reads" \in Buckets
      BY DEF Buckets
    <3>3. {egress, x} \cup {NextAvailable(b) : b \in Asked(kind, c)}
            = {egress, x, NextAvailable("reads"), NextAvailable("reads")}
      BY <3>1
    <3>4. G <=> Has(Refill("reads", bucket["reads"]))
      BY <3>1
    <3> QED
      BY <2>3, <2>9, <3>2, <3>3, <3>4, Zenon
  <2>12. CASE kind = "write"
    <3>1. Asked(kind, c) = {"global"} \cup Known(c) /\ Charged(kind, c) = {"global"} \cup Known(c)
      BY <2>12 DEF Asked, Charged, LaneBucket
    <3> DEFINE d == IF c = Nil THEN "global" ELSE c
    <3>2. {"global"} \cup Known(c) = {"global", d} /\ d \in Buckets /\ "global" \in Buckets
      BY <2>4 DEF Known, Buckets
    <3> HIDE DEF d
    <3>3. Asked(kind, c) = {"global", d} /\ Charged(kind, c) = {"global", d}
      BY <3>1, <3>2
    <3>4. {egress, x} \cup {NextAvailable(b) : b \in Asked(kind, c)}
            = {egress, x, NextAvailable("global"), NextAvailable(d)}
      BY <3>3
    <3>5. G <=> Has(Refill("global", bucket["global"])) /\ Has(Refill(d, bucket[d]))
      BY <3>3
    <3> QED
      BY <2>3, <2>9, <3>2, <3>4, <3>5, Zenon
  <2> QED
    BY <2>10, <2>11, <2>12 DEF Kinds
<1> QED
  BY <1>1, RateInvariant, PTL

=============================================================================
