--------------------------- MODULE MTUpdatesProofs ---------------------------
(***************************************************************************)
(* The update path of an MTProto session, for any number of updates,       *)
(* pushes, replicas, consumers, crashes and failing statements: what the   *)
(* acknowledgements delete, and which rows share a number.                 *)
(***************************************************************************)
EXTENDS MTUpdates, TLAPS

\* A numbered update, as it is stored, queued and handed out.
Record == [seq : Nat \ {0}, u : Nat]
PushCalls == [pc : {"idle", "store", "belt", "full", "again", "send"},
              rec : Record \cup {Nil}, to : SUBSET Sockets]
PullCalls == {c \in [pc : {"idle", "poll", "answer", "drain"}, got : Seq(Record)] :
                 c.pc = "answer" => c.got # <<>>}

\* A push whose update is not yet stored, and one that still holds its update.
Storing(p) == push[p].pc = "store"
Carrying(p) == push[p].pc \in {"store", "belt", "full", "again"}

FlowTypes ==
    /\ mode \in {"offset", "legacy"} /\ phase \in {"down", "pull", "raise", "fill", "up"}
    /\ backlog \in [rest : Seq(Record), whole : BOOLEAN]
    /\ loaded \in BOOLEAN /\ nextSeq \in Nat /\ top \in Nat /\ sent \in Nat
    /\ rows \subseteq Record /\ belt \in Seq(Record)
    /\ push \in [Pushers -> PushCalls]
    /\ cursor \in [Replicas -> Nat \ {0}]
    /\ pull \in [Replicas -> PullCalls]
    /\ sweep \in [at : {"off", "take", "put"}, old : SUBSET aged, kept : Seq(Record)]
    /\ phase = "fill" => backlog.rest # <<>>
    /\ phase \in {"down", "pull", "up"} => backlog.rest = <<>>
    /\ \A p \in Pushers : Carrying(p) => push[p].rec \in Record

-----------------------------------------------------------------------------
(* The operators. *)

\* What a sequence's elements are, and how a queue's change as it moves.
LEMMA RangeMoves ==
    ASSUME NEW S, NEW s \in Seq(S)
    PROVE  /\ Range(s) \subseteq S
           /\ \A x \in S : Append(s, x) \in Seq(S) /\ Range(Append(s, x)) = Range(s) \cup {x}
           /\ s # <<>> => /\ Head(s) \in S /\ Tail(s) \in Seq(S) /\ Head(s) \in Range(s)
                          /\ Range(s) = Range(Tail(s)) \cup {Head(s)}
                          /\ Len(s) > 0 /\ s[Len(s)] \in S
<1>1. Range(s) = {s[i] : i \in 1 .. Len(s)}
  BY DEF Range
<1>2. Range(s) \subseteq S
  BY <1>1
<1>3. ASSUME NEW x \in S PROVE Append(s, x) \in Seq(S) /\ Range(Append(s, x)) = Range(s) \cup {x}
  <2>1. Append(s, x) \in Seq(S) /\ Len(Append(s, x)) = Len(s) + 1
    OBVIOUS
  <2>2. Range(Append(s, x)) = {Append(s, x)[i] : i \in 1 .. Len(s) + 1}
    BY <2>1 DEF Range
  <2>3. /\ \A i \in 1 .. Len(s) : Append(s, x)[i] = s[i]
        /\ Append(s, x)[Len(s) + 1] = x
    OBVIOUS
  <2>4. Range(Append(s, x)) \subseteq Range(s) \cup {x}
    BY <1>1, <2>2, <2>3
  <2>5. Range(s) \subseteq Range(Append(s, x))
    BY <1>1, <2>2, <2>3
  <2>6. x \in Range(Append(s, x))
    BY <2>2, <2>3
  <2> QED
    BY <2>1, <2>4, <2>5, <2>6
<1>4. ASSUME s # <<>>
      PROVE  /\ Head(s) \in S /\ Tail(s) \in Seq(S) /\ Head(s) \in Range(s)
             /\ Range(s) = Range(Tail(s)) \cup {Head(s)}
             /\ Len(s) > 0 /\ s[Len(s)] \in S
  <2>1. /\ Head(s) = s[1] /\ Tail(s) \in Seq(S) /\ Len(s) > 0 /\ Len(Tail(s)) = Len(s) - 1
        /\ s[Len(s)] \in S
    BY <1>4
  <2>2. Range(Tail(s)) = {Tail(s)[i] : i \in 1 .. Len(s) - 1}
    <3>1. DOMAIN Tail(s) = 1 .. Len(s) - 1
      BY <2>1
    <3> QED
      BY <3>1, Zenon DEF Range
  <2>3. \A i \in 1 .. Len(s) - 1 : Tail(s)[i] = s[i + 1]
    BY <1>4
  <2>4. ASSUME NEW i \in 1 .. Len(s), i # 1 PROVE s[i] \in Range(Tail(s))
    <3>1. i - 1 \in 1 .. Len(s) - 1 /\ s[i] = Tail(s)[i - 1]
      BY <2>1, <2>3, <2>4
    <3> QED
      BY <2>2, <3>1, Zenon
  <2>5. Range(s) \subseteq Range(Tail(s)) \cup {Head(s)}
    BY <1>1, <2>1, <2>4
  <2>6. Range(Tail(s)) \cup {Head(s)} \subseteq Range(s)
    BY <1>1, <2>1, <2>2, <2>3
  <2> QED
    BY <1>2, <2>1, <2>5, <2>6
<1> QED
  BY <1>2, <1>3, <1>4

\* Only a single element leaves nothing behind.
LEMMA LongTail ==
    ASSUME NEW S, NEW s \in Seq(S), s # <<>>
    PROVE  Len(s) # 1 <=> Tail(s) # <<>>
<1> DEFINE t == Tail(s)
<1>1. t \in Seq(S) /\ Len(t) = Len(s) - 1 /\ Len(s) \in Nat /\ Len(s) > 0
  OBVIOUS
<1> HIDE DEF t
<1>2. Len(s) # 1 => t # <<>>
  BY <1>1
<1>3. Len(s) = 1 => t = <<>>
  BY <1>1
<1> QED
  BY <1>2, <1>3, Zenon DEF t

\* What QueuePullRaw returns: numbered rows above the offset, in order, and
\* nothing that is left out comes before them.
LEMMA PullSound ==
    ASSUME FlowTypes, NEW offset \in Nat, NEW n \in Nat, NEW s \in QueuePull(offset, n)
    PROVE  /\ s \in Seq(Record) /\ Range(s) \subseteq rows
           /\ \A x \in Range(s) : x.seq > offset
           /\ s # <<>> => /\ s[Len(s)] \in Range(s)
                          /\ \A x \in Range(s) : x.seq <= s[Len(s)].seq
                          /\ \A y \in rows : y.seq > offset /\ y \notin Range(s)
                                => s[Len(s)].seq <= y.seq
<1> DEFINE above == {x \in rows : x.seq > offset}
<1>1. PICK k \in 0 .. n : s \in [1 .. k -> above]
  BY Zenon DEF QueuePull
<1>2. s \in Seq(above) /\ Len(s) = k /\ DOMAIN s = 1 .. k
  BY <1>1
<1>3. above \subseteq rows /\ above \subseteq Record
  BY Zenon DEF FlowTypes
<1>4. Range(s) \subseteq above
  BY <1>2, RangeMoves, Zenon
<1>5. s \in Seq(Record)
  BY <1>2, <1>3
<1>6. /\ \A i, j \in DOMAIN s : i < j => s[i].seq <= s[j].seq
      /\ \A i \in DOMAIN s, y \in above \ Range(s) : s[i].seq <= y.seq
  BY Zenon DEF QueuePull
<1>7. ASSUME s # <<>>
      PROVE  /\ s[Len(s)] \in Range(s)
             /\ \A x \in Range(s) : x.seq <= s[Len(s)].seq
             /\ \A y \in rows : y.seq > offset /\ y \notin Range(s) => s[Len(s)].seq <= y.seq
  <2>1. k \in 1 .. n
    BY <1>2, <1>7
  <2>2. s[k] \in Range(s)
    BY <1>2, <2>1 DEF Range
  <2>3. ASSUME NEW i \in 1 .. k PROVE s[i].seq <= s[k].seq
    <3>1. CASE i = k
      <4>1. s[k] \in Record
        BY <1>3, <1>4, <2>2, Zenon
      <4> QED
        BY <3>1, <4>1 DEF Record
    <3>2. CASE i < k
      BY <3>2, <1>2, <1>6, <2>1
    <3> QED
      BY <3>1, <3>2
  <2>4. \A x \in Range(s) : x.seq <= s[k].seq
    BY <2>3, <1>2, Zenon DEF Range
  <2>5. \A y \in above \ Range(s) : s[k].seq <= y.seq
    BY <1>2, <1>6, <2>1
  <2> QED
    BY <1>2, <2>2, <2>4, <2>5, Zenon
<1> QED
  BY <1>3, <1>4, <1>5, <1>7, Zenon

\* The values of rest, and what a push becomes.
LEMMA Rests ==
    /\ Quiet \in PushCalls /\ NoCall \in PullCalls
    /\ NoBacklog \in [rest : Seq(Record), whole : BOOLEAN]
    /\ \A A : NoSweep \in [at : {"off", "take", "put"}, old : SUBSET A, kept : Seq(Record)]
    /\ Snapshot \in PushCalls /\ Snapshot.pc \in {"idle", "send"}
    /\ \A to \in SUBSET Sockets : SendTo(to) \in PushCalls /\ SendTo(to).pc \in {"idle", "send"}
    /\ Quiet.pc = "idle" /\ NoCall.pc = "idle" /\ NoCall.got = <<>> /\ NoBacklog.rest = <<>>
<1>1. <<>> \in Seq(Record)
  OBVIOUS
<1>2. /\ Quiet \in PushCalls /\ NoCall \in PullCalls
      /\ NoBacklog \in [rest : Seq(Record), whole : BOOLEAN]
      /\ \A A : NoSweep \in [at : {"off", "take", "put"}, old : SUBSET A, kept : Seq(Record)]
  BY <1>1 DEF Quiet, NoCall, NoBacklog, NoSweep, PushCalls, PullCalls
<1>3. \A to \in SUBSET Sockets : SendTo(to) \in PushCalls /\ SendTo(to).pc \in {"idle", "send"}
  BY <1>2, Zenon DEF SendTo, Quiet, PushCalls
<1>4. Snapshot \in PushCalls /\ Snapshot.pc \in {"idle", "send"}
  BY <1>3, Zenon DEF Snapshot
<1> QED
  BY <1>2, <1>3, <1>4, Zenon DEF Quiet, NoCall, NoBacklog

\* A send that does not wait puts its record on the belt, or leaves the belt alone.
LEMMA OfferMoves ==
    ASSUME FlowTypes, NEW r \in Record, Offer(r)
    PROVE  /\ belt' \in Seq(Record)
           /\ \/ Range(belt') = Range(belt) \cup {r} /\ evicted' = evicted
              \/ belt' = belt /\ Evict({r.u})
<1>1. belt \in Seq(Record)
  BY Zenon DEF FlowTypes
<1>2. Append(belt, r) \in Seq(Record) /\ Range(Append(belt, r)) = Range(belt) \cup {r}
  BY <1>1, RangeMoves
<1>3. \/ belt' = Append(belt, r) /\ evicted' = evicted
      \/ belt' = belt /\ Evict({r.u})
  BY Zenon DEF Offer
<1> QED
  BY <1>1, <1>2, <1>3, Zenon

-----------------------------------------------------------------------------
(* Types. *)

\* startClient keeps the types.
LEMMA ClientTypes ==
    ASSUME FlowTypes, Connect \/ ReplayPull \/ ReplayRaise \/ ReplayPut \/ Reconnect
    PROVE  FlowTypes'
<1> USE DEF FlowTypes, Carrying, Event, env, history
<1>1. CASE Connect
  BY <1>1, Zenon DEF Connect
<1>2. CASE ReplayPull
  <2>1. CASE UNCHANGED backlog /\ phase' = "up"
    BY <1>2, <2>1, Zenon DEF ReplayPull
  <2>2. ASSUME NEW s \in QueuePull(0, ReplayLimit),
               backlog' = [rest |-> s, whole |-> Range(s) = rows], phase' = "raise"
        PROVE  FlowTypes'
    <3>1. s \in Seq(Record)
      BY PullSound, MTUpdatesAssumption, Zenon
    <3>2. backlog' \in [rest : Seq(Record), whole : BOOLEAN]
      BY <2>2, <3>1, Zenon
    <3> QED
      BY <1>2, <2>2, <3>2, Zenon DEF ReplayPull
  <2> QED
    BY <1>2, <2>1, <2>2, Zenon DEF ReplayPull
<1>3. CASE ReplayRaise
  <2>1. nextSeq' \in Nat
    <3>1. backlog.rest \in Seq(Record)
      BY Zenon
    <3>2. backlog.rest # <<>> => backlog.rest[Len(backlog.rest)] \in Record
      BY <3>1, RangeMoves, Zenon
    <3>3. \A x \in Record : x.seq \in Nat
      BY Zenon DEF Record
    <3> QED
      BY <1>3, <3>2, <3>3, Zenon DEF ReplayRaise
  <2>2. loaded' \in BOOLEAN /\ backlog' \in [rest : Seq(Record), whole : BOOLEAN]
    BY <1>3, Zenon DEF ReplayRaise
  <2>3. /\ phase' \in {"fill", "up"} /\ (phase' = "fill" => backlog'.rest # <<>>)
        /\ phase' = "up" => backlog'.rest = <<>>
    BY <1>3 DEF ReplayRaise
  <2> QED
    BY <1>3, <2>1, <2>2, <2>3, Zenon DEF ReplayRaise
<1>4. CASE ReplayPut
  <2>1. /\ backlog.rest \in Seq(Record) /\ backlog.rest # <<>>
        /\ Head(backlog.rest) \in Record /\ Tail(backlog.rest) \in Seq(Record)
    BY <1>4, RangeMoves, Zenon DEF ReplayPut
  <2>2. backlog' \in [rest : Seq(Record), whole : BOOLEAN] /\ backlog'.rest = Tail(backlog.rest)
    BY <1>4, <2>1, Zenon DEF ReplayPut
  <2>3. belt' \in Seq(Record)
    BY <1>4, <2>1, OfferMoves, Zenon DEF ReplayPut
  <2>4. /\ phase' \in {"fill", "up"} /\ (phase' = "fill" => Tail(backlog.rest) # <<>>)
        /\ phase' = "up" => Tail(backlog.rest) = <<>>
    <3>1. Len(backlog.rest) # 1 <=> Tail(backlog.rest) # <<>>
      BY <2>1, LongTail, Zenon
    <3> QED
      BY <1>4, <3>1, Zenon DEF ReplayPut
  <2> QED
    BY <1>4, <2>2, <2>3, <2>4, Zenon DEF ReplayPut
<1>5. CASE Reconnect
  BY <1>5, Zenon DEF Reconnect
<1> QED
  BY <1>1, <1>2, <1>3, <1>4, <1>5, Zenon

\* A push that moves on keeps the types.
LEMMA PushMoves ==
    ASSUME FlowTypes, NEW p \in Pushers, NEW c \in PushCalls, push' = [push EXCEPT ![p] = c],
           c.pc \in {"store", "belt", "full", "again"} => c.rec \in Record
    PROVE  /\ push' \in [Pushers -> PushCalls] /\ push'[p] = c
           /\ \A q \in Pushers : q # p => push'[q] = push[q]
           /\ \A q \in Pushers : Carrying(q)' => push'[q].rec \in Record
<1>1. push \in [Pushers -> PushCalls]
  BY Zenon DEF FlowTypes
<1>2. push' \in [Pushers -> PushCalls] /\ push'[p] = c
  BY <1>1, Zenon
<1>3. \A q \in Pushers : q # p => push'[q] = push[q]
  BY <1>1, Zenon
<1>4. ASSUME NEW q \in Pushers, Carrying(q)' PROVE push'[q].rec \in Record
  <2>1. CASE q = p
    BY <1>2, <1>4, <2>1, Zenon DEF Carrying
  <2>2. CASE q # p
    BY <1>3, <1>4, <2>2, Zenon DEF Carrying, FlowTypes
  <2> QED
    BY <2>1, <2>2, Zenon
<1> QED
  BY <1>2, <1>3, <1>4, Zenon

\* pushUpdate keeps the types.
LEMMA PushTypes ==
    ASSUME FlowTypes, NEW p \in Pushers,
           \/ Draw(p) \/ DeadLetter(p) \/ QueuePush(p) \/ PersistFails(p)
           \/ Belt(p) \/ DropOldest(p) \/ BeltAgain(p)
    PROVE  FlowTypes'
<1> DEFINE c == push'[p]
           Rest == UNCHANGED <<mode, phase, backlog, loaded, top, cursor, pull, sweep, aged>>
<1>0. push \in [Pushers -> PushCalls] /\ push[p] \in PushCalls
  BY Zenon DEF FlowTypes
<1>1. /\ push' = [push EXCEPT ![p] = c] /\ c \in PushCalls
      /\ c.pc \in {"store", "belt", "full", "again"} => c.rec \in Record
  <2>1. CASE Draw(p)
    <3>1. push' = [push EXCEPT ![p] =
              [Quiet EXCEPT !.pc = "store", !.rec = [seq |-> nextSeq + 1, u |-> sent + 1]]]
      BY <2>1, Zenon DEF Draw
    <3>2. c = [pc |-> "store", rec |-> [seq |-> nextSeq + 1, u |-> sent + 1], to |-> {}]
      BY <1>0, <3>1, Zenon DEF Quiet
    <3>3. [seq |-> nextSeq + 1, u |-> sent + 1] \in Record
      BY DEF FlowTypes, Record
    <3> QED
      BY <1>0, <3>1, <3>2, <3>3, Zenon DEF PushCalls
  <2>2. CASE DeadLetter(p)
    BY <1>0, <2>2, Rests, Zenon DEF DeadLetter
  <2>3. CASE push' = [push EXCEPT ![p] = Snapshot]
    BY <1>0, <2>3, Rests, Zenon
  <2>4. ASSUME NEW pc \in {"belt", "full", "again"}, Carrying(p),
               push' = [push EXCEPT ![p].pc = pc]
        PROVE  /\ push' = [push EXCEPT ![p] = c] /\ c \in PushCalls
               /\ c.pc \in {"store", "belt", "full", "again"} => c.rec \in Record
    <3>1. c = [push[p] EXCEPT !.pc = pc] /\ push' = [push EXCEPT ![p] = c]
      BY <1>0, <2>4, Zenon
    <3>2. push[p].rec \in Record
      BY <2>4, Zenon DEF FlowTypes
    <3> QED
      BY <1>0, <3>1, <3>2 DEF PushCalls
  <2>5. CASE QueuePush(p) \/ PersistFails(p)
    BY <2>4, <2>5, Zenon DEF QueuePush, PersistFails, Carrying
  <2>6. CASE Belt(p)
    BY <2>3, <2>4, <2>6, Zenon DEF Belt, Carrying
  <2>7. CASE DropOldest(p)
    BY <2>4, <2>7, Zenon DEF DropOldest, Carrying
  <2>8. CASE BeltAgain(p)
    BY <2>3, <2>8, Zenon DEF BeltAgain
  <2> QED
    BY <2>1, <2>2, <2>5, <2>6, <2>7, <2>8
<1>2. /\ push' \in [Pushers -> PushCalls]
      /\ \A q \in Pushers : Carrying(q)' => push'[q].rec \in Record
  BY <1>1, PushMoves, Zenon
<1>3. Rest
  BY Zenon DEF Draw, DeadLetter, QueuePush, PersistFails, Belt, DropOldest, BeltAgain, env, history
<1>4. nextSeq' \in Nat /\ sent' \in Nat
  BY DEF FlowTypes, Draw, DeadLetter, QueuePush, PersistFails, Belt, DropOldest, BeltAgain, env
<1>5. rows' \subseteq Record
  <2>1. CASE QueuePush(p)
    BY <2>1, Zenon DEF QueuePush, FlowTypes, Carrying
  <2>2. CASE ~QueuePush(p)
    BY <2>2, Zenon DEF FlowTypes, Draw, DeadLetter, PersistFails, Belt, DropOldest, BeltAgain
  <2> QED
    BY <2>1, <2>2, Zenon
<1>6. belt' \in Seq(Record)
  <2>1. belt \in Seq(Record) /\ (belt # <<>> => Tail(belt) \in Seq(Record))
    BY RangeMoves, Zenon DEF FlowTypes
  <2>2. Carrying(p) => /\ push[p].rec \in Record
                       /\ Append(belt, push[p].rec) \in Seq(Record)
    BY <2>1, RangeMoves, Zenon DEF FlowTypes
  <2>3. CASE Belt(p)
    BY <2>1, <2>2, <2>3, Zenon DEF Belt, Carrying
  <2>4. CASE DropOldest(p)
    BY <2>1, <2>4, Zenon DEF DropOldest
  <2>5. CASE BeltAgain(p)
    BY <2>2, <2>5, OfferMoves, Zenon DEF BeltAgain, Carrying
  <2>6. CASE Draw(p) \/ DeadLetter(p) \/ QueuePush(p) \/ PersistFails(p)
    BY <2>1, <2>6, Zenon DEF Draw, DeadLetter, QueuePush, PersistFails
  <2> QED
    BY <2>3, <2>4, <2>5, <2>6, Zenon
<1> QED
  BY <1>2, <1>3, <1>4, <1>5, <1>6, Zenon DEF FlowTypes

\* The death of the process, and a new one, keep the types.
LEMMA NewTypes ==
    ASSUME FlowTypes, NewProcess, UNCHANGED <<mode, top, sent, rows, cursor, aged>>
    PROVE  FlowTypes'
<1>1. \A p \in Pushers : push'[p] = Quiet
  BY Zenon DEF NewProcess
<1>2. /\ push' \in [Pushers -> PushCalls]
      /\ \A p \in Pushers : Carrying(p)' => push'[p].rec \in Record
  BY <1>1, Rests, Zenon DEF NewProcess, Carrying
<1>3. pull' \in [Replicas -> PullCalls]
  BY Rests, Zenon DEF NewProcess
<1>4. /\ backlog' \in [rest : Seq(Record), whole : BOOLEAN]
      /\ sweep' \in [at : {"off", "take", "put"}, old : SUBSET aged', kept : Seq(Record)]
  BY Rests, Zenon DEF NewProcess
<1>5. loaded' \in BOOLEAN /\ nextSeq' \in Nat /\ phase' = "down" /\ backlog'.rest = <<>>
  BY Rests, Zenon DEF NewProcess
<1>7. belt' \in Seq(Record)
  <2>1. belt' = <<>>
    BY Zenon DEF NewProcess
  <2> QED
    BY <2>1
<1>6. /\ mode' \in {"offset", "legacy"} /\ top' \in Nat /\ sent' \in Nat
      /\ rows' \subseteq Record /\ cursor' \in [Replicas -> Nat \ {0}]
  BY Zenon DEF FlowTypes
<1> QED
  BY <1>2, <1>3, <1>4, <1>5, <1>6, <1>7, Zenon DEF FlowTypes

\* The fan-out to the WebSocket consumers keeps the types.
LEMMA SendTypes ==
    ASSUME FlowTypes, NEW p \in Pushers, NEW c \in Sockets, Send(p, c)
    PROVE  FlowTypes'
<1>1. CASE NewProcess
  BY <1>1, NewTypes, Zenon DEF Send, history
<1>2. CASE ~NewProcess
  <2> DEFINE d == SendTo(push[p].to \ {c})
  <2>1. push[p] \in PushCalls
    BY Zenon DEF FlowTypes
  <2>2. push' = [push EXCEPT ![p] = d]
    BY <1>2, Zenon DEF Send
  <2>3. push[p].to \ {c} \in SUBSET Sockets
    BY <2>1 DEF PushCalls
  <2>5. d \in PushCalls /\ d.pc \in {"idle", "send"}
    BY <2>3, Rests, Zenon
  <2> HIDE DEF d
  <2>6. /\ push' \in [Pushers -> PushCalls]
        /\ \A q \in Pushers : Carrying(q)' => push'[q].rec \in Record
    BY <2>2, <2>5, PushMoves, Zenon
  <2> QED
    BY <1>2, <2>6, Zenon DEF Send, FlowTypes, history
<1> QED
  BY <1>1, <1>2

\* An acknowledgement only deletes, below the number it is given.
LEMMA AckMoves ==
    ASSUME NEW n, Ack(n)
    PROVE  /\ rows' \subseteq rows
           /\ \/ UNCHANGED <<rows, lost>>
              \/ QueueAck(n)
BY Zenon DEF Ack, QueueAck

\* A getUpdates call that moves on keeps the types.
LEMMA PullMoves ==
    ASSUME FlowTypes, NEW r \in Replicas, NEW c \in PullCalls, pull' = [pull EXCEPT ![r] = c]
    PROVE  /\ pull' \in [Replicas -> PullCalls] /\ pull'[r] = c
           /\ \A q \in Replicas : q # r => pull'[q] = pull[q]
BY Zenon DEF FlowTypes

\* getUpdates keeps the types.
LEMMA PullTypes ==
    ASSUME FlowTypes, NEW r \in Replicas,
           \/ AckBelow(r) \/ PullRaw(r) \/ GiveUp(r) \/ DrainUpdateCh(r)
           \/ AckDrained(r) \/ Receive(r) \/ AnswerLost(r)
    PROVE  FlowTypes'
<1> DEFINE Rest == UNCHANGED <<mode, phase, backlog, loaded, nextSeq, sent, push, sweep, aged>>
<1>0. /\ pull \in [Replicas -> PullCalls] /\ pull[r] \in PullCalls /\ pull[r].got \in Seq(Record)
      /\ belt \in Seq(Record) /\ rows \subseteq Record /\ top \in Nat
      /\ cursor \in [Replicas -> Nat \ {0}] /\ cursor[r] - 1 \in Nat
      /\ \A x \in Record : x.seq \in Nat \ {0}
  <2>1. /\ pull \in [Replicas -> PullCalls] /\ pull[r] \in PullCalls /\ pull[r].got \in Seq(Record)
        /\ belt \in Seq(Record) /\ rows \subseteq Record /\ top \in Nat
        /\ cursor \in [Replicas -> Nat \ {0}] /\ cursor[r] \in Nat \ {0}
        /\ \A x \in Record : x.seq \in Nat \ {0}
    BY Zenon DEF FlowTypes, PullCalls, Record
  <2>2. cursor[r] - 1 \in Nat
    BY <2>1
  <2> QED
    BY <2>1, <2>2, Zenon
<1>1. CASE AckBelow(r)
  <2>1. /\ pull' = [pull EXCEPT ![r].pc = "poll"] /\ Ack(cursor[r] - 1)
        /\ UNCHANGED <<belt, top, cursor>>
    BY <1>1, Zenon DEF AckBelow
  <2>2. pull' \in [Replicas -> PullCalls]
    BY <1>0, <2>1, Zenon DEF PullCalls
  <2>3. rows' \subseteq Record
    BY <1>0, <2>1, AckMoves, Zenon
  <2>4. Rest
    BY <1>1, Zenon DEF AckBelow
  <2> QED
    BY <1>0, <2>1, <2>2, <2>3, <2>4, Zenon DEF FlowTypes, Carrying
<1>2. CASE PullRaw(r)
  <2>1. PICK got \in QueuePull(cursor[r] - 1, Limit) : Answer(r, got)
    BY <1>2, Zenon DEF PullRaw
  <2>2. got \in Seq(Record) /\ got # <<>>
    BY <1>0, <2>1, PullSound, MTUpdatesAssumption, Zenon DEF Answer
  <2>3. [pc |-> "answer", got |-> got] \in PullCalls
    BY <2>2, Zenon DEF PullCalls
  <2>4. pull' \in [Replicas -> PullCalls]
    BY <2>1, <2>3, PullMoves, Zenon DEF Answer
  <2>5. got[Len(got)] \in Record
    BY <2>2, RangeMoves, Zenon
  <2>6. top' \in Nat
    BY <1>0, <2>1, <2>5, Zenon DEF Answer
  <2>7. Rest /\ UNCHANGED <<rows, belt, cursor>>
    BY <2>1, Zenon DEF Answer, env
  <2> QED
    BY <2>4, <2>6, <2>7, Zenon DEF FlowTypes, Carrying
<1>3. CASE GiveUp(r) \/ AnswerLost(r)
  <2>1. pull' \in [Replicas -> PullCalls]
    BY <1>3, PullMoves, Rests, Zenon DEF GiveUp, AnswerLost
  <2> QED
    BY <1>3, <2>1, Zenon DEF GiveUp, AnswerLost, FlowTypes, Carrying, env, history
<1>4. CASE DrainUpdateCh(r)
  <2> DEFINE g == Append(pull[r].got, Head(belt))
  <2>1. pull' = [pull EXCEPT ![r] = [pc |-> "drain", got |-> g]]
    BY <1>4, Zenon DEF DrainUpdateCh
  <2>2. belt # <<>> /\ Head(belt) \in Record /\ Tail(belt) \in Seq(Record)
    BY <1>0, <1>4, RangeMoves, Zenon DEF DrainUpdateCh
  <2>3. g \in Seq(Record)
    BY <1>0, <2>2, RangeMoves
  <2> HIDE DEF g
  <2>4. [pc |-> "drain", got |-> g] \in PullCalls
    BY <2>3, Zenon DEF PullCalls
  <2>5. pull' \in [Replicas -> PullCalls]
    BY <2>1, <2>4, PullMoves, Zenon
  <2>6. belt' \in Seq(Record)
    BY <1>4, <2>2, Zenon DEF DrainUpdateCh
  <2>7. Rest /\ UNCHANGED <<rows, top, cursor>>
    BY <1>4, Zenon DEF DrainUpdateCh, env
  <2> QED
    BY <2>5, <2>6, <2>7, Zenon DEF FlowTypes, Carrying
<1>5. CASE AckDrained(r)
  <2>1. pull' = [pull EXCEPT ![r] = NoCall] /\ Ack(Max(Seqs(Range(pull[r].got))))
    BY <1>5, Zenon DEF AckDrained
  <2>2. pull' \in [Replicas -> PullCalls]
    BY <2>1, PullMoves, Rests, Zenon
  <2>3. rows' \subseteq Record
    BY <1>0, <2>1, AckMoves, Zenon
  <2>4. Rest /\ UNCHANGED <<belt, top, cursor>>
    BY <1>5, Zenon DEF AckDrained
  <2> QED
    BY <2>2, <2>3, <2>4, Zenon DEF FlowTypes, Carrying
<1>6. CASE Receive(r)
  <2>1. pull' \in [Replicas -> PullCalls]
    BY <1>6, PullMoves, Rests, Zenon DEF Receive
  <2>2. pull[r].got[Len(pull[r].got)] \in Record
    BY <1>0, <1>6, RangeMoves, Zenon DEF Receive, PullCalls
  <2>3. cursor' \in [Replicas -> Nat \ {0}]
    <3> DEFINE n == pull[r].got[Len(pull[r].got)].seq + 1
    <3>1. cursor' = [cursor EXCEPT ![r] = n]
      BY <1>6, Zenon DEF Receive
    <3>2. n \in Nat \ {0}
      BY <1>0, <2>2
    <3> HIDE DEF n
    <3> QED
      BY <1>0, <3>1, <3>2
  <2>4. Rest /\ UNCHANGED <<rows, belt, top>>
    BY <1>6, Zenon DEF Receive, env
  <2> QED
    BY <2>1, <2>3, <2>4, Zenon DEF FlowTypes, Carrying
<1> QED
  BY <1>1, <1>2, <1>3, <1>4, <1>5, <1>6

\* Housekeeping keeps the types.
LEMMA SweepTypes ==
    ASSUME FlowTypes,
           \/ \E u \in Updates : Age(u)
           \/ PruneStart \/ PruneTake \/ PrunePut \/ QueueTTLCleanup
    PROVE  FlowTypes'
<1> DEFINE Sweeps(A) == [at : {"off", "take", "put"}, old : SUBSET A, kept : Seq(Record)]
           Rest == UNCHANGED <<mode, phase, backlog, loaded, nextSeq, top, sent, push, cursor,
                               pull>>
<1>0. sweep \in Sweeps(aged) /\ belt \in Seq(Record) /\ rows \subseteq Record
  BY Zenon DEF FlowTypes
<1>1. belt # <<>> => Head(belt) \in Record /\ Tail(belt) \in Seq(Record)
  BY <1>0, RangeMoves, Zenon
<1>2. Rest
  BY Zenon DEF Age, PruneStart, PruneTake, PrunePut, QueueTTLCleanup, process, env, history
<1>3. rows' \subseteq Record
  BY <1>0, Zenon DEF Age, PruneStart, PruneTake, PrunePut, QueueTTLCleanup, process
<1>4. belt' \in Seq(Record) /\ sweep' \in Sweeps(aged')
  <2>1. CASE \E u \in Updates : Age(u)
    <3>1. aged \subseteq aged' /\ UNCHANGED <<belt, sweep>>
      BY <2>1, Zenon DEF Age, process
    <3> QED
      BY <1>0, <3>1, Zenon
  <2>2. CASE PruneStart
    BY <1>0, <2>2 DEF PruneStart
  <2>3. CASE PruneTake
    <3>1. aged' = aged
      BY <2>3, Zenon DEF PruneTake, env
    <3>2. CASE belt = <<>>
      BY <1>0, <2>3, <3>1, <3>2 DEF PruneTake
    <3>3. CASE belt # <<>>
      <4> DEFINE k == Append(sweep.kept, Head(belt))
      <4>1. belt' = Tail(belt) /\ (sweep' = sweep \/ sweep' = [sweep EXCEPT !.kept = k])
        BY <2>3, <3>3, Zenon DEF PruneTake
      <4>2. k \in Seq(Record)
        BY <1>0, <1>1, <3>3, RangeMoves, Zenon
      <4> HIDE DEF k
      <4> QED
        BY <1>0, <1>1, <3>1, <3>3, <4>1, <4>2, Zenon
    <3> QED
      BY <3>2, <3>3, Zenon
  <2>4. CASE PrunePut
    <3>1. sweep.kept \in Seq(Record) /\ sweep.kept # <<>> /\ aged' = aged
      BY <1>0, <2>4, Zenon DEF PrunePut, env
    <3>2. Head(sweep.kept) \in Record /\ Tail(sweep.kept) \in Seq(Record)
      BY <3>1, RangeMoves, Zenon
    <3>3. belt' \in Seq(Record)
      BY <2>4, <3>2, OfferMoves, Zenon DEF PrunePut
    <3>4. sweep' \in Sweeps(aged)
      BY <1>0, <2>4, <3>2, Zenon DEF PrunePut
    <3> QED
      BY <3>1, <3>3, <3>4, Zenon
  <2>5. CASE QueueTTLCleanup
    BY <1>0, <2>5, Rests, Zenon DEF QueueTTLCleanup
  <2> QED
    BY <2>1, <2>2, <2>3, <2>4, <2>5, Zenon
<1> QED
  BY <1>2, <1>3, <1>4, Zenon DEF FlowTypes, Carrying

-----------------------------------------------------------------------------
(* The numbers. *)

\* A number in flight is below nextSeq and nobody else's; once the backlog is
\* loaded, so is every number in the table; and a number that occurs twice is
\* exposed on both sides.
Numbered ==
    /\ \A p \in Pushers : Storing(p) => push[p].rec.seq <= nextSeq
    /\ \A p, q \in Pushers :
          p # q /\ Storing(p) /\ Storing(q) => push[p].rec.seq # push[q].rec.seq
    /\ loaded => \A x \in rows : x.seq <= nextSeq
    /\ phase = "raise" /\ backlog.whole =>
          \A x \in rows : \/ x.seq <= nextSeq
                          \/ /\ backlog.rest # <<>>
                             /\ x.seq <= backlog.rest[Len(backlog.rest)].seq
    /\ NumbersUnique
    /\ \A x \in rows, p \in Pushers :
          Storing(p) /\ push[p].rec.seq = x.seq => {x.u, push[p].rec.u} \subseteq exposed

\* A step that draws, stores and reads no number.
NumbersKept ==
    /\ rows' \subseteq rows /\ UNCHANGED <<exposed, nextSeq, loaded>>
    /\ phase' = "raise" => phase = "raise" /\ backlog' = backlog
    /\ \A p \in Pushers : Storing(p)' => push'[p] = push[p]

\* Such a step keeps the numbers as they are.
LEMMA NumbersFrame ==
    ASSUME Numbered, NumbersKept
    PROVE  Numbered'
<1>1. \A p \in Pushers : Storing(p)' => Storing(p) /\ push'[p] = push[p]
  BY DEF NumbersKept, Storing
<1>2. rows' \subseteq rows /\ exposed' = exposed /\ nextSeq' = nextSeq
  BY Zenon DEF NumbersKept
<1>3. /\ \A p \in Pushers : Storing(p)' => push'[p].rec.seq <= nextSeq'
      /\ \A p, q \in Pushers :
            p # q /\ Storing(p)' /\ Storing(q)' => push'[p].rec.seq # push'[q].rec.seq
  BY <1>1, <1>2 DEF Numbered
<1>4. loaded' => \A x \in rows' : x.seq <= nextSeq'
  BY <1>2, Zenon DEF Numbered, NumbersKept
<1>5. phase' = "raise" /\ backlog'.whole =>
          \A x \in rows' : \/ x.seq <= nextSeq'
                           \/ /\ backlog'.rest # <<>>
                              /\ x.seq <= backlog'.rest[Len(backlog'.rest)].seq
  BY <1>2, Zenon DEF Numbered, NumbersKept
<1>6. NumbersUnique'
  BY <1>2, Zenon DEF Numbered, NumbersUnique
<1>7. \A x \in rows', p \in Pushers :
          Storing(p)' /\ push'[p].rec.seq = x.seq => {x.u, push'[p].rec.u} \subseteq exposed'
  BY <1>1, <1>2 DEF Numbered
<1> QED
  BY <1>3, <1>4, <1>5, <1>6, <1>7 DEF Numbered

\* The backlog is read in order, so its last number bounds what was read.
LEMMA NumbersRead ==
    ASSUME FlowTypes, Numbered, ReplayPull
    PROVE  Numbered'
<1>1. UNCHANGED <<rows, exposed, nextSeq, loaded, push>>
  BY DEF ReplayPull
<1>2. CASE phase' = "up"
  BY <1>1, <1>2, NumbersFrame, Zenon DEF NumbersKept
<1>3. CASE phase' # "up"
  <2>1. PICK s \in QueuePull(0, ReplayLimit) : backlog' = [rest |-> s, whole |-> Range(s) = rows]
    BY <1>3, Zenon DEF ReplayPull
  <2>2. s # <<>> => \A x \in Range(s) : x.seq <= s[Len(s)].seq
    BY PullSound, MTUpdatesAssumption, Zenon
  <2>3. s = <<>> => Range(s) = {}
    BY DEF Range
  <2>4. backlog'.rest = s /\ (backlog'.whole => Range(s) = rows)
    BY <2>1, Zenon
  <2>5. backlog'.whole =>
          \A x \in rows' : \/ x.seq <= nextSeq'
                           \/ /\ backlog'.rest # <<>>
                              /\ x.seq <= backlog'.rest[Len(backlog'.rest)].seq
    BY <1>1, <2>2, <2>3, <2>4, Zenon
  <2> QED
    BY <1>1, <2>5 DEF Numbered, NumbersUnique, Storing
<1> QED
  BY <1>2, <1>3, Zenon

\* nextSeq is raised above all that was read.
LEMMA NumbersRaised ==
    ASSUME FlowTypes, Numbered, ReplayRaise
    PROVE  Numbered'
<1> DEFINE s == backlog.rest
           last == s[Len(s)].seq
<1>1. UNCHANGED <<rows, exposed, push>> /\ phase' # "raise"
  BY Zenon DEF ReplayRaise, history
<1>2. s # <<>> => last \in Nat
  <2>1. s \in Seq(Record)
    BY Zenon DEF FlowTypes
  <2>2. s # <<>> => s[Len(s)] \in Record
    BY <2>1, RangeMoves, Zenon
  <2> QED
    BY <2>2, Zenon DEF Record
<1>3. nextSeq \in Nat /\ \A x \in rows : x.seq \in Nat
  BY Zenon DEF FlowTypes, Record
<1>4. nextSeq' = IF s # <<>> /\ last > nextSeq THEN last ELSE nextSeq
  BY Zenon DEF ReplayRaise
<1> HIDE DEF last
<1>5. nextSeq' \in Nat /\ nextSeq <= nextSeq' /\ (s # <<>> => last <= nextSeq')
  BY <1>2, <1>3, <1>4
<1>6. \A p \in Pushers : Storing(p)' => push'[p].rec.seq <= nextSeq'
  <2>1. \A p \in Pushers : Storing(p) => push[p].rec \in Record /\ push[p].rec.seq <= nextSeq
    BY DEF FlowTypes, Carrying, Storing, Numbered
  <2> QED
    BY <1>1, <1>3, <1>5, <2>1 DEF Storing, Record
<1>7. loaded' => \A x \in rows' : x.seq <= nextSeq'
  <2>1. CASE loaded
    BY <1>1, <1>3, <1>5, <2>1 DEF Numbered
  <2>2. CASE backlog.whole
    <3>1. \A x \in rows : x.seq <= nextSeq \/ (s # <<>> /\ x.seq <= last)
      BY <2>2, Zenon DEF Numbered, ReplayRaise, last
    <3> QED
      BY <1>1, <1>2, <1>3, <1>5, <3>1
  <2> QED
    BY <2>1, <2>2, Zenon DEF ReplayRaise
<1> QED
  BY <1>1, <1>6, <1>7 DEF Numbered, NumbersUnique, Storing

\* A new number is above every other one, or what it may collide with is exposed.
LEMMA NumbersDrawn ==
    ASSUME FlowTypes, Numbered, NEW p \in Pushers, Draw(p)
    PROVE  Numbered'
<1> DEFINE x0 == [seq |-> nextSeq + 1, u |-> sent + 1]
<1>1. nextSeq \in Nat /\ sent \in Nat /\ rows \subseteq Record /\ nextSeq' = nextSeq + 1
  BY Zenon DEF FlowTypes, Draw
<1>2. /\ UNCHANGED <<rows, phase, backlog, loaded>>
      /\ exposed' = IF loaded \/ rows = {} THEN exposed ELSE exposed \cup Us(rows) \cup {sent + 1}
  BY DEF Draw
<1>3. /\ push'[p].rec = x0
      /\ \A q \in Pushers : q # p => push'[q] = push[q]
  <2>1. push' = [push EXCEPT ![p] = [Quiet EXCEPT !.pc = "store", !.rec = x0]]
    BY Zenon DEF Draw
  <2>2. push \in [Pushers -> PushCalls]
    BY Zenon DEF FlowTypes
  <2> QED
    BY <2>1, <2>2, Zenon DEF Quiet
<1>4. \A q \in Pushers : Storing(q) => push[q].rec.seq \in Nat /\ push[q].rec.seq <= nextSeq
  BY Zenon DEF FlowTypes, Numbered, Carrying, Storing, Record
<1>5. \A x \in rows : x.seq \in Nat
  BY <1>1, Zenon DEF Record
<1>6. /\ \A q \in Pushers : Storing(q)' => push'[q].rec.seq <= nextSeq'
      /\ \A q1, q2 \in Pushers : q1 # q2 /\ Storing(q1)' /\ Storing(q2)'
            => push'[q1].rec.seq # push'[q2].rec.seq
  BY <1>1, <1>3, <1>4 DEF Storing, Numbered
<1>7. loaded' => \A x \in rows' : x.seq <= nextSeq'
  <2>1. loaded => \A x \in rows : x.seq <= nextSeq
    BY Zenon DEF Numbered
  <2> QED
    BY <1>1, <1>2, <1>5, <2>1
<1>8. phase' = "raise" /\ backlog'.whole =>
          \A x \in rows' : \/ x.seq <= nextSeq'
                           \/ /\ backlog'.rest # <<>>
                              /\ x.seq <= backlog'.rest[Len(backlog'.rest)].seq
  <2>1. phase = "raise" /\ backlog.whole =>
          \A x \in rows : \/ x.seq <= nextSeq
                          \/ /\ backlog.rest # <<>>
                             /\ x.seq <= backlog.rest[Len(backlog.rest)].seq
    BY Zenon DEF Numbered
  <2> QED
    BY <1>1, <1>2, <1>5, <2>1
<1>9. exposed \subseteq exposed'
  BY <1>2, Zenon
<1>10. NumbersUnique'
  BY <1>2, <1>9 DEF Numbered, NumbersUnique
<1>11. ASSUME NEW x \in rows', NEW q \in Pushers, Storing(q)', push'[q].rec.seq = x.seq
       PROVE  {x.u, push'[q].rec.u} \subseteq exposed'
  <2>1. CASE q # p
    BY <1>2, <1>3, <1>9, <1>11, <2>1 DEF Numbered, Storing
  <2>2. CASE q = p
    <3>1. x.seq = nextSeq + 1 /\ push'[q].rec.u = sent + 1 /\ x \in rows
      BY <1>2, <1>3, <1>11, <2>2
    <3>2. ~loaded
      <4>1. loaded => x.seq <= nextSeq
        BY <3>1, Zenon DEF Numbered
      <4> QED
        BY <1>1, <3>1, <4>1
    <3>3. exposed' = exposed \cup Us(rows) \cup {sent + 1}
      BY <1>2, <3>1, <3>2, Zenon
    <3>4. x.u \in Us(rows)
      BY <3>1, Zenon DEF Us
    <3> QED
      BY <3>1, <3>3, <3>4, Zenon
  <2> QED
    BY <2>1, <2>2, Zenon
<1> QED
  BY <1>6, <1>7, <1>8, <1>10, <1>11, Zenon DEF Numbered

\* A stored number was in flight before.
LEMMA NumbersStored ==
    ASSUME FlowTypes, Numbered, NEW p \in Pushers, QueuePush(p)
    PROVE  Numbered'
<1> DEFINE r == push[p].rec
<1>1. /\ rows' = rows \cup {r} /\ Storing(p) /\ exposed \subseteq exposed'
      /\ UNCHANGED <<nextSeq, phase, backlog, loaded>>
  BY Zenon DEF QueuePush, Storing
<1>2. ~Storing(p)' /\ \A q \in Pushers : q # p => push'[q] = push[q]
  BY DEF QueuePush, FlowTypes, Storing
<1>3. r.seq <= nextSeq
  BY <1>1, Zenon DEF Numbered
<1>4. /\ \A q \in Pushers : Storing(q)' => push'[q].rec.seq <= nextSeq'
      /\ \A q1, q2 \in Pushers : q1 # q2 /\ Storing(q1)' /\ Storing(q2)'
            => push'[q1].rec.seq # push'[q2].rec.seq
  BY <1>1, <1>2 DEF Storing, Numbered
<1>5. loaded' => \A x \in rows' : x.seq <= nextSeq'
  <2>1. loaded => \A x \in rows : x.seq <= nextSeq
    BY Zenon DEF Numbered
  <2> QED
    BY <1>1, <1>3, <2>1, Zenon
<1>6. phase' = "raise" /\ backlog'.whole =>
          \A x \in rows' : \/ x.seq <= nextSeq'
                           \/ /\ backlog'.rest # <<>>
                              /\ x.seq <= backlog'.rest[Len(backlog'.rest)].seq
  <2>1. phase = "raise" /\ backlog.whole =>
          \A x \in rows : \/ x.seq <= nextSeq
                          \/ /\ backlog.rest # <<>>
                             /\ x.seq <= backlog.rest[Len(backlog.rest)].seq
    BY Zenon DEF Numbered
  <2> QED
    BY <1>1, <1>3, <2>1, Zenon
<1>7. \A x \in rows : x.seq = r.seq => {x.u, r.u} \subseteq exposed
  BY <1>1, Zenon DEF Numbered
<1>8. NumbersUnique'
  BY <1>1, <1>7 DEF Numbered, NumbersUnique
<1>9. \A q \in Pushers : q # p /\ Storing(q) => push[q].rec.seq # r.seq
  BY <1>1 DEF Numbered
<1>10. \A x \in rows', q \in Pushers :
          Storing(q)' /\ push'[q].rec.seq = x.seq => {x.u, push'[q].rec.u} \subseteq exposed'
  BY <1>1, <1>2, <1>9 DEF Numbered, Storing
<1> QED
  BY <1>4, <1>5, <1>6, <1>8, <1>10, Zenon DEF Numbered

\* A new process has no number in flight, and has loaded nothing.
LEMMA NumbersAfresh ==
    ASSUME Numbered, NewProcess, UNCHANGED <<rows, exposed>>
    PROVE  Numbered'
<1>1. \A p \in Pushers : ~Storing(p)'
  BY DEF NewProcess, Storing, Quiet
<1>2. ~loaded' /\ phase' = "down"
  BY Zenon DEF NewProcess
<1> QED
  BY <1>1, <1>2 DEF Numbered, NumbersUnique

\* The rest of pushUpdate starts no call and gives its record to nobody else.
LEMMA PushPasses ==
    ASSUME FlowTypes, NEW p \in Pushers,
           DeadLetter(p) \/ PersistFails(p) \/ Belt(p) \/ DropOldest(p) \/ BeltAgain(p)
    PROVE  /\ \A q \in Pushers : q # p => push'[q] = push[q]
           /\ push'[p].pc \in {"idle", "send", "belt", "full", "again"}
           /\ push'[p].pc \in {"belt", "full", "again"} => push'[p].rec = push[p].rec
<1>1. push \in [Pushers -> PushCalls]
  BY Zenon DEF FlowTypes
<1>2. CASE push' = [push EXCEPT ![p] = Quiet] \/ push' = [push EXCEPT ![p] = Snapshot]
  BY <1>1, <1>2, Rests
<1>3. ASSUME NEW pc \in {"belt", "full", "again"}, push' = [push EXCEPT ![p].pc = pc]
      PROVE  /\ \A q \in Pushers : q # p => push'[q] = push[q]
             /\ push'[p].pc \in {"idle", "send", "belt", "full", "again"}
             /\ push'[p].pc \in {"belt", "full", "again"} => push'[p].rec = push[p].rec
  BY <1>1, <1>3, Zenon DEF PushCalls
<1> QED
  BY <1>2, <1>3, Zenon DEF DeadLetter, PersistFails, Belt, DropOldest, BeltAgain

\* ... and so does the fan-out.
LEMMA SendPasses ==
    ASSUME FlowTypes, NEW p \in Pushers, NEW c \in Sockets, Send(p, c), ~NewProcess
    PROVE  /\ \A q \in Pushers : q # p => push'[q] = push[q]
           /\ push'[p].pc \in {"idle", "send"} /\ push[p].pc = "send"
<1>1. push \in [Pushers -> PushCalls] /\ push[p].to \ {c} \in SUBSET Sockets
  BY DEF FlowTypes, PushCalls
<1>2. push' = [push EXCEPT ![p] = SendTo(push[p].to \ {c})] /\ push[p].pc = "send"
  BY Zenon DEF Send
<1>3. SendTo(push[p].to \ {c}).pc \in {"idle", "send"}
  BY <1>1, Rests, Zenon
<1> QED
  BY <1>1, <1>2, <1>3, Zenon

\* Every step keeps the numbers sound.
LEMMA NumberedStep ==
    ASSUME FlowTypes, Numbered, [FlowNext]_vars
    PROVE  Numbered'
<1>1. CASE Connect \/ ReplayPut \/ Reconnect
  BY <1>1, NumbersFrame DEF Connect, ReplayPut, Reconnect, NumbersKept, history
<1>2. CASE ReplayPull \/ ReplayRaise
  BY <1>2, NumbersRead, NumbersRaised
<1>3. CASE Crash
  BY <1>3, NumbersAfresh, Zenon DEF Crash, history
<1>4. ASSUME NEW p \in Pushers,
             DeadLetter(p) \/ PersistFails(p) \/ Belt(p) \/ DropOldest(p) \/ BeltAgain(p)
      PROVE  Numbered'
  <2>1. \A q \in Pushers : Storing(q)' => push'[q] = push[q]
    BY <1>4, PushPasses, Zenon DEF Storing
  <2>2. UNCHANGED <<exposed, nextSeq, loaded, rows, phase, backlog>>
    BY <1>4 DEF DeadLetter, PersistFails, Belt, DropOldest, BeltAgain, history
  <2> QED
    BY <2>1, <2>2, NumbersFrame, Zenon DEF NumbersKept
<1>5. ASSUME NEW p \in Pushers, NEW c \in Sockets, Send(p, c) PROVE Numbered'
  <2>1. UNCHANGED <<rows, exposed>>
    BY <1>5 DEF Send, history
  <2>2. CASE NewProcess
    BY <2>1, <2>2, NumbersAfresh, Zenon
  <2>3. CASE ~NewProcess
    <3>1. \A q \in Pushers : Storing(q)' => push'[q] = push[q]
      BY <1>5, <2>3, SendPasses, Zenon DEF Storing
    <3>2. UNCHANGED <<nextSeq, loaded, phase, backlog>>
      BY <1>5, <2>3 DEF Send
    <3> QED
      BY <2>1, <3>1, <3>2, NumbersFrame, Zenon DEF NumbersKept
  <2> QED
    BY <2>2, <2>3, Zenon
<1>6. ASSUME NEW p \in Pushers, Draw(p) \/ QueuePush(p) PROVE Numbered'
  BY <1>6, NumbersDrawn, NumbersStored, Zenon
<1>7. ASSUME NEW c \in Sockets, AddConsumer(c) \/ RemoveConsumer(c) \/ CloseWriteCh(c)
      PROVE  Numbered'
  BY <1>7, NumbersFrame, Zenon DEF AddConsumer, RemoveConsumer, CloseWriteCh, Moves, NumbersKept,
     history
<1>8. ASSUME NEW r \in Replicas,
             \/ AckBelow(r) \/ PullRaw(r) \/ GiveUp(r) \/ DrainUpdateCh(r)
             \/ AckDrained(r) \/ Receive(r) \/ AnswerLost(r)
      PROVE  Numbered'
  <2>1. UNCHANGED <<exposed, nextSeq, loaded, phase, backlog, push>>
    BY <1>8, Zenon DEF AckBelow, PullRaw, Answer, GiveUp, DrainUpdateCh, AckDrained, Receive,
       AnswerLost, history
  <2>2. rows' \subseteq rows
    BY <1>8, AckMoves, Zenon DEF AckBelow, PullRaw, Answer, GiveUp, DrainUpdateCh, AckDrained,
       Receive, AnswerLost
  <2> QED
    BY <2>1, <2>2, NumbersFrame, Zenon DEF NumbersKept
<1>9. CASE \/ \E u \in Updates : Age(u)
           \/ PruneStart \/ PruneTake \/ PrunePut \/ QueueTTLCleanup
  <2>1. UNCHANGED <<exposed, nextSeq, loaded, phase, backlog, push>> /\ rows' \subseteq rows
    BY <1>9, Zenon DEF Age, PruneStart, PruneTake, PrunePut, QueueTTLCleanup, process, history
  <2> QED
    BY <2>1, NumbersFrame, Zenon DEF NumbersKept
<1>10. CASE UNCHANGED vars
  BY <1>10, NumbersFrame DEF vars, process, history, NumbersKept
<1> QED
  BY <1>1, <1>2, <1>3, <1>4, <1>5, <1>6, <1>7, <1>8, <1>9, <1>10, Zenon DEF FlowNext

-----------------------------------------------------------------------------
(* With offsets. *)

\* The number of the last update in the answer to r.
LastSeq(r) == pull[r].got[Len(pull[r].got)].seq

\* What lies below a replica's offset, or below the end of the answer on its way
\* to it, is received, exposed or in that answer.
Seen ==
    mode = "offset" => \A r \in Replicas :
        /\ pull[r].pc # "drain"
        /\ cursor[r] <= top + 1
        /\ \A x \in rows : x.seq < cursor[r] => x.u \in delivered \cup exposed
        /\ pull[r].pc = "answer" =>
              /\ LastSeq(r) <= top
              /\ \A x \in rows : x.seq <= LastSeq(r)
                    => x.u \in delivered \cup exposed \cup Us(Range(pull[r].got))

\* An answer has a last update, with a number.
LEMMA LastNumber ==
    ASSUME FlowTypes, NEW r \in Replicas, pull[r].pc = "answer"
    PROVE  LastSeq(r) \in Nat \ {0}
<1>1. pull[r] \in PullCalls
  BY Zenon DEF FlowTypes
<1>2. pull[r].got \in Seq(Record) /\ pull[r].got # <<>>
  BY <1>1, Zenon DEF PullCalls
<1>3. pull[r].got[Len(pull[r].got)] \in Record
  BY <1>2, RangeMoves, Zenon
<1> QED
  BY <1>3, Zenon DEF Record, LastSeq

\* A step that stores no update and gives none to a replica.
SeenKept ==
    /\ mode' = mode
    /\ mode = "offset" =>
          /\ rows' \subseteq rows /\ UNCHANGED <<cursor, top>>
          /\ delivered \subseteq delivered' /\ exposed \subseteq exposed'
          /\ \A r \in Replicas : pull'[r] = pull[r] \/ pull'[r].pc \in {"idle", "poll"}

\* Such a step keeps what is below the offsets.
LEMMA SeenFrame ==
    ASSUME Seen, SeenKept
    PROVE  Seen'
<1> SUFFICES ASSUME mode' = "offset", NEW r \in Replicas
             PROVE  /\ pull'[r].pc # "drain"
                    /\ cursor'[r] <= top' + 1
                    /\ \A x \in rows' : x.seq < cursor'[r] => x.u \in delivered' \cup exposed'
                    /\ pull'[r].pc = "answer" =>
                          /\ LastSeq(r)' <= top'
                          /\ \A x \in rows' : x.seq <= LastSeq(r)'
                                => x.u \in delivered' \cup exposed' \cup Us(Range(pull'[r].got))
  BY DEF Seen, Us
<1>1. /\ rows' \subseteq rows /\ UNCHANGED <<cursor, top>>
      /\ delivered \subseteq delivered' /\ exposed \subseteq exposed'
      /\ pull'[r] = pull[r] \/ pull'[r].pc \in {"idle", "poll"}
  BY Zenon DEF SeenKept
<1>2. /\ pull[r].pc # "drain" /\ cursor[r] <= top + 1
      /\ \A x \in rows : x.seq < cursor[r] => x.u \in delivered \cup exposed
  BY DEF Seen, SeenKept
<1>3. ASSUME pull'[r] = pull[r], pull[r].pc = "answer"
      PROVE  /\ LastSeq(r)' <= top'
             /\ \A x \in rows' : x.seq <= LastSeq(r)'
                   => x.u \in delivered' \cup exposed' \cup Us(Range(pull'[r].got))
  <2>1. LastSeq(r)' = LastSeq(r)
    BY <1>3, Zenon DEF LastSeq
  <2>2. /\ LastSeq(r) <= top
        /\ \A x \in rows : x.seq <= LastSeq(r)
              => x.u \in delivered \cup exposed \cup Us(Range(pull[r].got))
    BY <1>3 DEF Seen, SeenKept
  <2> QED
    BY <1>1, <1>3, <2>1, <2>2, Zenon
<1> QED
  BY <1>1, <1>2, <1>3, Zenon

\* An update stored behind a number already returned is exposed.
LEMMA SeenStored ==
    ASSUME FlowTypes, Seen, NEW p \in Pushers, QueuePush(p)
    PROVE  Seen'
<1> DEFINE y == push[p].rec
<1>0. /\ rows' = rows \cup {y} /\ UNCHANGED <<mode, cursor, pull, top, delivered>>
      /\ exposed' = IF y.seq <= top THEN exposed \cup {y.u} ELSE exposed
  BY Zenon DEF QueuePush, env
<1>1. y.seq \in Nat /\ top \in Nat
  BY Zenon DEF FlowTypes, Carrying, QueuePush, Record
<1> SUFFICES ASSUME mode = "offset", NEW r \in Replicas
             PROVE  /\ pull[r].pc # "drain"
                    /\ cursor[r] <= top + 1
                    /\ \A x \in rows' : x.seq < cursor[r] => x.u \in delivered \cup exposed'
                    /\ pull[r].pc = "answer" =>
                          /\ LastSeq(r) <= top
                          /\ \A x \in rows' : x.seq <= LastSeq(r)
                                => x.u \in delivered \cup exposed' \cup Us(Range(pull[r].got))
  BY <1>0, Zenon DEF Seen, LastSeq, Us
<1>2. /\ pull[r].pc # "drain" /\ cursor[r] <= top + 1
      /\ \A x \in rows : x.seq < cursor[r] => x.u \in delivered \cup exposed
      /\ pull[r].pc = "answer" =>
            /\ LastSeq(r) <= top
            /\ \A x \in rows : x.seq <= LastSeq(r)
                  => x.u \in delivered \cup exposed \cup Us(Range(pull[r].got))
  BY Zenon DEF Seen
<1>3. exposed \subseteq exposed' /\ (y.seq <= top => y.u \in exposed')
  BY <1>0, Zenon
<1>4. y.seq < cursor[r] => y.seq <= top
  BY <1>1, <1>2 DEF FlowTypes
<1>5. pull[r].pc = "answer" /\ y.seq <= LastSeq(r) => y.seq <= top
  <2>1. pull[r].pc = "answer" => LastSeq(r) \in Nat
    BY LastNumber
  <2> QED
    BY <1>1, <1>2, <2>1
<1> QED
  BY <1>0, <1>2, <1>3, <1>4, <1>5, Zenon

\* An answer holds all there is between the offset and its end, ties excepted.
LEMMA SeenPulled ==
    ASSUME FlowTypes, Numbered, Seen, NEW r \in Replicas, PullRaw(r)
    PROVE  Seen'
<1>1. PICK got \in QueuePull(cursor[r] - 1, Limit) : Answer(r, got)
  BY Zenon DEF PullRaw
<1>2. /\ UNCHANGED <<mode, rows, cursor, delivered, exposed>> /\ got # <<>>
      /\ pull' = [pull EXCEPT ![r] = [pc |-> "answer", got |-> got]]
      /\ top' = IF got[Len(got)].seq > top THEN got[Len(got)].seq ELSE top
  BY <1>1, Zenon DEF Answer, env
<1>3. /\ pull \in [Replicas -> PullCalls] /\ cursor[r] \in Nat \ {0} /\ top \in Nat
      /\ \A q \in Replicas : cursor[q] \in Nat
      /\ rows \subseteq Record /\ \A x \in Record : x.seq \in Nat
  BY Zenon DEF FlowTypes, Record
<1>4. /\ got \in Seq(Record) /\ Range(got) \subseteq rows /\ got[Len(got)] \in Range(got)
      /\ \A x \in Range(got) : x.seq <= got[Len(got)].seq
      /\ \A x \in rows : x.seq > cursor[r] - 1 /\ x \notin Range(got) => got[Len(got)].seq <= x.seq
  <2>1. cursor[r] - 1 \in Nat /\ Limit \in Nat
    BY <1>3, MTUpdatesAssumption
  <2> QED
    BY <1>2, <2>1, PullSound, Zenon
<1> DEFINE z == got[Len(got)]
<1>5. z \in rows /\ z.seq \in Nat /\ z \in Range(got)
  BY <1>3, <1>4, Zenon
<1> HIDE DEF z
<1>6. top' \in Nat /\ top <= top' /\ z.seq <= top'
  BY <1>2, <1>3, <1>5 DEF z
<1>7. /\ pull'[r] = [pc |-> "answer", got |-> got]
      /\ \A q \in Replicas : q # r => pull'[q] = pull[q]
  BY <1>2, <1>3, Zenon
<1> SUFFICES ASSUME mode = "offset", NEW q \in Replicas
             PROVE  /\ pull'[q].pc # "drain"
                    /\ cursor[q] <= top' + 1
                    /\ \A x \in rows : x.seq < cursor[q] => x.u \in delivered \cup exposed
                    /\ pull'[q].pc = "answer" =>
                          /\ LastSeq(q)' <= top'
                          /\ \A x \in rows : x.seq <= LastSeq(q)'
                                => x.u \in delivered \cup exposed \cup Us(Range(pull'[q].got))
  BY <1>2, Zenon DEF Seen, Us
<1>8. /\ pull[q].pc # "drain" /\ cursor[q] <= top + 1
      /\ \A x \in rows : x.seq < cursor[q] => x.u \in delivered \cup exposed
      /\ pull[q].pc = "answer" =>
            /\ LastSeq(q) <= top
            /\ \A x \in rows : x.seq <= LastSeq(q)
                  => x.u \in delivered \cup exposed \cup Us(Range(pull[q].got))
  BY Zenon DEF Seen
<1>9. cursor[q] <= top' + 1
  BY <1>3, <1>6, <1>8
<1>10. CASE q # r
  <2>1. pull'[q] = pull[q] /\ LastSeq(q)' = LastSeq(q)
    BY <1>7, <1>10, Zenon DEF LastSeq
  <2>2. pull[q].pc = "answer" => LastSeq(q) \in Nat
    BY LastNumber, Zenon
  <2>3. pull[q].pc = "answer" => LastSeq(q) <= top'
    BY <1>3, <1>6, <1>8, <2>2
  <2> QED
    BY <1>8, <1>9, <2>1, <2>3, Zenon
<1>11. CASE q = r
  <2>1. LastSeq(q)' = z.seq /\ pull'[q].got = got /\ pull'[q].pc = "answer"
    BY <1>7, <1>11 DEF LastSeq, z
  <2>2. ASSUME NEW x \in rows, x.seq <= z.seq
        PROVE  x.u \in delivered \cup exposed \cup Us(Range(got))
    <3>1. CASE x \in Range(got)
      BY <3>1, Zenon DEF Us
    <3>2. CASE x.seq < cursor[r]
      BY <1>8, <1>11, <3>2, Zenon
    <3>3. CASE x \notin Range(got) /\ ~(x.seq < cursor[r])
      <4>1. x.seq \in Nat /\ x.seq > cursor[r] - 1
        BY <1>3, <3>3
      <4>2. x.seq = z.seq /\ x # z
        BY <1>4, <1>5, <2>2, <3>3, <4>1 DEF z
      <4>3. x.u \in exposed
        BY <1>5, <4>2 DEF Numbered, NumbersUnique
      <4> QED
        BY <4>3, Zenon
    <3> QED
      BY <3>1, <3>2, <3>3, Zenon
  <2> QED
    BY <1>6, <1>8, <1>9, <2>1, <2>2, Zenon
<1> QED
  BY <1>10, <1>11, Zenon

\* The new offset is just above an answer that has been received.
LEMMA SeenReceived ==
    ASSUME FlowTypes, Seen, NEW r \in Replicas, Receive(r)
    PROVE  Seen'
<1>1. /\ UNCHANGED <<mode, rows, top, exposed>> /\ pull[r].pc = "answer"
      /\ delivered' = delivered \cup Us(Range(pull[r].got))
      /\ cursor' = [cursor EXCEPT ![r] = LastSeq(r) + 1]
      /\ pull' = [pull EXCEPT ![r] = NoCall]
  BY Zenon DEF Receive, env, LastSeq
<1>2. LastSeq(r) \in Nat /\ \A x \in rows : x.seq \in Nat
  BY <1>1, LastNumber, Zenon DEF FlowTypes, Record
<1>3. /\ cursor'[r] = LastSeq(r) + 1 /\ pull'[r].pc = "idle"
      /\ \A q \in Replicas : q # r => pull'[q] = pull[q] /\ cursor'[q] = cursor[q]
  BY <1>1, Rests, Zenon DEF FlowTypes
<1> SUFFICES ASSUME mode = "offset", NEW q \in Replicas
             PROVE  /\ pull'[q].pc # "drain"
                    /\ cursor'[q] <= top + 1
                    /\ \A x \in rows : x.seq < cursor'[q] => x.u \in delivered' \cup exposed
                    /\ pull'[q].pc = "answer" =>
                          /\ LastSeq(q)' <= top
                          /\ \A x \in rows : x.seq <= LastSeq(q)'
                                => x.u \in delivered' \cup exposed \cup Us(Range(pull'[q].got))
  BY <1>1, Zenon DEF Seen, Us
<1>4. /\ pull[q].pc # "drain" /\ cursor[q] <= top + 1
      /\ \A x \in rows : x.seq < cursor[q] => x.u \in delivered \cup exposed
      /\ pull[q].pc = "answer" =>
            /\ LastSeq(q) <= top
            /\ \A x \in rows : x.seq <= LastSeq(q)
                  => x.u \in delivered \cup exposed \cup Us(Range(pull[q].got))
  BY DEF Seen
<1>5. delivered \subseteq delivered'
  BY <1>1
<1>6. CASE q # r
  <2>1. pull'[q] = pull[q] /\ cursor'[q] = cursor[q] /\ LastSeq(q)' = LastSeq(q)
    BY <1>3, <1>6, Zenon DEF LastSeq
  <2> QED
    BY <1>4, <1>5, <2>1, Zenon
<1>7. CASE q = r
  <2>1. cursor'[q] <= top + 1
    BY <1>1, <1>2, <1>3, <1>4, <1>7 DEF FlowTypes
  <2>2. ASSUME NEW x \in rows, x.seq < cursor'[q] PROVE x.u \in delivered' \cup exposed
    <3>1. x.seq <= LastSeq(r)
      BY <1>2, <1>3, <1>7, <2>2
    <3> QED
      BY <1>1, <1>4, <1>7, <3>1, Zenon
  <2> QED
    BY <1>3, <1>7, <2>1, <2>2, Zenon
<1> QED
  BY <1>6, <1>7, Zenon

\* Every step keeps what is below the offsets.
LEMMA SeenStep ==
    ASSUME FlowTypes, Numbered, Seen, [FlowNext]_vars
    PROVE  Seen'
<1>1. CASE Connect \/ ReplayPull \/ ReplayRaise \/ ReplayPut \/ Reconnect
  BY <1>1, SeenFrame, Zenon DEF Connect, ReplayPull, ReplayRaise, ReplayPut, Reconnect, SeenKept,
     env, history
<1>2. CASE NewProcess /\ UNCHANGED <<mode, rows, cursor, delivered, top, exposed>>
  <2>1. \A r \in Replicas : pull'[r].pc = "idle"
    BY <1>2, Rests DEF NewProcess
  <2> QED
    BY <1>2, <2>1, SeenFrame, Zenon DEF SeenKept, history
<1>3. CASE Crash
  BY <1>2, <1>3, Zenon DEF Crash
<1>4. ASSUME NEW p \in Pushers,
             \/ Draw(p) \/ DeadLetter(p) \/ PersistFails(p)
             \/ Belt(p) \/ DropOldest(p) \/ BeltAgain(p)
      PROVE  Seen'
  <2>1. UNCHANGED <<mode, rows, cursor, pull, top, delivered>> /\ exposed \subseteq exposed'
    BY <1>4 DEF Draw, DeadLetter, PersistFails, Belt, DropOldest, BeltAgain, env, history
  <2> QED
    BY <2>1, SeenFrame, Zenon DEF SeenKept
<1>5. ASSUME NEW p \in Pushers, QueuePush(p) PROVE Seen'
  BY <1>5, SeenStored
<1>6. ASSUME NEW p \in Pushers, NEW c \in Sockets, Send(p, c) PROVE Seen'
  <2>1. UNCHANGED <<mode, rows, cursor, delivered, top, exposed>>
    BY <1>6, Zenon DEF Send
  <2>2. CASE NewProcess
    BY <1>2, <2>1, <2>2, Zenon
  <2>3. CASE ~NewProcess
    BY <1>6, <2>1, <2>3, SeenFrame, Zenon DEF Send, SeenKept, history
  <2> QED
    BY <2>2, <2>3, Zenon
<1>7. ASSUME NEW c \in Sockets, AddConsumer(c) \/ RemoveConsumer(c) \/ CloseWriteCh(c)
      PROVE  Seen'
  BY <1>7, SeenFrame, Zenon DEF AddConsumer, RemoveConsumer, CloseWriteCh, Moves, SeenKept, history
<1>8. ASSUME NEW r \in Replicas, AckBelow(r) \/ GiveUp(r) \/ AckDrained(r) \/ AnswerLost(r)
      PROVE  Seen'
  <2>1. UNCHANGED <<mode, cursor, top, delivered, exposed>>
    BY <1>8, Zenon DEF AckBelow, GiveUp, AckDrained, AnswerLost, env, history
  <2>2. rows' \subseteq rows
    BY <1>8, AckMoves, Zenon DEF AckBelow, GiveUp, AckDrained, AnswerLost
  <2>3. \A q \in Replicas : pull'[q] = pull[q] \/ pull'[q].pc \in {"idle", "poll"}
    <3>1. pull \in [Replicas -> PullCalls]
      BY Zenon DEF FlowTypes
    <3>2. \/ pull' = [pull EXCEPT ![r].pc = "poll"] \/ pull' = [pull EXCEPT ![r] = NoCall]
      BY <1>8 DEF AckBelow, GiveUp, AckDrained, AnswerLost
    <3>3. CASE pull' = [pull EXCEPT ![r].pc = "poll"]
      BY <3>1, <3>3, Zenon DEF PullCalls
    <3>4. CASE pull' = [pull EXCEPT ![r] = NoCall]
      BY <3>1, <3>4, Rests
    <3> QED
      BY <3>2, <3>3, <3>4, Zenon
  <2> QED
    BY <2>1, <2>2, <2>3, SeenFrame, Zenon DEF SeenKept
<1>9. ASSUME NEW r \in Replicas, PullRaw(r) \/ Receive(r) PROVE Seen'
  BY <1>9, SeenPulled, SeenReceived, Zenon
<1>10. ASSUME NEW r \in Replicas, DrainUpdateCh(r) PROVE Seen'
  BY <1>10, SeenFrame, Zenon DEF DrainUpdateCh, SeenKept, env
<1>11. CASE \/ \E u \in Updates : Age(u)
            \/ PruneStart \/ PruneTake \/ PrunePut \/ QueueTTLCleanup
  <2>1. UNCHANGED <<mode, cursor, pull, top, delivered, exposed>> /\ rows' \subseteq rows
    BY <1>11, Zenon DEF Age, PruneStart, PruneTake, PrunePut, QueueTTLCleanup, process, env, history
  <2> QED
    BY <2>1, SeenFrame, Zenon DEF SeenKept
<1>12. CASE UNCHANGED vars
  BY <1>12, SeenFrame DEF vars, process, env, history, SeenKept
<1> QED
  BY <1>1, <1>3, <1>4, <1>5, <1>6, <1>7, <1>8, <1>9, <1>10, <1>11, <1>12, Zenon DEF FlowNext

-----------------------------------------------------------------------------
(* Without offsets. *)

\* As long as no number has been drawn or read, nothing is in memory.
Unstarted ==
    nextSeq = 0 =>
        /\ belt = <<>> /\ sweep.kept = <<>> /\ phase # "fill"
        /\ \A p \in Pushers : ~Carrying(p)
        /\ \A r \in Replicas : pull[r].pc # "drain"

\* Every step keeps it so.
LEMMA UnstartedStep ==
    ASSUME FlowTypes, Unstarted, [FlowNext]_vars
    PROVE  Unstarted'
<1> SUFFICES ASSUME nextSeq' = 0
             PROVE  /\ belt' = <<>> /\ sweep'.kept = <<>> /\ phase' # "fill"
                    /\ \A p \in Pushers : ~Carrying(p)'
                    /\ \A r \in Replicas : pull'[r].pc # "drain"
  BY Zenon DEF Unstarted
<1> DEFINE Goal == /\ belt' = <<>> /\ sweep'.kept = <<>> /\ phase' # "fill"
                   /\ \A p \in Pushers : ~Carrying(p)'
                   /\ \A r \in Replicas : pull'[r].pc # "drain"
<1>1. ASSUME NewProcess PROVE Goal
  <2>1. \A p \in Pushers : push'[p] = Quiet
    BY <1>1 DEF NewProcess
  <2>2. \A r \in Replicas : pull'[r] = NoCall
    BY <1>1 DEF NewProcess
  <2>3. belt' = <<>> /\ phase' = "down" /\ sweep' = NoSweep
    BY <1>1 DEF NewProcess
  <2> QED
    BY <2>1, <2>2, <2>3 DEF Quiet, NoCall, NoSweep, Carrying
<1>2. ASSUME nextSeq = 0
      PROVE  /\ belt = <<>> /\ sweep.kept = <<>> /\ phase # "fill"
             /\ \A p \in Pushers : ~Carrying(p)
             /\ \A r \in Replicas : pull[r].pc # "drain"
  BY <1>2, Zenon DEF Unstarted
<1>3. CASE Connect \/ ReplayPull \/ Reconnect
  BY <1>2, <1>3, Zenon DEF Connect, ReplayPull, Reconnect, Carrying
<1>4. CASE ReplayRaise
  <2> DEFINE s == backlog.rest
  <2>1. s = <<>>
    <3>1. s \in Seq(Record)
      BY Zenon DEF FlowTypes
    <3>2. s # <<>> => s[Len(s)] \in Record
      BY <3>1, RangeMoves, Zenon
    <3>3. s # <<>> => s[Len(s)].seq \in Nat \ {0}
      BY <3>2, Zenon DEF Record
    <3> QED
      BY <1>4, <3>3 DEF ReplayRaise, FlowTypes
  <2>2. nextSeq = 0 /\ phase' = "up" /\ UNCHANGED <<belt, sweep, push, pull>>
    BY <1>4, <2>1, Zenon DEF ReplayRaise
  <2> QED
    BY <1>2, <2>2, Zenon DEF Carrying
<1>5. CASE ReplayPut
  BY <1>2, <1>5, Zenon DEF ReplayPut
<1>6. CASE Crash
  BY <1>1, <1>6, Zenon DEF Crash
<1>7. ASSUME NEW p \in Pushers, Draw(p) PROVE FALSE
  BY <1>7 DEF Draw, FlowTypes
<1>8. ASSUME NEW p \in Pushers,
             \/ DeadLetter(p) \/ QueuePush(p) \/ PersistFails(p)
             \/ Belt(p) \/ DropOldest(p) \/ BeltAgain(p)
      PROVE  FALSE
  <2>1. Carrying(p) /\ nextSeq' = nextSeq
    BY <1>8, Zenon DEF Carrying, DeadLetter, QueuePush, PersistFails, Belt, DropOldest, BeltAgain
  <2> QED
    BY <1>2, <2>1, Zenon
<1>9. ASSUME NEW p \in Pushers, NEW c \in Sockets, Send(p, c) PROVE Goal
  <2>1. CASE NewProcess
    BY <1>1, <2>1, Zenon
  <2>2. CASE ~NewProcess
    <3>1. UNCHANGED <<nextSeq, belt, sweep, phase, pull>>
      BY <1>9, <2>2, Zenon DEF Send
    <3>2. \A q \in Pushers : Carrying(q)' => Carrying(q)
      BY <1>9, <2>2, SendPasses, Zenon DEF Carrying
    <3> QED
      BY <1>2, <3>1, <3>2, Zenon
  <2> QED
    BY <2>1, <2>2, Zenon
<1>10. ASSUME NEW c \in Sockets, AddConsumer(c) \/ RemoveConsumer(c) \/ CloseWriteCh(c)
       PROVE  Goal
  BY <1>2, <1>10, Zenon DEF AddConsumer, RemoveConsumer, CloseWriteCh, Moves, Carrying
<1>11. ASSUME NEW r \in Replicas,
              AckBelow(r) \/ PullRaw(r) \/ GiveUp(r) \/ AckDrained(r) \/ Receive(r) \/ AnswerLost(r)
       PROVE  Goal
  <2>1. UNCHANGED <<nextSeq, belt, sweep, phase, push>>
    BY <1>11 DEF AckBelow, PullRaw, Answer, GiveUp, AckDrained, Receive, AnswerLost
  <2>2. \A q \in Replicas : pull'[q].pc = "drain" => pull[q].pc = "drain"
    <3>1. pull \in [Replicas -> PullCalls]
      BY Zenon DEF FlowTypes
    <3>2. \/ pull' = [pull EXCEPT ![r].pc = "poll"] \/ pull' = [pull EXCEPT ![r] = NoCall]
          \/ \E got : pull' = [pull EXCEPT ![r] = [pc |-> "answer", got |-> got]]
      BY <1>11 DEF AckBelow, PullRaw, Answer, GiveUp, AckDrained, Receive, AnswerLost
    <3>3. CASE pull' = [pull EXCEPT ![r].pc = "poll"]
      BY <3>1, <3>3, Zenon DEF PullCalls
    <3>4. CASE pull' = [pull EXCEPT ![r] = NoCall]
      BY <3>1, <3>4, Rests, Zenon
    <3>5. CASE \E got : pull' = [pull EXCEPT ![r] = [pc |-> "answer", got |-> got]]
      BY <3>1, <3>5
    <3> QED
      BY <3>2, <3>3, <3>4, <3>5, Zenon
  <2> QED
    BY <1>2, <2>1, <2>2, Zenon DEF Carrying
<1>12. ASSUME NEW r \in Replicas, DrainUpdateCh(r) PROVE FALSE
  BY <1>2, <1>12, Zenon DEF DrainUpdateCh
<1>13. CASE \/ \E u \in Updates : Age(u)
            \/ PruneStart \/ PruneTake \/ PrunePut \/ QueueTTLCleanup
  <2>1. UNCHANGED <<nextSeq, phase, push, pull>>
    BY <1>13, Zenon DEF Age, PruneStart, PruneTake, PrunePut, QueueTTLCleanup, process
  <2>2. belt = <<>> /\ sweep.kept = <<>>
    BY <1>2, <2>1, Zenon
  <2>3. belt' = <<>> /\ sweep'.kept = <<>>
    BY <1>13, <2>2 DEF Age, PruneStart, PruneTake, PrunePut, QueueTTLCleanup, process, NoSweep,
       FlowTypes
  <2> QED
    BY <1>2, <2>1, <2>3, Zenon DEF Carrying
<1>14. CASE UNCHANGED vars
  BY <1>2, <1>14, Zenon DEF vars, process, Carrying
<1> QED
  BY <1>3, <1>4, <1>5, <1>6, <1>7, <1>8, <1>9, <1>10, <1>11, <1>12, <1>13, <1>14,
     Zenon DEF FlowNext

\* A push that holds the copy of a stored update.
Holding(p) == push[p].pc \in {"belt", "full", "again"}

\* Updates whose deletion is no loss, or one that is accounted for.
Accounted == delivered \cup InMemory \cup evicted \cup aged \cup exposed

\* Once the process has begun to number or to replay, every row is accounted for.
Held ==
    mode = "legacy" /\ (nextSeq > 0 \/ phase \in {"raise", "fill"}) => Us(rows) \subseteq Accounted

\* What is in memory before a step ...
LEMMA MemoryParts ==
    /\ \A x \in Range(belt) \cup Range(backlog.rest) \cup Range(sweep.kept) : x.u \in InMemory
    /\ \A p \in Pushers : Holding(p) => push[p].rec.u \in InMemory
    /\ \A u \in InMemory :
          \/ \E x \in Range(belt) \cup Range(backlog.rest) \cup Range(sweep.kept) : u = x.u
          \/ \E p \in Pushers : Holding(p) /\ u = push[p].rec.u
BY Zenon DEF InMemory, Us, Holding

\* ... and after it.
LEMMA MemoryPartsAfter ==
    /\ \A x \in Range(belt') \cup Range(backlog'.rest) \cup Range(sweep'.kept) : x.u \in InMemory'
    /\ \A p \in Pushers : Holding(p)' => push'[p].rec.u \in InMemory'
BY Zenon DEF InMemory, Us, Holding

\* A step after which everything that was in memory is accounted for.
HeldKept ==
    /\ delivered \subseteq delivered' /\ evicted \subseteq evicted'
    /\ aged \subseteq aged' /\ exposed \subseteq exposed'
    /\ \A x \in Range(belt) \cup Range(backlog.rest) \cup Range(sweep.kept) : x.u \in Accounted'
    /\ \A p \in Pushers : Holding(p) => push[p].rec.u \in Accounted'

\* Such a step loses sight of nothing.
LEMMA AccountedGrows == ASSUME HeldKept PROVE Accounted \subseteq Accounted'
<1>1. \A u \in InMemory : u \in Accounted'
  <2> TAKE u \in InMemory
  <2>1. \/ \E x \in Range(belt) \cup Range(backlog.rest) \cup Range(sweep.kept) : u = x.u
        \/ \E p \in Pushers : Holding(p) /\ u = push[p].rec.u
    BY MemoryParts, Zenon
  <2> QED
    BY <2>1, Zenon DEF HeldKept
<1>2. delivered \cup evicted \cup aged \cup exposed \subseteq Accounted'
  BY Zenon DEF HeldKept, Accounted
<1> QED
  BY <1>1, <1>2 DEF Accounted

\* Every row stays accounted for and, without offsets, so does every copy in memory.
Keeps == Held' /\ (mode = "legacy" => HeldKept)

\* A step of that kind that stores nothing keeps every row accounted for.
LEMMA HeldFrame ==
    ASSUME Held, mode = "legacy" => HeldKept, mode' = mode, rows' \subseteq rows,
           nextSeq' > 0 \/ phase' \in {"raise", "fill"}
               => nextSeq > 0 \/ phase \in {"raise", "fill"}
    PROVE  Keeps
<1> SUFFICES ASSUME mode = "legacy", nextSeq' > 0 \/ phase' \in {"raise", "fill"}
             PROVE  Us(rows') \subseteq Accounted'
  BY Zenon DEF Keeps, Held
<1>1. Us(rows) \subseteq Accounted
  BY Zenon DEF Held
<1>2. Us(rows') \subseteq Us(rows)
  BY Zenon DEF Us
<1> QED
  BY <1>1, <1>2, AccountedGrows, Zenon

\* The memory stays in place, or what leaves it has another place.
LEMMA Staying ==
    /\ \A x \in Range(belt') \cup Range(backlog'.rest) \cup Range(sweep'.kept) : x.u \in Accounted'
    /\ \A p \in Pushers : Holding(p)' => push'[p].rec.u \in Accounted'
    /\ delivered' \cup evicted' \cup aged' \cup exposed' \subseteq Accounted'
BY MemoryPartsAfter DEF Accounted

\* A send that does not wait leaves its record on the belt, or drops it.
LEMMA OfferHeld ==
    ASSUME FlowTypes, mode = "legacy", NEW r \in Record, Offer(r)
    PROVE  /\ \A x \in Range(belt) : x.u \in Accounted'
           /\ r.u \in Accounted' /\ evicted \subseteq evicted'
<1>1. \/ Range(belt') = Range(belt) \cup {r} /\ evicted' = evicted
      \/ belt' = belt /\ evicted' = evicted \cup {r.u}
  BY OfferMoves DEF Evict
<1>2. CASE Range(belt') = Range(belt) \cup {r} /\ evicted' = evicted
  BY <1>2, Staying, Zenon
<1>3. CASE belt' = belt /\ evicted' = evicted \cup {r.u}
  BY <1>3, Staying, Zenon
<1> QED
  BY <1>1, <1>2, <1>3

\* What a step leaves in place is accounted for.
LEMMA HeldStill ==
    ASSUME UNCHANGED <<belt, backlog, sweep>>,
           \A p \in Pushers : Holding(p) => push'[p] = push[p],
           delivered \subseteq delivered', evicted \subseteq evicted',
           aged \subseteq aged', exposed \subseteq exposed'
    PROVE  HeldKept
<1>1. \A p \in Pushers : Holding(p) => Holding(p)' /\ push'[p].rec = push[p].rec
  BY DEF Holding
<1> QED
  BY <1>1, Staying DEF HeldKept

\* The replay puts what it has read on the belt, and drops what does not fit.
LEMMA HeldReplay ==
    ASSUME FlowTypes, Held, Connect \/ ReplayPull \/ ReplayRaise \/ ReplayPut \/ Reconnect
    PROVE  Keeps
<1>1. CASE Connect \/ Reconnect
  <2>1. /\ UNCHANGED <<mode, rows, nextSeq, belt, backlog, sweep, push, delivered, evicted, aged,
                       exposed>>
        /\ phase' \in {"pull", "down"}
    BY <1>1, Zenon DEF Connect, Reconnect, env, history
  <2> QED
    BY <2>1, HeldStill, HeldFrame, Zenon
<1>2. CASE ReplayPull
  <2>1. UNCHANGED <<mode, rows, nextSeq, belt, sweep, push, delivered, aged, exposed>>
    BY <1>2, Zenon DEF ReplayPull
  <2>2. CASE phase' = "up" /\ UNCHANGED <<backlog, evicted>>
    BY <2>1, <2>2, HeldStill, HeldFrame, Zenon
  <2>3. ASSUME NEW s \in QueuePull(0, ReplayLimit),
               backlog' = [rest |-> s, whole |-> Range(s) = rows],
               Evict(Us(rows) \ Us(Range(s)))
        PROVE  Keeps
    <3> SUFFICES ASSUME mode = "legacy" PROVE Us(rows') \subseteq Accounted' /\ HeldKept
      BY <2>1, Zenon DEF Held, Keeps
    <3>1. Us(rows) \ Us(Range(s)) \subseteq Accounted'
      BY <2>3, Staying, Zenon DEF Evict
    <3>2. Us(Range(s)) \subseteq Accounted'
      BY <2>3, Staying, Zenon DEF Us
    <3>3. backlog.rest = <<>>
      BY <1>2, Zenon DEF ReplayPull, FlowTypes
    <3>4. Range(backlog.rest) = {}
      BY <3>3 DEF Range
    <3>5. HeldKept
      BY <2>1, <2>3, <3>4, Staying, Zenon DEF HeldKept, Holding, Evict
    <3> QED
      BY <2>1, <3>1, <3>2, <3>5, Zenon
  <2> QED
    BY <1>2, <2>2, <2>3, Zenon DEF ReplayPull
<1>3. CASE ReplayRaise
  <2>1. /\ UNCHANGED <<mode, rows, belt, sweep, push, delivered, evicted, aged, exposed>>
        /\ backlog'.rest = backlog.rest /\ phase = "raise"
    BY <1>3, Zenon DEF ReplayRaise, env, history
  <2>2. HeldKept
    BY <2>1, Staying, Zenon DEF HeldKept, Holding
  <2> QED
    BY <2>1, <2>2, HeldFrame, Zenon
<1>4. CASE ReplayPut
  <2>1. /\ UNCHANGED <<mode, rows, nextSeq, sweep, push, delivered, aged, exposed>>
        /\ phase = "fill" /\ Offer(Head(backlog.rest))
        /\ backlog' = [backlog EXCEPT !.rest = Tail(@)]
    BY <1>4, Zenon DEF ReplayPut, env
  <2>2. backlog \in [rest : Seq(Record), whole : BOOLEAN] /\ backlog.rest # <<>>
    BY <2>1, Zenon DEF FlowTypes
  <2>3. /\ Head(backlog.rest) \in Record /\ backlog'.rest = Tail(backlog.rest)
        /\ Range(backlog.rest) = Range(Tail(backlog.rest)) \cup {Head(backlog.rest)}
    BY <2>1, <2>2, RangeMoves, Zenon
  <2>4. ASSUME mode = "legacy" PROVE HeldKept
    <3>1. /\ \A x \in Range(belt) : x.u \in Accounted'
          /\ Head(backlog.rest).u \in Accounted' /\ evicted \subseteq evicted'
      BY <2>1, <2>3, <2>4, OfferHeld, Zenon
    <3>2. \A x \in Range(Tail(backlog.rest)) : x.u \in Accounted'
      BY <2>3, Staying, Zenon
    <3>3. \A x \in Range(backlog.rest) : x.u \in Accounted'
      BY <2>3, <3>1, <3>2, Zenon
    <3> QED
      BY <2>1, <3>1, <3>3, Staying, Zenon DEF HeldKept, Holding
  <2> QED
    BY <2>1, <2>4, HeldFrame
<1> QED
  BY <1>1, <1>2, <1>3, <1>4

\* A draw before the backlog is loaded exposes the rows that are not in memory.
LEMMA HeldDrawn ==
    ASSUME FlowTypes, Numbered, Held, NEW p \in Pushers, Draw(p)
    PROVE  Keeps
<1>1. /\ UNCHANGED <<mode, rows, phase, belt, backlog, sweep, delivered, evicted, aged>>
      /\ exposed' = IF loaded \/ rows = {} THEN exposed ELSE exposed \cup Us(rows) \cup {sent + 1}
      /\ nextSeq' = nextSeq + 1
  BY Zenon DEF Draw
<1>2. \A q \in Pushers : Holding(q) => push'[q] = push[q]
  <2>1. push[p].pc = "idle"
    BY Rests, Zenon DEF Draw
  <2> QED
    BY <2>1, Zenon DEF Draw, Holding, FlowTypes
<1>3. exposed \subseteq exposed'
  BY <1>1, Zenon
<1>4. CASE nextSeq > 0
  BY <1>1, <1>2, <1>3, <1>4, HeldStill, HeldFrame, Zenon
<1>5. CASE ~(nextSeq > 0)
  <2>1. loaded => rows = {}
    <3>1. loaded => \A x \in rows : x.seq <= nextSeq
      BY Zenon DEF Numbered
    <3>2. \A x \in rows : ~(x.seq <= nextSeq)
      BY <1>5 DEF FlowTypes, Record
    <3> QED
      BY <3>1, <3>2, Zenon
  <2>2. rows = {} \/ Us(rows) \subseteq exposed'
    BY <1>1, <2>1, Zenon
  <2>3. Us(rows') \subseteq exposed'
    BY <1>1, <2>2, Zenon DEF Us
  <2>4. Held'
    BY <2>3, Staying DEF Held
  <2> QED
    BY <1>1, <1>2, <1>3, <2>4, HeldStill, Zenon DEF Keeps
<1> QED
  BY <1>4, <1>5

\* pushUpdate keeps the copy of what it stores until it is on the belt or dropped.
LEMMA HeldPush ==
    ASSUME FlowTypes, Unstarted, Held, NEW p \in Pushers,
           \/ DeadLetter(p) \/ QueuePush(p) \/ PersistFails(p)
           \/ Belt(p) \/ DropOldest(p) \/ BeltAgain(p)
    PROVE  Keeps
<1>0. Carrying(p) /\ UNCHANGED <<mode, nextSeq, phase, backlog, sweep, delivered, aged>>
  BY Zenon DEF Carrying, DeadLetter, QueuePush, PersistFails, Belt, DropOldest, BeltAgain, env,
     history
<1>1. nextSeq > 0
  BY <1>0 DEF Unstarted, FlowTypes
<1>2. push \in [Pushers -> PushCalls] /\ push[p].rec \in Record /\ belt \in Seq(Record)
  BY <1>0, Zenon DEF FlowTypes
<1>3. CASE DeadLetter(p) \/ PersistFails(p)
  <2>1. UNCHANGED <<rows, belt, evicted, exposed>>
    BY <1>3, Zenon DEF DeadLetter, PersistFails, history
  <2>2. \A q \in Pushers : Holding(q) => push'[q] = push[q]
    BY <1>2, <1>3, Zenon DEF DeadLetter, PersistFails, Holding
  <2> QED
    BY <1>0, <1>1, <2>1, <2>2, HeldStill, HeldFrame, Zenon
<1>4. CASE QueuePush(p)
  <2>1. /\ UNCHANGED <<belt, evicted>> /\ exposed \subseteq exposed'
        /\ rows' = rows \cup {push[p].rec}
    BY <1>4, Zenon DEF QueuePush
  <2>2. /\ \A q \in Pushers : Holding(q) => push'[q] = push[q]
        /\ Holding(p)' /\ push'[p].rec = push[p].rec
    BY <1>2, <1>4, Zenon DEF QueuePush, Holding, PushCalls
  <2>3. HeldKept /\ Accounted \subseteq Accounted'
    BY <1>0, <2>1, <2>2, HeldStill, AccountedGrows, Zenon
  <2>4. push[p].rec.u \in Accounted'
    BY <2>2, Staying, Zenon
  <2> QED
    BY <1>0, <1>1, <2>1, <2>3, <2>4, Zenon DEF Keeps, Held, Us
<1>5. CASE Belt(p) \/ DropOldest(p) \/ BeltAgain(p)
  <2>1. UNCHANGED <<rows, exposed>>
    BY <1>5, Zenon DEF Belt, DropOldest, BeltAgain, history
  <2>2. /\ \A q \in Pushers : q # p => push'[q] = push[q]
        /\ push'[p].pc \in {"belt", "full", "again"} => push'[p].rec = push[p].rec
    BY <1>5, PushPasses, Zenon
  <2>3. \A q \in Pushers : Holding(q) /\ q # p => push[q].rec.u \in Accounted'
    BY <2>2, Staying, Zenon DEF Holding
  <2>4. \A x \in Range(backlog.rest) \cup Range(sweep.kept) : x.u \in Accounted'
    BY <1>0, Staying, Zenon
  <2>5. Holding(p)' => push[p].rec.u \in Accounted'
    BY <2>2, Staying, Zenon DEF Holding
  <2>6. ASSUME mode = "legacy"
        PROVE  /\ evicted \subseteq evicted' /\ push[p].rec.u \in Accounted'
               /\ \A x \in Range(belt) : x.u \in Accounted'
    <3>1. CASE Belt(p)
      <4>1. UNCHANGED evicted
        BY <3>1, Zenon DEF Belt, history
      <4>2. CASE belt' = Append(belt, push[p].rec)
        <5>1. Range(belt') = Range(belt) \cup {push[p].rec}
          BY <1>2, <4>2, RangeMoves
        <5> QED
          BY <4>1, <5>1, Staying, Zenon
      <4>3. CASE belt' = belt /\ push' = [push EXCEPT ![p].pc = "full"]
        <5>1. Holding(p)'
          BY <1>2, <4>3, Zenon DEF Holding, PushCalls
        <5> QED
          BY <2>5, <4>1, <4>3, <5>1, Staying
      <4> QED
        BY <3>1, <4>2, <4>3, Zenon DEF Belt
    <3>2. CASE DropOldest(p)
      <4>1. Holding(p)'
        BY <1>2, <3>2, Zenon DEF DropOldest, Holding, PushCalls
      <4>2. CASE belt = <<>>
        BY <2>5, <3>2, <4>1, <4>2, Staying, Zenon DEF DropOldest, Evict
      <4>3. CASE belt # <<>>
        <5>1. Range(belt) = Range(Tail(belt)) \cup {Head(belt)}
          BY <1>2, <4>3, RangeMoves, Zenon
        <5>2. belt' = Tail(belt) /\ evicted' = evicted \cup {Head(belt).u}
          BY <2>6, <3>2, <4>3, Zenon DEF DropOldest, Evict
        <5>3. Head(belt).u \in Accounted' /\ \A x \in Range(Tail(belt)) : x.u \in Accounted'
          BY <5>2, Staying
        <5> QED
          BY <2>5, <4>1, <5>1, <5>2, <5>3, Zenon
      <4> QED
        BY <4>2, <4>3, Zenon
    <3>3. CASE BeltAgain(p)
      BY <1>2, <2>6, <3>3, OfferHeld, Zenon DEF BeltAgain
    <3> QED
      BY <1>5, <3>1, <3>2, <3>3, Zenon
  <2>7. mode = "legacy" => HeldKept
    BY <1>0, <2>1, <2>3, <2>4, <2>6, Staying DEF HeldKept
  <2> QED
    BY <1>0, <1>1, <2>1, <2>7, HeldFrame, Zenon
<1> QED
  BY <1>3, <1>4, <1>5

\* getUpdates counts what it takes off the belt as delivered.
LEMMA HeldPull ==
    ASSUME FlowTypes, Held, NEW r \in Replicas,
           \/ AckBelow(r) \/ PullRaw(r) \/ GiveUp(r) \/ DrainUpdateCh(r)
           \/ AckDrained(r) \/ Receive(r) \/ AnswerLost(r)
    PROVE  Keeps
<1>1. UNCHANGED <<mode, nextSeq, phase, backlog, sweep, push, evicted, aged, exposed>>
  BY Zenon DEF AckBelow, PullRaw, Answer, GiveUp, DrainUpdateCh, AckDrained, Receive, AnswerLost,
     env, history
<1>2. rows' \subseteq rows
  BY AckMoves, Zenon DEF AckBelow, PullRaw, Answer, GiveUp, DrainUpdateCh, AckDrained, Receive,
     AnswerLost
<1>3. delivered \subseteq delivered'
  BY Zenon DEF AckBelow, PullRaw, Answer, GiveUp, DrainUpdateCh, AckDrained, Receive, AnswerLost,
     history
<1>4. CASE DrainUpdateCh(r)
  <2>1. belt # <<>> /\ belt' = Tail(belt) /\ delivered' = delivered \cup {Head(belt).u}
    BY <1>4, Zenon DEF DrainUpdateCh
  <2>2. Range(belt) = Range(Tail(belt)) \cup {Head(belt)}
    BY <2>1, RangeMoves, Zenon DEF FlowTypes
  <2>3. Head(belt).u \in Accounted' /\ \A x \in Range(Tail(belt)) : x.u \in Accounted'
    BY <2>1, Staying, Zenon
  <2>4. HeldKept
    BY <1>1, <1>3, <2>2, <2>3, Staying, Zenon DEF HeldKept, Holding
  <2> QED
    BY <1>1, <1>2, <2>4, HeldFrame, Zenon
<1>5. CASE ~DrainUpdateCh(r)
  <2>1. UNCHANGED belt
    BY <1>5, Zenon DEF AckBelow, PullRaw, Answer, GiveUp, AckDrained, Receive, AnswerLost
  <2> QED
    BY <1>1, <1>2, <1>3, <2>1, HeldStill, HeldFrame, Zenon
<1> QED
  BY <1>4, <1>5, Zenon

\* Housekeeping drops what is too old, and puts the rest back or drops it.
LEMMA HeldSweep ==
    ASSUME FlowTypes, Held,
           \/ \E u \in Updates : Age(u)
           \/ PruneStart \/ PruneTake \/ PrunePut \/ QueueTTLCleanup
    PROVE  Keeps
<1>1. UNCHANGED <<mode, nextSeq, phase, backlog, push, delivered, exposed>> /\ rows' \subseteq rows
  BY Zenon DEF Age, PruneStart, PruneTake, PrunePut, QueueTTLCleanup, process, env, history
<1>2. /\ sweep \in [at : {"off", "take", "put"}, old : SUBSET aged, kept : Seq(Record)]
      /\ sweep.kept \in Seq(Record) /\ belt \in Seq(Record)
  BY Zenon DEF FlowTypes
<1>3. CASE \E u \in Updates : Age(u)
  <2>1. UNCHANGED <<belt, sweep, evicted>> /\ aged \subseteq aged'
    BY <1>3, Zenon DEF Age, process, history
  <2> QED
    BY <1>1, <2>1, HeldStill, HeldFrame, Zenon
<1>4. CASE PruneStart \/ QueueTTLCleanup
  <2>1. UNCHANGED <<belt, evicted, aged>> /\ sweep.kept = <<>>
    <3>1. CASE PruneStart
      BY <3>1, Zenon DEF PruneStart, NoSweep, history
    <3>2. CASE QueueTTLCleanup
      BY <3>2, Zenon DEF QueueTTLCleanup, env, history
    <3> QED
      BY <1>4, <3>1, <3>2, Zenon
  <2>2. Range(sweep.kept) = {}
    BY <2>1 DEF Range
  <2>3. HeldKept
    BY <1>1, <2>1, <2>2, Staying, Zenon DEF HeldKept, Holding
  <2> QED
    BY <1>1, <2>3, HeldFrame, Zenon
<1>5. CASE PruneTake
  <2>1. UNCHANGED <<evicted, aged>>
    BY <1>5, Zenon DEF PruneTake, env, history
  <2>2. CASE belt = <<>>
    <3>1. belt' = belt /\ sweep'.kept = sweep.kept
      BY <1>2, <1>5, <2>2, Zenon DEF PruneTake
    <3>2. HeldKept
      BY <1>1, <2>1, <3>1, Staying, Zenon DEF HeldKept, Holding
    <3> QED
      BY <1>1, <3>2, HeldFrame
  <2>3. CASE belt # <<>>
    <3>1. /\ belt' = Tail(belt) /\ Head(belt) \in Record
          /\ Range(belt) = Range(Tail(belt)) \cup {Head(belt)}
      BY <1>2, <1>5, <2>3, RangeMoves, Zenon DEF PruneTake
    <3>2. /\ Head(belt).u \in Accounted'
          /\ \A x \in Range(sweep.kept) : x.u \in Accounted'
      <4>1. CASE Head(belt).u \in sweep.old
        <5>1. sweep' = sweep /\ Head(belt).u \in aged
          BY <1>2, <1>5, <2>3, <4>1, Zenon DEF PruneTake
        <5> QED
          BY <2>1, <5>1, Staying, Zenon
      <4>2. CASE Head(belt).u \notin sweep.old
        <5>1. sweep'.kept = Append(sweep.kept, Head(belt))
          BY <1>2, <1>5, <2>3, <4>2, Zenon DEF PruneTake
        <5>2. Range(sweep'.kept) = Range(sweep.kept) \cup {Head(belt)}
          BY <1>2, <3>1, <5>1, RangeMoves
        <5> QED
          BY <5>2, Staying, Zenon
      <4> QED
        BY <4>1, <4>2, Zenon
    <3>3. \A x \in Range(Tail(belt)) : x.u \in Accounted'
      BY <3>1, Staying, Zenon
    <3>4. HeldKept
      BY <1>1, <2>1, <3>1, <3>2, <3>3, Staying, Zenon DEF HeldKept, Holding
    <3> QED
      BY <1>1, <3>4, HeldFrame
  <2> QED
    BY <2>2, <2>3, Zenon
<1>6. CASE PrunePut
  <2>1. /\ UNCHANGED aged /\ sweep.kept # <<>> /\ Offer(Head(sweep.kept))
        /\ sweep' = [sweep EXCEPT !.kept = Tail(@)]
    BY <1>6 DEF PrunePut, env
  <2>2. /\ Head(sweep.kept) \in Record /\ sweep'.kept = Tail(sweep.kept)
        /\ Range(sweep.kept) = Range(Tail(sweep.kept)) \cup {Head(sweep.kept)}
    BY <1>2, <2>1, RangeMoves, Zenon
  <2>3. ASSUME mode = "legacy" PROVE HeldKept
    <3>1. /\ \A x \in Range(belt) : x.u \in Accounted'
          /\ Head(sweep.kept).u \in Accounted' /\ evicted \subseteq evicted'
      BY <2>1, <2>2, <2>3, OfferHeld, Zenon
    <3>2. \A x \in Range(Tail(sweep.kept)) : x.u \in Accounted'
      BY <2>2, Staying
    <3>3. \A x \in Range(sweep.kept) : x.u \in Accounted'
      BY <2>2, <3>1, <3>2, Zenon
    <3> QED
      BY <1>1, <2>1, <3>1, <3>3, Staying, Zenon DEF HeldKept, Holding
  <2> QED
    BY <1>1, <2>3, HeldFrame, Zenon
<1> QED
  BY <1>3, <1>4, <1>5, <1>6, Zenon

\* The process dies, and what is in its memory with it.
Dies == /\ Held' /\ NewProcess
        /\ UNCHANGED <<mode, delivered, evicted, aged, exposed, lost>>

\* Every step keeps the rows accounted for, and all but the death of the process
\* what is in memory.
LEMMA HeldStep ==
    ASSUME FlowTypes, Numbered, Unstarted, Held, [FlowNext]_vars
    PROVE  Keeps \/ Dies
<1>1. ASSUME NewProcess, UNCHANGED <<mode, delivered, evicted, aged, exposed, lost>> PROVE Dies
  <2>1. ~(nextSeq' > 0 \/ phase' \in {"raise", "fill"})
    BY <1>1 DEF NewProcess
  <2> QED
    BY <1>1, <2>1, Zenon DEF Held, Dies
<1>2. CASE Crash
  BY <1>1, <1>2, Zenon DEF Crash
<1>3. CASE Connect \/ ReplayPull \/ ReplayRaise \/ ReplayPut \/ Reconnect
  BY <1>3, HeldReplay
<1>4. ASSUME NEW p \in Pushers, Draw(p) PROVE Keeps
  BY <1>4, HeldDrawn, Zenon
<1>5. ASSUME NEW p \in Pushers,
             \/ DeadLetter(p) \/ QueuePush(p) \/ PersistFails(p)
             \/ Belt(p) \/ DropOldest(p) \/ BeltAgain(p)
      PROVE  Keeps
  BY <1>5, HeldPush, Zenon
<1>6. ASSUME NEW p \in Pushers, NEW c \in Sockets, Send(p, c) PROVE Keeps \/ Dies
  <2>1. CASE NewProcess
    BY <1>1, <1>6, <2>1, Zenon DEF Send
  <2>2. CASE ~NewProcess
    <3>1. UNCHANGED <<mode, rows, nextSeq, phase, belt, backlog, sweep, delivered, evicted, aged,
                      exposed>>
      BY <1>6, <2>2, Zenon DEF Send, history
    <3>2. \A q \in Pushers : Holding(q) => push'[q] = push[q]
      BY <1>6, <2>2, SendPasses, Zenon DEF Holding
    <3> QED
      BY <3>1, <3>2, HeldStill, HeldFrame, Zenon
  <2> QED
    BY <2>1, <2>2, Zenon
<1>7. ASSUME NEW c \in Sockets, AddConsumer(c) \/ RemoveConsumer(c) \/ CloseWriteCh(c)
      PROVE  Keeps
  <2>1. UNCHANGED <<mode, rows, nextSeq, phase, belt, backlog, sweep, push, delivered, evicted,
                    aged, exposed>>
    BY <1>7, Zenon DEF AddConsumer, RemoveConsumer, CloseWriteCh, Moves, history
  <2> QED
    BY <2>1, HeldStill, HeldFrame, Zenon
<1>8. ASSUME NEW r \in Replicas,
             \/ AckBelow(r) \/ PullRaw(r) \/ GiveUp(r) \/ DrainUpdateCh(r)
             \/ AckDrained(r) \/ Receive(r) \/ AnswerLost(r)
      PROVE  Keeps
  BY <1>8, HeldPull, Zenon
<1>9. CASE \/ \E u \in Updates : Age(u)
           \/ PruneStart \/ PruneTake \/ PrunePut \/ QueueTTLCleanup
  BY <1>9, HeldSweep, Zenon
<1>10. CASE UNCHANGED vars
  <2>1. UNCHANGED <<mode, rows, nextSeq, phase, belt, backlog, sweep, push, delivered, evicted,
                    aged, exposed>>
    BY <1>10 DEF vars, process, env, history
  <2> QED
    BY <2>1, HeldStill, HeldFrame, Zenon
<1> QED
  BY <1>2, <1>3, <1>4, <1>5, <1>6, <1>7, <1>8, <1>9, <1>10 DEF FlowNext

-----------------------------------------------------------------------------
(* The acknowledgements. *)

\* Outside the two acknowledgements the histories only grow.
LEMMA HistoryGrows ==
    ASSUME [FlowNext]_vars
    PROVE  /\ mode' = mode /\ exposed \subseteq exposed' /\ killed \subseteq killed'
           /\ \/ lost' = lost
              \/ \E r \in Replicas : AckBelow(r) /\ QueueAck(cursor[r] - 1)
              \/ \E r \in Replicas : AckDrained(r) /\ QueueAck(Max(Seqs(Range(pull[r].got))))
<1>1. CASE Connect \/ ReplayPull \/ ReplayRaise \/ ReplayPut \/ Reconnect
  BY <1>1 DEF Connect, ReplayPull, ReplayRaise, ReplayPut, Reconnect, Offer, Evict, env, history
<1>2. CASE Crash
  BY <1>2, Zenon DEF Crash, NewProcess
<1>3. ASSUME NEW p \in Pushers,
             \/ Draw(p) \/ DeadLetter(p) \/ QueuePush(p) \/ PersistFails(p)
             \/ Belt(p) \/ DropOldest(p) \/ BeltAgain(p)
      PROVE  /\ mode' = mode /\ exposed \subseteq exposed' /\ killed \subseteq killed'
             /\ lost' = lost
  BY <1>3, Zenon DEF Draw, DeadLetter, QueuePush, PersistFails, Belt, DropOldest, BeltAgain, Offer,
     Evict, env, history
<1>4. ASSUME NEW p \in Pushers, NEW c \in Sockets, Send(p, c)
      PROVE  /\ mode' = mode /\ exposed \subseteq exposed' /\ killed \subseteq killed'
             /\ lost' = lost
  BY <1>4, Zenon DEF Send, NewProcess
<1>5. ASSUME NEW c \in Sockets, AddConsumer(c) \/ RemoveConsumer(c) \/ CloseWriteCh(c)
      PROVE  /\ mode' = mode /\ exposed \subseteq exposed' /\ killed \subseteq killed'
             /\ lost' = lost
  BY <1>5, Zenon DEF AddConsumer, RemoveConsumer, CloseWriteCh, Moves, history
<1>6. ASSUME NEW r \in Replicas,
             PullRaw(r) \/ GiveUp(r) \/ DrainUpdateCh(r) \/ Receive(r) \/ AnswerLost(r)
      PROVE  /\ mode' = mode /\ exposed \subseteq exposed' /\ killed \subseteq killed'
             /\ lost' = lost
  BY <1>6, Zenon DEF PullRaw, Answer, GiveUp, DrainUpdateCh, Receive, AnswerLost, env, history
<1>7. ASSUME NEW r \in Replicas, AckBelow(r)
      PROVE  /\ mode' = mode /\ exposed \subseteq exposed' /\ killed \subseteq killed'
             /\ lost' = lost \/ QueueAck(cursor[r] - 1)
  BY <1>7, AckMoves, Zenon DEF AckBelow
<1>8. ASSUME NEW r \in Replicas, AckDrained(r)
      PROVE  /\ mode' = mode /\ exposed \subseteq exposed' /\ killed \subseteq killed'
             /\ lost' = lost \/ QueueAck(Max(Seqs(Range(pull[r].got))))
  BY <1>8, AckMoves, Zenon DEF AckDrained
<1>9. CASE \/ \E u \in Updates : Age(u)
           \/ PruneStart \/ PruneTake \/ PrunePut \/ QueueTTLCleanup
  BY <1>9, Zenon DEF Age, PruneStart, PruneTake, PrunePut, QueueTTLCleanup, Offer, Evict, env,
     history
<1>10. CASE UNCHANGED vars
  BY <1>10, Zenon DEF vars, env, history
<1> QED
  BY <1>1, <1>2, <1>3, <1>4, <1>5, <1>6, <1>7, <1>8, <1>9, <1>10, Zenon DEF FlowNext

\* With offsets, what an acknowledgement deletes unseen is exposed.
LEMMA AckedBelowStep ==
    ASSUME FlowTypes, Seen, AckedWasSeen, [FlowNext]_vars, mode = "offset"
    PROVE  lost' \subseteq exposed'
<1>1. lost \subseteq exposed'
  BY HistoryGrows, Zenon DEF AckedWasSeen
<1>2. ASSUME NEW r \in Replicas, QueueAck(cursor[r] - 1) PROVE lost' \subseteq exposed'
  <2> DEFINE acked == {x \in rows : x.seq <= cursor[r] - 1}
  <2>1. lost' = lost \cup (Us(acked) \ (delivered \cup aged))
    BY <1>2, Zenon DEF QueueAck
  <2>2. \A x \in acked : x.u \in delivered \cup exposed
    <3>1. cursor[r] \in Nat /\ \A x \in rows : x.seq \in Nat
      BY Zenon DEF FlowTypes, Record
    <3> QED
      BY <3>1 DEF Seen
  <2>3. Us(acked) \ (delivered \cup aged) \subseteq exposed
    BY <2>2, Zenon DEF Us
  <2> QED
    BY <1>1, <2>1, <2>3, HistoryGrows, Zenon
<1>3. ASSUME NEW r \in Replicas, AckDrained(r) PROVE FALSE
  BY <1>3 DEF AckDrained, Seen
<1> QED
  BY <1>1, <1>2, <1>3, HistoryGrows, Zenon

\* Without them it is accounted for, and stays so until a process dies with it.
LEMMA AckedDrainedStep ==
    ASSUME FlowTypes, Numbered, Seen, Unstarted, Held, AckedWasSeen, [FlowNext]_vars,
           mode = "legacy"
    PROVE  lost' \subseteq Accounted' \cup killed'
<1>1. lost \subseteq Accounted \cup killed /\ killed \subseteq killed'
  BY HistoryGrows, Zenon DEF AckedWasSeen, Accounted
<1>2. lost' \subseteq lost \cup Accounted
  <2>1. ASSUME NEW r \in Replicas, AckDrained(r), NEW n, QueueAck(n) PROVE lost' \subseteq lost \cup Accounted
    <3>1. pull[r].pc = "drain"
      BY <2>1, Zenon DEF AckDrained
    <3>2. nextSeq > 0
      BY <3>1 DEF Unstarted, FlowTypes
    <3>3. lost' \subseteq lost \cup Us(rows)
      BY <2>1, Zenon DEF QueueAck, Us
    <3> QED
      BY <3>2, <3>3, Zenon DEF Held
  <2>2. ASSUME NEW r \in Replicas, AckBelow(r) PROVE FALSE
    BY <2>2 DEF AckBelow
  <2> QED
    BY <2>1, <2>2, HistoryGrows, Zenon
<1>3. CASE Keeps
  BY <1>1, <1>2, <1>3, AccountedGrows, Zenon DEF Keeps
<1>4. CASE Dies
  <2>1. lost' = lost /\ lost \cap InMemory \subseteq killed'
    BY <1>4, Zenon DEF Dies, NewProcess
  <2>2. delivered \cup evicted \cup aged \cup exposed \subseteq Accounted'
    BY <1>4, Zenon DEF Dies, Accounted
  <2> QED
    BY <1>1, <2>1, <2>2, Zenon DEF Accounted
<1> QED
  BY <1>3, <1>4, HeldStep, Zenon

\* An acknowledgement deletes nothing that is not accounted for.
LEMMA AckedStep ==
    ASSUME FlowTypes, Numbered, Seen, Unstarted, Held, AckedWasSeen, [FlowNext]_vars
    PROVE  AckedWasSeen'
<1>1. mode' = mode /\ mode \in {"offset", "legacy"}
  BY HistoryGrows, Zenon DEF FlowTypes
<1>2. CASE mode = "offset"
  BY <1>1, <1>2, AckedBelowStep, Zenon DEF AckedWasSeen
<1>3. CASE mode = "legacy"
  BY <1>1, <1>3, AckedDrainedStep DEF AckedWasSeen, Accounted
<1> QED
  BY <1>1, <1>2, <1>3

\* Every step keeps the types.
LEMMA FlowTypesStep ==
    ASSUME FlowTypes, [FlowNext]_vars
    PROVE  FlowTypes'
<1>1. CASE Crash
  BY <1>1, NewTypes, Zenon DEF Crash, history
<1>2. ASSUME NEW c \in Sockets, AddConsumer(c) \/ RemoveConsumer(c) \/ CloseWriteCh(c)
      PROVE  FlowTypes'
  BY <1>2, Zenon DEF AddConsumer, RemoveConsumer, CloseWriteCh, Moves, FlowTypes, Carrying, history
<1>3. CASE UNCHANGED vars
  BY <1>3, Zenon DEF vars, process, env, history, FlowTypes, Carrying
<1> QED
  BY <1>1, <1>2, <1>3, ClientTypes, PushTypes, SendTypes, PullTypes, SweepTypes, Zenon DEF FlowNext

\* The inductive invariant.
FlowInv == FlowTypes /\ Numbered /\ Seen /\ Unstarted /\ Held /\ AckedWasSeen

\* An empty table and a process that has not connected yet.
LEMMA FlowInvInit == FlowInit => FlowInv
<1> SUFFICES ASSUME FlowInit PROVE FlowInv
  BY Zenon
<1>1. /\ \A p \in Pushers : push[p] = Quiet
      /\ \A r \in Replicas : pull[r] = NoCall /\ cursor[r] = 1
  BY Zenon DEF FlowInit
<1>2. /\ \A p \in Pushers : ~Carrying(p) /\ ~Storing(p)
      /\ \A r \in Replicas : pull[r].pc = "idle"
  BY <1>1 DEF Quiet, NoCall, Carrying, Storing
<1>3. push \in [Pushers -> PushCalls] /\ pull \in [Replicas -> PullCalls]
  BY Rests, Zenon DEF FlowInit
<1>4. /\ backlog \in [rest : Seq(Record), whole : BOOLEAN]
      /\ sweep \in [at : {"off", "take", "put"}, old : SUBSET aged, kept : Seq(Record)]
  BY Rests, Zenon DEF FlowInit
<1>5. FlowTypes
  <2>1. belt \in Seq(Record) /\ cursor \in [Replicas -> Nat \ {0}] /\ rows \subseteq Record
    BY DEF FlowInit
  <2>2. loaded \in BOOLEAN /\ nextSeq \in Nat /\ top \in Nat /\ sent \in Nat
    BY Zenon DEF FlowInit
  <2>3. mode \in {"offset", "legacy"} /\ phase = "down" /\ backlog.rest = <<>>
    BY Rests, Zenon DEF FlowInit
  <2> QED
    BY <1>2, <1>3, <1>4, <2>1, <2>2, <2>3, Zenon DEF FlowTypes
<1>6. Numbered
  BY <1>2, Zenon DEF FlowInit, Numbered, NumbersUnique
<1>7. Seen
  BY <1>1, <1>2 DEF FlowInit, Seen
<1>8. Unstarted
  BY <1>2, Zenon DEF FlowInit, Unstarted, NoSweep
<1>9. Held /\ AckedWasSeen
  BY DEF FlowInit, Held, AckedWasSeen
<1> QED
  BY <1>5, <1>6, <1>7, <1>8, <1>9, Zenon DEF FlowInv

\* The invariant holds throughout, for any number of updates, pushes, replicas
\* and consumers, any belt and any limits.
THEOREM FlowInvariant == FlowSpec => []FlowInv
<1>1. FlowInv /\ [FlowNext]_vars => FlowInv'
  <2> SUFFICES ASSUME FlowInv, [FlowNext]_vars PROVE FlowInv'
    BY Zenon
  <2>1. FlowTypes' /\ Numbered'
    BY FlowTypesStep, NumberedStep, Zenon DEF FlowInv
  <2>2. Seen' /\ Unstarted' /\ Held'
    BY SeenStep, UnstartedStep, HeldStep, Zenon DEF FlowInv, Keeps, Dies
  <2>3. AckedWasSeen'
    BY AckedStep, Zenon DEF FlowInv
  <2> QED
    BY <2>1, <2>2, <2>3, Zenon DEF FlowInv
<1> QED
  BY <1>1, FlowInvInit, PTL DEF FlowSpec

\* "Persist FIRST" and "everything strictly below is acked (delivery does NOT
\* ack)" (pushUpdate, handleGetUpdates): an acknowledgement deletes no update
\* that was not received, except one whose number was exposed or, without
\* offsets, one that the belt has dropped, that is still on its way through the
\* memory, or that died with the process on that way.
THEOREM AcksAreSound == FlowSpec => []AckedWasSeen
<1>1. FlowInv => AckedWasSeen
  BY Zenon DEF FlowInv
<1> QED
  BY <1>1, FlowInvariant, PTL

\* _gw_seq tells the rows of update_queue apart, except those exposed by a draw
\* before the backlog was loaded (pushUpdate and the replay in startClient).
THEOREM NumbersTellRowsApart == FlowSpec => []NumbersUnique
<1>1. FlowInv => NumbersUnique
  BY DEF FlowInv, Numbered
<1> QED
  BY <1>1, FlowInvariant, PTL
==============================================================================
