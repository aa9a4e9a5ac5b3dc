------------------------------ MODULE AtLeastOnce ------------------------------
(***************************************************************************)
(* What the update bus promises its consumers, without queues, tables or   *)
(* goroutines: a stream of updates with a cursor.  Updates above the       *)
(* cursor may be handed out any number of times; the cursor passes an      *)
(* update only when it was handed out or given up; a crash may move the    *)
(* cursor back.                                                            *)
(***************************************************************************)
EXTENDS Naturals

VARIABLES
    produced,   \* the stream so far is 1 .. produced
    received,   \* handed out at least once
    given,      \* given up: expired, damaged, evicted, or not persisted
    cursor      \* acknowledged up to here

svars == <<produced, received, given, cursor>>

Init == produced = 0 /\ received = {} /\ given = {} /\ cursor = 0

Produce ==
    /\ produced' = produced + 1
    /\ UNCHANGED <<received, given, cursor>>

HandOut ==
    /\ \E some \in SUBSET (cursor + 1 .. produced) : received' = received \cup some
    /\ UNCHANGED <<produced, given, cursor>>

Acknowledge ==
    /\ \E n \in cursor + 1 .. produced :
          1 .. n \subseteq received \cup given /\ cursor' = n
    /\ UNCHANGED <<produced, received, given>>

Abandon ==
    /\ \E some \in SUBSET (1 .. produced) : given' = given \cup some
    /\ UNCHANGED <<produced, received, cursor>>

Crash ==
    /\ \E some \in SUBSET (1 .. produced) : given' = given \cup some
    /\ cursor' \in 0 .. cursor
    /\ UNCHANGED <<produced, received>>

Next == Produce \/ HandOut \/ Acknowledge \/ Abandon \/ Crash

Spec == Init /\ [][Next]_svars
================================================================================
