---------------------------- MODULE MCRateGuard ----------------------------
(***************************************************************************)
(* Instances of RateGuard: two concurrent requests and one chat.           *)
(***************************************************************************)
EXTENDS RateGuard, TLC

CONSTANTS c1, q1, q2

\* Every bucket holds one token and gains one per tick.
MCCapacity == [b \in Chats \cup {"global", "paid", "reads", "silent"} |-> 1]
MCRate == [b \in Chats \cup {"global", "paid", "reads", "silent"} |-> 1]

MCWaits == [c \in Chats \cup {Nil} |-> IF c = Nil THEN {1} ELSE {1, 2}]

Call(kind, c, paid, raw) == [kind |-> kind, chat |-> c, paid |-> paid, raw |-> raw]

\* Writes to the chat, as JSON on the paid lane and as a form without it; on the
\* MTProto plane writes and a method of the silent bucket.
MCCalls == [p \in Planes |->
    IF p = "bot"
    THEN {Call("write", c1, TRUE, FALSE), Call("write", c1, FALSE, TRUE)}
    ELSE {Call("write", c1, FALSE, FALSE), Call("silent", Nil, FALSE, FALSE)}]

RequestSymmetry == Permutations(Reqs)

=============================================================================
