------------------------------ MODULE Idempotency ------------------------------
(***************************************************************************)
(* Sends with an idempotency key: the claim table of store/gateway.go and  *)
(* store/mt.go, and the handlers that use it: Proxy.Call ("json"; "action" *)
(* is sendChatAction with action cancel), Proxy.CallRawWithChat ("form")   *)
(* and dispatchProxy of the MTProto plane ("mt"), which caches replays in  *)
(* memory.  The module follows one key; keys do not interact.  A retry is  *)
(* the same request, so a key belongs to one of these paths.               *)
(*                                                                         *)
(* A statement is one step, but the DELETE of a claim is taken with its    *)
(* INSERT; a request may take any time between two steps.  Time is kept as *)
(* ages that stop counting once they are past their limit, so the clock is *)
(* not bounded.                                                            *)
(***************************************************************************)
EXTENDS Naturals, FiniteSets

CONSTANTS
    Requests,     \* requests with the key that are served at the same time
    Paths,        \* the paths to consider
    Stale,        \* StalePendingS
    TTL,          \* IdempotencyTTL, also the life of a cached replay
    MaxFailures,  \* bound: failing statements, failing or refused sends
    MaxRestarts   \* bound: restarts

ASSUME IdempotencyAssumption ==
    /\ Paths \subseteq {"json", "form", "action", "mt"}
    /\ Stale \in Nat /\ TTL \in Nat /\ Stale < TTL
    /\ MaxFailures \in Nat /\ MaxRestarts \in Nat

VARIABLES
    path,         \* how requests with the key are handled
    row,          \* the row of the key: its state, and the age of seen_at
    cache,        \* age of the key in seenIdemKeys, TTL when it is not there
    stage,        \* where each request stands
    failures, restarts,
    sent,         \* history: messages Telegram sent, 2 for more than one
    ambiguous,    \* history: a message was sent, and that was not recorded
    robbed,       \* history: a claim was lost by a request still working
    expired       \* history: the record of a completed request expired

ivars   == <<path, row, cache, stage, failures, restarts, sent, ambiguous, robbed, expired>>
seenBy  == <<sent, ambiguous, robbed, expired>>

--------------------------------------------------------------------------------
NoRow      == [state |-> "none", age |-> 0]
Pending    == [state |-> "pending", age |-> 0]
Completed  == [state |-> "done", age |-> 0]

Present    == row.state # "none"
Outlived   == row.age > TTL
Holds(r)   == stage[r] \in {"admit", "send", "finish", "release"}
Goto(r, l) == stage' = [stage EXCEPT ![r] = l]
Fails      == failures < MaxFailures /\ failures' = failures + 1
SentOnce   == sent' = IF sent < 2 THEN sent + 1 ELSE 2

KeyInit ==
    /\ path \in Paths
    /\ row = NoRow /\ cache = TTL
    /\ stage = [r \in Requests |-> "idle"]
    /\ failures = 0 /\ restarts = 0
    /\ sent = 0 /\ ambiguous = FALSE /\ robbed = FALSE /\ expired = FALSE

--------------------------------------------------------------------------------
(* IdempotencyClaim *)

\* A request arrives; on the MTProto plane a fresh entry of the cache
\* answers it at once.
Arrive(r) ==
    /\ stage[r] = "idle"
    /\ path = "mt" => cache = TTL
    /\ Goto(r, "insert")
    /\ UNCHANGED <<path, row, cache, failures, restarts, seenBy>>

\* What is lost when the row is deleted for its age.
Forget ==
    /\ robbed' = (robbed \/ \E r \in Requests : Holds(r))
    /\ expired' = (expired \/ row.state = "done")

\* Mutant: the expired row is not deleted first.
InsertOnly(r) ==
    /\ stage[r] = "insert"
    /\ \/ ~Present /\ row' = Pending /\ Goto(r, "admit")
       \/ Present /\ UNCHANGED row /\ Goto(r, "steal")
    /\ UNCHANGED <<path, cache, failures, restarts, seenBy>>

\* Mutant: INSERT OR REPLACE, a completed send does not conflict.
InsertReplaces(r) ==
    /\ stage[r] = "insert"
    /\ \/ row.state # "pending" /\ row' = Pending /\ Goto(r, "admit")
       \/ row.state = "pending" /\ UNCHANGED row /\ Goto(r, "steal")
    /\ UNCHANGED <<path, cache, failures, restarts, seenBy>>

\* DELETE the expired row, INSERT ... ON CONFLICT DO NOTHING.  Either may fail,
\* which counts as a conflict.
ClaimInsert(r) ==
    /\ stage[r] = "insert"
    /\ \/ /\ ~Present \/ Outlived
          /\ row' = Pending /\ Goto(r, "admit")
          /\ IF Present THEN Forget ELSE UNCHANGED <<robbed, expired>>
          /\ UNCHANGED failures
       \/ /\ Present /\ ~Outlived
          /\ Goto(r, "steal")
          /\ UNCHANGED <<row, failures, robbed, expired>>
       \/ /\ Fails /\ Goto(r, "steal")
          /\ UNCHANGED <<row, robbed, expired>>
       \/ /\ Fails /\ Goto(r, "steal")
          /\ Present /\ Outlived /\ row' = NoRow /\ Forget
    /\ UNCHANGED <<path, cache, restarts, sent, ambiguous>>

\* Mutant: a pending claim is taken over whatever its age.
StealFresh(r) ==
    /\ stage[r] = "steal"
    /\ row.state = "pending" /\ row' = Pending /\ Goto(r, "admit")
    /\ UNCHANGED <<path, cache, failures, restarts, seenBy>>

\* UPDATE a pending row that is older than Stale, or answer "replay", which
\* the MTProto plane caches.
ClaimUpdate(r) ==
    LET stale == row.state = "pending" /\ row.age > Stale
    IN  /\ stage[r] = "steal"
        /\ \/ /\ stale /\ row' = Pending /\ Goto(r, "admit")
              /\ robbed' = (robbed \/ \E s \in Requests : Holds(s))
              /\ UNCHANGED <<cache, failures>>
           \/ /\ IF stale THEN Fails ELSE UNCHANGED failures
              /\ Goto(r, "idle")
              /\ cache' = IF path = "mt" THEN 0 ELSE cache
              /\ UNCHANGED <<row, robbed>>
        /\ UNCHANGED <<path, restarts, sent, ambiguous, expired>>

--------------------------------------------------------------------------------
(* The handlers, once they hold the claim *)

\* The rate guard lets the request through.
Admit(r) ==
    /\ stage[r] = "admit" /\ path # "action" /\ Goto(r, "send")
    /\ UNCHANGED <<path, row, cache, failures, restarts, seenBy>>

\* It is refused: 429, or 403 for the paid lane, or 423 while sending is
\* paused, or the client leaves while it waits.  Only "json" releases the
\* claim.  A chat action that cancels typing is answered without it, too.
Refuse(r) ==
    /\ stage[r] = "admit"
    /\ Goto(r, IF path = "json" THEN "release" ELSE "idle")
    /\ UNCHANGED <<path, row, cache, failures, restarts, seenBy>>

\* Telegram sends the message and says so.
SendCompletes(r) ==
    /\ stage[r] = "send" /\ SentOnce /\ Goto(r, "finish")
    /\ UNCHANGED <<path, row, cache, failures, restarts, ambiguous, robbed, expired>>

\* The answer is lost, or late, or the client has gone: an error, whether the
\* message was sent or not.
SendFails(r) ==
    /\ stage[r] = "send" /\ Fails /\ Goto(r, "release")
    /\ \/ SentOnce /\ ambiguous' = TRUE
       \/ UNCHANGED <<sent, ambiguous>>
    /\ UNCHANGED <<path, row, cache, restarts, robbed, expired>>

\* Telegram refuses (4xx, 429 included).  A form takes that for completed.
SendRefused(r) ==
    /\ stage[r] = "send" /\ Fails
    /\ Goto(r, IF path = "form" THEN "finish" ELSE "release")
    /\ UNCHANGED <<path, row, cache, restarts, seenBy>>

\* The method is not supported, or the client has disconnected since the
\* session was looked up and the handler panics.
DispatchAborts(r) ==
    /\ stage[r] = "send" /\ path = "mt" /\ Fails /\ Goto(r, "idle")
    /\ UNCHANGED <<path, row, cache, restarts, seenBy>>

\* IdempotencyFinish, then the cache of the MTProto plane.
Finish(r) ==
    /\ stage[r] = "finish"
    /\ Goto(r, IF path = "mt" THEN "note" ELSE "idle")
    /\ \/ row' = (IF Present THEN Completed ELSE row) /\ UNCHANGED failures
       \/ Fails /\ UNCHANGED row
    /\ ambiguous' = (ambiguous \/ row'.state # "done")
    /\ UNCHANGED <<path, cache, restarts, sent, robbed, expired>>

NoteIdempotencyDone(r) ==
    /\ stage[r] = "note" /\ cache' = 0 /\ Goto(r, "idle")
    /\ UNCHANGED <<path, row, failures, restarts, seenBy>>

\* IdempotencyFail deletes a pending row, whoever claimed it.
Fail(r) ==
    /\ stage[r] = "release" /\ Goto(r, "idle")
    /\ \/ row' = (IF row.state = "pending" THEN NoRow ELSE row) /\ UNCHANGED failures
       \/ Fails /\ UNCHANGED row
    /\ UNCHANGED <<path, cache, restarts, seenBy>>

--------------------------------------------------------------------------------
\* The housekeeping of the MTProto plane.
IdempotencyCleanup ==
    /\ path = "mt" /\ Present /\ Outlived
    /\ row' = NoRow /\ Forget
    /\ UNCHANGED <<path, cache, stage, failures, restarts, sent, ambiguous>>

Tick ==
    /\ row' = IF Present /\ ~Outlived THEN [row EXCEPT !.age = @ + 1] ELSE row
    /\ cache' = IF cache < TTL THEN cache + 1 ELSE cache
    /\ UNCHANGED <<path, stage, failures, restarts, seenBy>>

\* The process dies; a message on its way may still be sent.
Restart ==
    /\ restarts < MaxRestarts /\ restarts' = restarts + 1
    /\ \/ \E r \in Requests : stage[r] = "send" /\ SentOnce /\ ambiguous' = TRUE
       \/ UNCHANGED sent /\ ambiguous' = (ambiguous \/ \E r \in Requests : stage[r] = "finish")
    /\ stage' = [r \in Requests |-> "idle"] /\ cache' = TTL
    /\ UNCHANGED <<path, row, failures, robbed, expired>>

Step(r) ==
    \/ ClaimInsert(r) \/ ClaimUpdate(r) \/ Admit(r) \/ Refuse(r)
    \/ SendCompletes(r) \/ SendFails(r) \/ SendRefused(r) \/ DispatchAborts(r)
    \/ Finish(r) \/ NoteIdempotencyDone(r) \/ Fail(r)

KeyNext ==
    \/ \E r \in Requests : Step(r) \/ Arrive(r)
    \/ IdempotencyCleanup \/ Tick \/ Restart

KeySpec == KeyInit /\ [][KeyNext]_ivars

\* Handlers make progress, time passes, a client that got no message tries
\* again, and the buckets refill: not every attempt is refused.
Fairness ==
    /\ WF_ivars(Tick)
    /\ \A r \in Requests : WF_ivars(Step(r)) /\ WF_ivars(Arrive(r)) /\ SF_ivars(Admit(r))

KeyFairSpec == KeySpec /\ Fairness

--------------------------------------------------------------------------------
(* Properties *)

\* Every variable keeps its type, and a key without a row has no age.
IdempotencyTypeOK ==
    /\ path \in Paths
    /\ row \in [state : {"none", "pending", "done"}, age : Nat]
    /\ row.state = "none" => row.age = 0
    /\ cache \in 0 .. TTL
    /\ stage \in [Requests -> {"idle", "insert", "steal", "admit", "send", "finish", "note",
                            "release"}]
    /\ failures \in Nat /\ restarts \in Nat /\ sent \in 0 .. 2
    /\ ambiguous \in BOOLEAN /\ robbed \in BOOLEAN /\ expired \in BOOLEAN

\* The claim is a lock: of any number of requests with the key, retries after
\* failures and crashes included, one is past IdempotencyClaim, and while it is
\* the row stays pending - until a request is slower than Stale.
ClaimExclusive ==
    ~robbed => \A r \in Requests : Holds(r) =>
        row.state = "pending" /\ \A s \in Requests : Holds(s) => s = r

\* "A retry can never double-send": the message goes out at most once, unless
\* the gateway never learnt or recorded that it went out, a request was slower
\* than Stale, or the record of it has expired.
AtMostOnce == ~ambiguous /\ ~robbed /\ ~expired => sent <= 1

\* No key is suppressed for good: whatever fails, and whichever claims are
\* never released, a client that keeps retrying gets its message sent.
EventuallySent == path # "action" => <>(sent > 0)
================================================================================
