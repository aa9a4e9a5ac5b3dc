------------------------------ MODULE BotLifecycle ------------------------------
(***************************************************************************)
(* internal/botapi/session.go: which bots the Bot API plane owns, and the  *)
(* goroutine that polls Telegram for each of them.  The admin requests     *)
(* (register, pause, resume, drain, delete, safe-mode ack) and the pollers *)
(* share the map of sessions, the state of a session and its pollCancel;   *)
(* only single accesses are under a mutex, so every access is a step.      *)
(* A session or a context is a number, 0 is nil; a poller has the number   *)
(* of its context.  The table bots of gateway.db outlives the process.     *)
(* held is a history variable: Pause has returned, no Resume since.        *)
(***************************************************************************)
EXTENDS Naturals, FiniteSets

CONSTANTS
    Aliases, Tokens, NoToken,
    Admins,        \* admin requests served at the same time
    MaxSessions,   \* bound: sessions created between two restarts
    MaxPollers,    \* bound: pollers started between two restarts
    MaxFaults,     \* bound: failing OpenQueue and RegisterBot
    MaxRestarts,   \* bound: restarts
    MaxOverlaps    \* bound: requests that overlap another for the same alias

ASSUME LifecycleAssumption ==
    /\ NoToken \notin Tokens
    /\ MaxSessions \in Nat /\ MaxPollers \in Nat
    /\ MaxFaults \in Nat /\ MaxRestarts \in Nat /\ MaxOverlaps \in Nat

VARIABLES
    sessions,   \* Manager.sessions: alias -> session
    session,    \* the BotSession objects
    poller,     \* the poller goroutines and their contexts
    bots,       \* table bots: alias -> row
    op,         \* the admin request every handler is working on
    booting,    \* RestoreAll of the boot sequence is not finished
    faults, restarts,
    overlaps    \* requests that began while another worked on their alias

lvars == <<sessions, session, poller, bots, op, booting, faults, restarts, overlaps>>

--------------------------------------------------------------------------------
SessionIds == 1 .. MaxSessions
PollerIds  == 1 .. MaxPollers
States     == {"new", "connecting", "live", "paused", "draining", "error"}

NoSession  == [alias |-> "", token |-> NoToken, state |-> "new", cancel |-> 0, held |-> FALSE]
NoPoller   == [of |-> 0, pc |-> "none", cancelled |-> FALSE]
NoRow      == [token |-> NoToken, paused |-> FALSE]
NoOp       == [pc |-> "idle", kind |-> "", alias |-> "", token |-> NoToken, s |-> 0,
               paused |-> FALSE, todo |-> {}]

RowTodo    == [alias : Aliases, paused : BOOLEAN]

FreshSession(s) == session[s].state = "new" /\ \A t \in 1 .. s - 1 : session[t].state # "new"
FreshPoller(p)  == poller[p].pc = "none" /\ \A r \in 1 .. p - 1 : poller[r].pc # "none"

\* The bounds leave room for what the requests in progress may still create.
Creating(kinds) == Cardinality({o \in Admins : op[o].kind \in kinds})
                   + Cardinality({x \in Admins \X RowTodo : x[2] \in op[x[1]].todo})
SessionRoom(n) == Cardinality({s \in SessionIds : session[s].state = "new"})
                      >= n + Creating({"register", "restore"})
PollerRoom(n)  == Cardinality({p \in PollerIds : poller[p].pc = "none"})
                      >= n + Creating({"register", "restore", "resume"})

Fault == faults < MaxFaults /\ faults' = faults + 1

\* The aliases a request in progress still works on.
Touched(o) == IF op[o].pc = "idle" THEN {} ELSE {op[o].alias} \cup {r.alias : r \in op[o].todo}

Init ==
    /\ sessions = [a \in Aliases |-> 0]
    /\ session = [s \in SessionIds |-> NoSession]
    /\ poller = [p \in PollerIds |-> NoPoller]
    /\ bots = [a \in Aliases |-> NoRow]
    /\ op = [o \in Admins |-> NoOp]
    /\ booting = FALSE /\ faults = 0 /\ restarts = 0 /\ overlaps = 0

setState(s, st) == session' = [session EXCEPT ![s].state = st]

\* context.WithCancel, s.pollCancel = cancel, go m.poller(pollCtx, s)
Spawn(s) ==
    \E p \in PollerIds :
        /\ FreshPoller(p)
        /\ session' = [session EXCEPT ![s].cancel = p]
        /\ poller' = [poller EXCEPT ![p] = [of |-> s, pc |-> "boot", cancelled |-> FALSE]]

pollCancel(s) ==
    IF session[s].cancel = 0 THEN UNCHANGED poller
    ELSE poller' = [poller EXCEPT ![session[s].cancel].cancelled = TRUE]

\* Request o arrives and starts as r, in a process that has booted.
Begin(o, r) ==
    /\ op[o].pc = "idle" /\ ~booting
    /\ op' = [op EXCEPT ![o] = r]
    /\ LET shared == {a \in {r.alias} \cup {b.alias : b \in r.todo} :
                         \E x \in Admins \ {o} : a \in Touched(x)}
       IN  overlaps' = overlaps + (IF shared = {} THEN 0 ELSE 1)
    /\ overlaps' <= MaxOverlaps
    /\ UNCHANGED <<sessions, session, poller, bots, booting, faults, restarts>>

Goto(o, l) == op' = [op EXCEPT ![o].pc = l]
Done(o)    == op' = [op EXCEPT ![o] = NoOp]

--------------------------------------------------------------------------------
(* Attach, which RestoreAll calls for every row of the table *)

\* After Attach has returned session s: RestoreAll marks a paused bot, then
\* goes on with the next row.
AttachReturns(o, s) ==
    IF op[o].kind = "register" THEN Done(o)
    ELSE op' = [op EXCEPT ![o].s = s,
                          ![o].pc = IF op[o].paused /\ s # 0 THEN "repause" ELSE "rows"]

RegisterCall(o, a, t) ==
    /\ SessionRoom(1) /\ PollerRoom(1)
    /\ Begin(o, [NoOp EXCEPT !.pc = "attach", !.kind = "register", !.alias = a, !.token = t])

AttachLookup(o) ==
    LET existing == sessions[op[o].alias]
    IN  /\ op[o].pc = "attach"
        /\ \/ existing = 0 /\ Goto(o, "open")
           \/ existing # 0 /\ session[existing].token = op[o].token /\ AttachReturns(o, existing)
           \/ existing # 0 /\ session[existing].token # op[o].token /\ Goto(o, "unmap")
        /\ UNCHANGED <<sessions, session, poller, bots, booting, faults, restarts, overlaps>>

\* OpenQueue, the new session, and its entry in the map.
AttachOpen(o) ==
    /\ op[o].pc = "open"
    /\ \/ \E s \in SessionIds :
              /\ FreshSession(s)
              /\ session' = [session EXCEPT ![s] =
                     [alias |-> op[o].alias, token |-> op[o].token, state |-> "connecting",
                      cancel |-> 0, held |-> FALSE]]
              /\ sessions' = [sessions EXCEPT ![op[o].alias] = s]
              /\ op' = [op EXCEPT ![o].pc = "persist", ![o].s = s]
              /\ UNCHANGED faults
       \/ /\ Fault /\ AttachReturns(o, 0)
          /\ UNCHANGED <<session, sessions>>
    /\ UNCHANGED <<poller, bots, booting, restarts, overlaps>>

\* RegisterBot keeps the pause flag of an existing row.
AttachPersist(o) ==
    /\ op[o].pc = "persist" /\ Goto(o, "spawn")
    /\ \/ bots' = [bots EXCEPT ![op[o].alias].token = op[o].token] /\ UNCHANGED faults
       \/ Fault /\ UNCHANGED bots
    /\ UNCHANGED <<sessions, session, poller, booting, restarts, overlaps>>

AttachSpawn(o) ==
    /\ op[o].pc = "spawn" /\ Spawn(op[o].s) /\ AttachReturns(o, op[o].s)
    /\ UNCHANGED <<sessions, bots, booting, faults, restarts, overlaps>>

--------------------------------------------------------------------------------
(* RestoreAll *)

\* ListBots; the token of a row is read when its turn comes.
ListBots == {[alias |-> a, paused |-> bots[a].paused] :
                a \in {b \in Aliases : bots[b].token # NoToken}}

Restore == [NoOp EXCEPT !.pc = "rows", !.kind = "restore", !.todo = ListBots]

SafeModeAck(o) ==
    /\ SessionRoom(Cardinality(ListBots)) /\ PollerRoom(Cardinality(ListBots))
    /\ Begin(o, Restore)

RestoreNext(o) ==
    /\ op[o].pc = "rows"
    /\ \/ /\ op[o].todo = {} /\ Done(o)
          /\ booting' = FALSE
       \/ /\ \E r \in op[o].todo :
                LET token == bots[r.alias].token
                IN  op' = [op EXCEPT ![o].pc = IF token = NoToken THEN "rows" ELSE "attach",
                                     ![o].alias = r.alias, ![o].token = token,
                                     ![o].paused = r.paused, ![o].todo = @ \ {r}]
          /\ UNCHANGED booting
    /\ UNCHANGED <<sessions, session, poller, bots, faults, restarts, overlaps>>

RestorePaused(o) ==
    /\ op[o].pc = "repause" /\ setState(op[o].s, "paused") /\ Goto(o, "rows")
    /\ UNCHANGED <<sessions, poller, bots, booting, faults, restarts, overlaps>>

--------------------------------------------------------------------------------
(* Delete, also the first half of a token rotation *)

DeleteCall(o, a) == Begin(o, [NoOp EXCEPT !.pc = "unmap", !.kind = "delete", !.alias = a])

DeleteUnmap(o) ==
    LET a == op[o].alias
    IN  /\ op[o].pc = "unmap"
        /\ sessions' = [sessions EXCEPT ![a] = 0]
        /\ \/ /\ sessions[a] # 0
              /\ op' = [op EXCEPT ![o].pc = "shut", ![o].s = sessions[a]]
           \/ /\ sessions[a] = 0
              /\ IF op[o].kind = "delete" THEN Done(o) ELSE Goto(o, "open")
        /\ UNCHANGED <<session, poller, bots, booting, faults, restarts, overlaps>>

DeleteDrain(o) ==
    /\ op[o].pc = "shut" /\ setState(op[o].s, "draining") /\ Goto(o, "kill")
    /\ UNCHANGED <<sessions, poller, bots, booting, faults, restarts, overlaps>>

\* Mutant: the poller of a deleted bot is left alone.
DeleteKeepsPoller(o) ==
    /\ op[o].pc = "kill" /\ Goto(o, "forget")
    /\ UNCHANGED <<sessions, session, poller, bots, booting, faults, restarts, overlaps>>

DeleteCancel(o) ==
    /\ op[o].pc = "kill" /\ pollCancel(op[o].s) /\ Goto(o, "forget")
    /\ UNCHANGED <<sessions, session, bots, booting, faults, restarts, overlaps>>

\* Mutant: the row of a deleted bot is left alone.
DeleteKeepsRow(o) ==
    /\ op[o].pc = "forget"
    /\ IF op[o].kind = "delete" THEN Done(o) ELSE Goto(o, "open")
    /\ UNCHANGED <<sessions, session, poller, bots, booting, faults, restarts, overlaps>>

DeleteForget(o) ==
    /\ op[o].pc = "forget"
    /\ bots' = [bots EXCEPT ![op[o].alias] = NoRow]
    /\ IF op[o].kind = "delete" THEN Done(o) ELSE Goto(o, "open")
    /\ UNCHANGED <<sessions, session, poller, booting, faults, restarts, overlaps>>

--------------------------------------------------------------------------------
(* Pause, Resume, Drain: Get the session, then work on it without the map *)

\* Get finds the session, or the request is over.
SessionCall(o, a, l) ==
    /\ sessions[a] # 0
    /\ l = "resume" => PollerRoom(1)
    /\ Begin(o, [NoOp EXCEPT !.pc = l, !.kind = l, !.alias = a, !.s = sessions[a]])

PauseState(o) ==
    /\ op[o].pc = "pause" /\ setState(op[o].s, "paused") /\ Goto(o, "stop")
    /\ UNCHANGED <<sessions, poller, bots, booting, faults, restarts, overlaps>>

\* Mutant: Pause relies on the state alone.
PauseKeepsPoller(o) ==
    /\ op[o].pc = "stop" /\ Goto(o, "record")
    /\ UNCHANGED <<sessions, session, poller, bots, booting, faults, restarts, overlaps>>

PauseCancel(o) ==
    /\ op[o].pc = "stop" /\ pollCancel(op[o].s) /\ Goto(o, "record")
    /\ UNCHANGED <<sessions, session, bots, booting, faults, restarts, overlaps>>

\* SetPaused updates the row of the alias, if there is one.
SetPaused(a, v) ==
    bots' = IF bots[a].token = NoToken THEN bots ELSE [bots EXCEPT ![a].paused = v]

PauseRecord(o) ==
    /\ op[o].pc = "record" /\ SetPaused(op[o].alias, TRUE) /\ Done(o)
    /\ session' = [session EXCEPT ![op[o].s].held = TRUE]
    /\ UNCHANGED <<sessions, poller, booting, faults, restarts, overlaps>>

ResumeRecord(o) ==
    /\ op[o].pc = "resume" /\ SetPaused(op[o].alias, FALSE) /\ Goto(o, "respawn")
    /\ session' = [session EXCEPT ![op[o].s].held = FALSE]
    /\ UNCHANGED <<sessions, poller, booting, faults, restarts, overlaps>>

\* pollCancel is nil only until Attach has set it.
ResumeSpawn(o) ==
    /\ op[o].pc = "respawn" /\ Goto(o, "relive")
    /\ IF session[op[o].s].cancel = 0 THEN Spawn(op[o].s) ELSE UNCHANGED <<session, poller>>
    /\ UNCHANGED <<sessions, bots, booting, faults, restarts, overlaps>>

ResumeState(o) ==
    /\ op[o].pc = "relive" /\ setState(op[o].s, "live") /\ Done(o)
    /\ UNCHANGED <<sessions, poller, bots, booting, faults, restarts, overlaps>>

DrainState(o) ==
    /\ op[o].pc = "drain" /\ setState(op[o].s, "draining") /\ Done(o)
    /\ UNCHANGED <<sessions, poller, bots, booting, faults, restarts, overlaps>>

--------------------------------------------------------------------------------
(* The poller *)

PGoto(p, l) == poller' = [poller EXCEPT ![p].pc = l]
Quiet       == {"paused", "draining"}
StateOf(p)  == session[poller[p].of].state
others      == <<sessions, bots, op, booting, faults, restarts, overlaps>>

\* GetOffset and deleteWebhook, which no cancellation interrupts.
PollerBoot(p) ==
    /\ poller[p].pc = "boot" /\ PGoto(p, "loop")
    /\ setState(poller[p].of, "live")
    /\ UNCHANGED others

\* The head of the loop; a paused or draining session waits here.
PollerLoop(p) ==
    /\ poller[p].pc = "loop"
    /\ \/ poller[p].cancelled /\ PGoto(p, "exit")
       \/ ~poller[p].cancelled /\ StateOf(p) \notin Quiet /\ PGoto(p, "poll")
    /\ UNCHANGED <<session, others>>

\* getUpdates fails; a cancelled context is no upstream error.
PollFails(p) ==
    /\ poller[p].pc = "poll"
    /\ \/ poller[p].cancelled /\ PGoto(p, "exit") /\ UNCHANGED session
       \/ ~poller[p].cancelled /\ PGoto(p, "backoff") /\ setState(poller[p].of, "error")
    /\ UNCHANGED others

\* sleepJittered: a cancellation ends it, but its timer may be first.
PollerBackoff(p) ==
    /\ poller[p].pc = "backoff"
    /\ \/ poller[p].cancelled /\ PGoto(p, "exit") /\ UNCHANGED session
       \/ PGoto(p, "loop") /\ setState(poller[p].of, "live")
    /\ UNCHANGED others

\* The answer is no JSON, or not ok: sleep and try again.  A batch is queued
\* and the offset saved (UpdateBus) before the next turn.
PollAnswered(p) ==
    /\ poller[p].pc = "poll" /\ PGoto(p, "loop")
    /\ UNCHANGED <<session, others>>

\* No updates: a state of error is over.  The state is read, then written.
PollEmpty(p) ==
    /\ poller[p].pc = "poll" /\ StateOf(p) = "error" /\ PGoto(p, "recover")
    /\ UNCHANGED <<session, others>>

PollerRecover(p) ==
    /\ poller[p].pc = "recover" /\ PGoto(p, "loop")
    /\ setState(poller[p].of, "live")
    /\ UNCHANGED others

--------------------------------------------------------------------------------
\* The process ends at any point and starts again: in safe mode nothing is
\* restored, otherwise RestoreAll runs before requests are served.
Restart ==
    /\ restarts < MaxRestarts /\ restarts' = restarts + 1
    /\ sessions' = [a \in Aliases |-> 0]
    /\ session' = [s \in SessionIds |-> NoSession]
    /\ poller' = [p \in PollerIds |-> NoPoller]
    /\ \/ /\ booting' = FALSE
          /\ op' = [o \in Admins |-> NoOp]
       \/ /\ booting' = TRUE
          /\ \E boot \in Admins : op' = [o \in Admins |-> IF o = boot THEN Restore ELSE NoOp]
    /\ UNCHANGED <<bots, faults, overlaps>>

AdminStep(o) ==
    \/ AttachLookup(o) \/ AttachOpen(o) \/ AttachPersist(o) \/ AttachSpawn(o)
    \/ RestoreNext(o) \/ RestorePaused(o)
    \/ DeleteUnmap(o) \/ DeleteDrain(o) \/ DeleteCancel(o) \/ DeleteForget(o)
    \/ PauseState(o) \/ PauseCancel(o) \/ PauseRecord(o)
    \/ ResumeRecord(o) \/ ResumeSpawn(o) \/ ResumeState(o) \/ DrainState(o)

PollerStep(p) ==
    \/ PollerBoot(p) \/ PollerLoop(p) \/ PollFails(p) \/ PollAnswered(p)
    \/ PollerBackoff(p) \/ PollEmpty(p) \/ PollerRecover(p)

Next ==
    \/ \E o \in Admins :
          \/ AdminStep(o)
          \/ SafeModeAck(o)
          \/ \E a \in Aliases :
                \/ \E t \in Tokens : RegisterCall(o, a, t)
                \/ DeleteCall(o, a)
                \/ \E l \in {"pause", "resume", "drain"} : SessionCall(o, a, l)
    \/ \E p \in PollerIds : PollerStep(p)
    \/ Restart

Spec == Init /\ [][Next]_lvars

--------------------------------------------------------------------------------
(* Properties *)

Worked(a)  == overlaps > 0 \/ \E o \in Admins : a \in Touched(o)
Running(p) == poller[p].pc \notin {"none", "exit"} /\ ~poller[p].cancelled

\* No poller is orphaned: unless two requests for one alias overlapped, a
\* poller that is not cancelled belongs to the session in the map, and the
\* pollCancel of that session is its own, so Pause and Delete can stop it.
StoppablePollers ==
    \A p \in PollerIds : Running(p) =>
        LET s == session[poller[p].of]
        IN  Worked(s.alias) \/ (sessions[s.alias] = poller[p].of /\ s.cancel = p)

\* The table agrees with the map about which token an alias owns once its
\* requests are over: what a restart restores is what was running.
TableMatchesMap ==
    \A a \in Aliases : ~Worked(a) /\ faults = 0 =>
        IF sessions[a] = 0 THEN restarts > 0 \/ bots[a] = NoRow
        ELSE bots[a].token = session[sessions[a]].token

\* "Pause stops the poller NOW": once Pause has returned no poller of the
\* session can start another getUpdates until Resume.
PauseQuiets ==
    \A p \in PollerIds : Running(p) =>
        Worked(session[poller[p].of].alias) \/ ~session[poller[p].of].held
================================================================================
