------------------------------- MODULE MTSession -------------------------------
(***************************************************************************)
(* The sessions of the MTProto plane for one alias: Manager and supervise  *)
(* of mtproto/sessions.go, the handlers of mtproto/app.go that change      *)
(* them, the table sessions, and the file lock of lock/lock.go.            *)
(*                                                                         *)
(* A Session object is an element of Sessions; an object that nothing      *)
(* refers to any more may be used again.  The sessionLock of an object is  *)
(* not nil exactly while its descriptor holds the flock, so `owner` stands *)
(* for both.  The tests at the head of the supervisor's loop are one step. *)
(* Cancelling a client closes its connection.                              *)
(***************************************************************************)
EXTENDS Naturals, FiniteSets

CONSTANTS
    Sessions,     \* Session objects
    Ops,          \* admin requests served at the same time
    Tokens,       \* bot tokens
    None,         \* no session, no token
    Other,        \* another process on the same volume
    MaxCalls,     \* bound: admin requests
    MaxFaults,    \* bound: failing statements, pings and connects
    MaxRestarts   \* bound: restarts of the process

ASSUME MTAssumption ==
    /\ None \notin Sessions \cup Tokens /\ Other \notin Sessions \cup {None}
    /\ MaxCalls \in Nat /\ MaxFaults \in Nat /\ MaxRestarts \in Nat

VARIABLES
    current,      \* m.sessions[alias]
    session,      \* the fields of each Session
    sup,          \* where the supervisor of each Session stands
    owner,        \* who holds the flock
    row,          \* the row of the alias in the table sessions
    op,           \* where each admin request stands
    calls, faults, restarts,
    raced,        \* history: a session was torn down while it was connecting
    overlapped    \* history: two requests that add or remove sessions overlapped

mem    == <<current, session, sup>>
budget == <<calls, faults, restarts>>
past   == <<raced, overlapped>>
mvars  == <<mem, owner, row, op, budget, past>>

--------------------------------------------------------------------------------
NewSession(t) == [token |-> t, state |-> "connecting", client |-> "none", terminal |-> FALSE,
                  cooling |-> FALSE, stopped |-> FALSE]
NoRow  == [token |-> None, paused |-> FALSE]
Idle   == [call |-> "none", at |-> "idle", s |-> None, token |-> None, paused |-> FALSE]

\* The requests that add or remove sessions.
Changing(o)  == op[o].call \in {"register", "unregister", "restore", "shutdown"}

\* Between the head of its loop and the end of startClient.
Starting(s)  == sup[s] \in {"lock", "begin", "dial", "connecting"}

\* A connection that uses the auth_key of the alias.
Connected(s) == sup[s] = "connecting" \/ session[s].client = "up"

At(o, l)        == op' = [op EXCEPT ![o].at = l]
Done(o)         == op' = [op EXCEPT ![o] = Idle]
Super(s, l)     == sup' = [sup EXCEPT ![s] = l]
Call            == calls < MaxCalls /\ calls' = calls + 1
Fault           == faults < MaxFaults /\ faults' = faults + 1
Disconnected(s) == IF session[s].client = "up" THEN "down" ELSE session[s].client

\* lockHeld, or Acquire: flock grants the lock to one descriptor at a time.
Grants(s)   == owner \in {None, s}
Released(s) == IF owner = s THEN None ELSE owner

\* An object of which nothing is left, or which was never used.
Free(s) ==
    /\ current # s /\ owner # s /\ sup[s] = "none" /\ session[s].client # "up"
    /\ \A o \in Ops : op[o].s # s

Init ==
    /\ current = None /\ owner = None
    /\ row \in {NoRow} \cup [token : Tokens, paused : BOOLEAN]
    /\ session = [s \in Sessions |-> NewSession(None)]
    /\ sup = [s \in Sessions |-> "none"]
    /\ op = [o \in Ops |-> Idle]
    /\ calls = 0 /\ faults = 0 /\ restarts = 0 /\ raced = FALSE /\ overlapped = FALSE

--------------------------------------------------------------------------------
(* Register, RestoreAll, Unregister, Shutdown *)

Begin(o, call, at, s, t, paused) ==
    /\ op[o] = Idle /\ Call
    /\ op' = [op EXCEPT ![o] = [call |-> call, at |-> at, s |-> s, token |-> t,
                                paused |-> paused]]
    /\ overlapped' = (overlapped \/ \E p \in Ops : Changing(p))
    /\ UNCHANGED <<mem, owner, row, faults, restarts, raced>>

RegisterCall(o, t) == Begin(o, "register", "lookup", None, t, FALSE)
UnregisterCall(o)  == Begin(o, "unregister", "unmap", None, None, FALSE)

\* At boot, and when an administrator acknowledges the safe mode.
RestoreCall(o) ==
    row # NoRow /\ Begin(o, "restore", "lookup", None, row.token, row.paused)

\* Shutdown works on a copy of the map.
ShutdownCall(o) ==
    current # None /\ Begin(o, "shutdown", "stop", current, None, FALSE)

\* What follows Register: RestoreAll marks a paused session.
Registered(o) == IF op[o].paused THEN At(o, "mark") ELSE Done(o)

RegisterLookup(o) ==
    /\ op[o].at = "lookup"
    /\ IF current = None THEN At(o, "store")
       ELSE IF session[current].token = op[o].token THEN Registered(o)
       ELSE At(o, "unmap")
    /\ UNCHANGED <<mem, owner, row, budget, past>>

\* What follows Unregister: the new session when a token is rotated.
Unregistered(o) == IF op[o].call = "unregister" THEN Done(o)
                   ELSE op' = [op EXCEPT ![o].at = "store", ![o].s = None]

UnregisterUnmap(o) ==
    /\ op[o].at = "unmap"
    /\ current' = None
    /\ IF current = None THEN Unregistered(o)
       ELSE op' = [op EXCEPT ![o].at = "stop", ![o].s = current]
    /\ UNCHANGED <<session, sup, owner, row, budget, past>>

\* setState, close(stopSupervisor).  Closing it twice panics and ends the
\* request; Shutdown looks first.
StopSupervisor(o) ==
    LET s == op[o].s
    IN  /\ op[o].at = "stop"
        /\ session' = [session EXCEPT ![s].state = "draining", ![s].stopped = TRUE]
        /\ IF session[s].stopped /\ op[o].call # "shutdown" THEN Done(o) ELSE At(o, "disconnect")
        /\ UNCHANGED <<current, sup, owner, row, budget, past>>

Disconnect(o) ==
    LET s == op[o].s
    IN  /\ op[o].at = "disconnect" /\ At(o, "release")
        /\ session' = [session EXCEPT ![s].client = Disconnected(s)]
        /\ raced' = (raced \/ Starting(s))
        /\ UNCHANGED <<current, sup, owner, row, budget, overlapped>>

\* Mutant: the session is removed, its lock is not.
KeepLock(o) ==
    /\ op[o].at = "release"
    /\ IF op[o].call = "shutdown" THEN Done(o) ELSE At(o, "delete")
    /\ UNCHANGED <<mem, owner, row, budget, past>>

releaseLock(o) ==
    /\ op[o].at = "release"
    /\ owner' = Released(op[o].s)
    /\ IF op[o].call = "shutdown" THEN Done(o) ELSE At(o, "delete")
    /\ UNCHANGED <<mem, row, budget, past>>

UnregisterDelete(o) ==
    /\ op[o].at = "delete" /\ Unregistered(o)
    /\ \/ row' = NoRow /\ UNCHANGED faults
       \/ Fault /\ UNCHANGED row
    /\ UNCHANGED <<mem, owner, calls, restarts, past>>

\* An upsert of the token; the flag paused of an existing row stays.
RegisterStore(o) ==
    /\ op[o].at = "store"
    /\ \/ At(o, "insert") /\ row' = [row EXCEPT !.token = op[o].token] /\ UNCHANGED faults
       \/ Done(o) /\ Fault /\ UNCHANGED row
    /\ UNCHANGED <<mem, owner, calls, restarts, past>>

RegisterInsert(o) ==
    LET s == CHOOSE u \in Sessions : Free(u)
    IN  /\ op[o].at = "insert" /\ \E u \in Sessions : Free(u)
        /\ current' = s /\ Super(s, "top")
        /\ session' = [session EXCEPT ![s] = NewSession(op[o].token)]
        /\ Registered(o)
        /\ UNCHANGED <<owner, row, budget, past>>

RestorePaused(o) ==
    /\ op[o].at = "mark" /\ Done(o)
    /\ \/ current = None /\ UNCHANGED session
       \/ current # None /\ session' = [session EXCEPT ![current].state = "paused"]
    /\ UNCHANGED <<current, sup, owner, row, budget, past>>

--------------------------------------------------------------------------------
(* Pause, Resume, Drain, Restart *)

\* An UPDATE changes nothing when the row is gone, and may fail.
SetPaused(v) ==
    \/ row' = (IF row = NoRow THEN row ELSE [row EXCEPT !.paused = v]) /\ UNCHANGED faults
    \/ Fault /\ UNCHANGED row

Pause(o) ==
    /\ op[o] = Idle /\ current # None /\ Call
    /\ session' = [session EXCEPT ![current].state = "paused"]
    /\ op' = [op EXCEPT ![o].call = "pause", ![o].at = "record"]
    /\ UNCHANGED <<current, sup, owner, row, faults, restarts, past>>

PauseRecord(o) ==
    /\ op[o].at = "record" /\ Done(o) /\ SetPaused(TRUE)
    /\ UNCHANGED <<mem, owner, calls, restarts, past>>

Resume(o) ==
    /\ op[o] = Idle /\ current # None /\ Call /\ SetPaused(FALSE)
    /\ op' = [op EXCEPT ![o].call = "resume", ![o].at = "live", ![o].s = current]
    /\ UNCHANGED <<mem, owner, restarts, past>>

ResumeState(o) ==
    /\ op[o].at = "live" /\ Done(o) /\ session' = [session EXCEPT ![op[o].s].state = "live"]
    /\ UNCHANGED <<current, sup, owner, row, budget, past>>

Drain(o) ==
    /\ op[o] = Idle /\ current # None /\ Call
    /\ session' = [session EXCEPT ![current].state = "draining"]
    /\ UNCHANGED <<current, sup, owner, row, op, faults, restarts, past>>

\* The cooldown ends, by itself or through Manager.Restart.
CoolDown(s) ==
    /\ session[s].cooling /\ session' = [session EXCEPT ![s].cooling = FALSE]
    /\ UNCHANGED <<current, sup, owner, row, op, budget, past>>

--------------------------------------------------------------------------------
(* supervise *)

Live(s) == session[s].client = "up" /\ session[s].state = "live"

\* Mutant: the quarantine is not looked at.
LoopIgnoresQuarantine(s) ==
    LET f == session[s]
    IN  /\ sup[s] = "top"
        /\ \/ f.stopped /\ Super(s, "none")
           \/ ~f.stopped /\ f.state \notin {"paused", "draining"} /\ ~Live(s) /\ ~f.cooling
                /\ Super(s, "lock")
        /\ UNCHANGED <<current, session, owner, row, op, budget, past>>

\* The head of the loop: stop, quarantine, pause; then the ping of a live
\* session, or another attempt.
Loop(s) ==
    LET f == session[s]
    IN  /\ sup[s] = "top"
        /\ \/ (f.stopped \/ f.terminal) /\ Super(s, "none")
           \/ /\ ~f.stopped /\ ~f.terminal
              /\ \/ f.state \in {"paused", "draining"} /\ UNCHANGED sup
                 \/ f.state \notin {"paused", "draining"} /\ Live(s) /\ Super(s, "ping")
                 \/ f.state \notin {"paused", "draining"} /\ ~Live(s)
                      /\ IF f.cooling THEN UNCHANGED sup ELSE Super(s, "lock")
        /\ UNCHANGED <<current, session, owner, row, op, budget, past>>

\* A ping that fails disconnects; the next turn reconnects.
Ping(s) ==
    /\ sup[s] = "ping" /\ Super(s, "top")
    /\ \/ UNCHANGED <<session, faults>>
       \/ Fault /\ session' = [session EXCEPT ![s].client = Disconnected(s)]
    /\ UNCHANGED <<current, owner, row, op, calls, restarts, past>>

\* Mutant: the session goes on without the lock.
acquireLockIgnored(s) ==
    /\ sup[s] = "lock" /\ Super(s, "begin")
    /\ owner' = IF owner = None THEN s ELSE owner
    /\ UNCHANGED <<current, session, row, op, budget, past>>

\* Mutant: a refused session never tries again.
acquireLockOnce(s) ==
    /\ sup[s] = "lock"
    /\ \/ Grants(s) /\ owner' = s /\ Super(s, "begin") /\ UNCHANGED session
       \/ /\ ~Grants(s) /\ Super(s, "none")
          /\ session' = [session EXCEPT ![s].state = "error"] /\ UNCHANGED owner
    /\ UNCHANGED <<current, row, op, budget, past>>

acquireLock(s) ==
    /\ sup[s] = "lock"
    /\ \/ Grants(s) /\ owner' = s /\ Super(s, "begin") /\ UNCHANGED session
       \/ /\ ~Grants(s) /\ Super(s, "top")
          /\ session' = [session EXCEPT ![s].state = "error", ![s].cooling = TRUE]
          /\ UNCHANGED owner
    /\ UNCHANGED <<current, row, op, budget, past>>

\* setState, and startClient disconnects the old client.
StartClient(s) ==
    /\ sup[s] = "begin" /\ Super(s, "dial")
    /\ session' = [session EXCEPT ![s].state = "connecting", ![s].client = Disconnected(s)]
    /\ UNCHANGED <<current, owner, row, op, budget, past>>

Dial(s) ==
    /\ sup[s] = "dial" /\ Super(s, "connecting")
    /\ UNCHANGED <<current, session, owner, row, op, budget, past>>

ConnectSucceeds(s) ==
    /\ sup[s] = "connecting" /\ Super(s, "top")
    /\ session' = [session EXCEPT ![s].client = "up", ![s].state = "live"]
    /\ UNCHANGED <<current, owner, row, op, budget, past>>

\* The client is cancelled, then the lock is released.
ConnectFails(s) ==
    /\ sup[s] = "connecting" /\ Super(s, "failed") /\ Fault
    /\ owner' = Released(s)
    /\ UNCHANGED <<current, session, row, op, calls, restarts, past>>

\* ClassifyStartError: terminal, flood, or retry.
StartFailed(s) ==
    /\ sup[s] = "failed" /\ Super(s, "top")
    /\ \/ session' = [session EXCEPT ![s].state = "error", ![s].terminal = TRUE]
       \/ session' = [session EXCEPT ![s].state = "connecting", ![s].cooling = TRUE]
       \/ session' = [session EXCEPT ![s].state = "error", ![s].cooling = TRUE]
    /\ UNCHANGED <<current, owner, row, op, budget, past>>

--------------------------------------------------------------------------------
\* Another process takes the lock, as acquireLock does, and leaves.
OtherProcess ==
    /\ \/ owner = None /\ owner' = Other
       \/ owner = Other /\ owner' = None
    /\ UNCHANGED <<mem, row, op, budget, past>>

\* The process dies, and the kernel releases its lock and its connections.
Restart ==
    /\ restarts < MaxRestarts /\ restarts' = restarts + 1
    /\ current' = None /\ owner' = (IF owner = Other THEN Other ELSE None)
    /\ session' = [s \in Sessions |-> NewSession(None)]
    /\ sup' = [s \in Sessions |-> "none"]
    /\ op' = [o \in Ops |-> Idle]
    /\ UNCHANGED <<row, calls, faults, past>>

OpStep(o) ==
    \/ RegisterLookup(o) \/ UnregisterUnmap(o) \/ StopSupervisor(o)
    \/ Disconnect(o) \/ releaseLock(o)
    \/ UnregisterDelete(o) \/ RegisterStore(o) \/ RegisterInsert(o) \/ RestorePaused(o)
    \/ PauseRecord(o) \/ ResumeState(o)

OpCall(o) ==
    \/ \E t \in Tokens : RegisterCall(o, t)
    \/ UnregisterCall(o) \/ RestoreCall(o) \/ ShutdownCall(o)
    \/ Pause(o) \/ Resume(o) \/ Drain(o)

SupStep(s) ==
    \/ Loop(s) \/ Ping(s) \/ acquireLock(s) \/ StartClient(s) \/ Dial(s)
    \/ ConnectSucceeds(s) \/ ConnectFails(s) \/ StartFailed(s)

Next ==
    \/ \E o \in Ops : OpCall(o) \/ OpStep(o)
    \/ \E s \in Sessions : SupStep(s) \/ CoolDown(s)
    \/ OtherProcess \/ Restart

Spec == Init /\ [][Next]_mvars

\* Supervisors and requests in progress go on, and cooldowns end.
Fairness ==
    /\ \A o \in Ops : WF_mvars(OpStep(o))
    /\ \A s \in Sessions : WF_mvars(SupStep(s)) /\ WF_mvars(CoolDown(s))

FairSpec == Spec /\ Fairness

--------------------------------------------------------------------------------
(* Properties *)

SessionFields ==
    [token : Tokens \cup {None}, state : {"connecting", "live", "paused", "draining", "error"},
     client : {"none", "up", "down"}, terminal : BOOLEAN, cooling : BOOLEAN, stopped : BOOLEAN]

OpFields ==
    [call : {"none", "register", "unregister", "restore", "shutdown", "pause", "resume"},
     at : {"idle", "lookup", "unmap", "stop", "disconnect", "release", "delete", "store",
           "insert", "mark", "record", "live"},
     s : Sessions \cup {None}, token : Tokens \cup {None}, paused : BOOLEAN]

\* Every variable keeps its type, and a request that works on a session has one.
MTTypeOK ==
    /\ current \in Sessions \cup {None}
    /\ session \in [Sessions -> SessionFields]
    /\ sup \in [Sessions -> {"none", "top", "ping", "lock", "begin", "dial", "connecting",
                             "failed"}]
    /\ owner \in Sessions \cup {None, Other}
    /\ row \in [token : Tokens \cup {None}, paused : BOOLEAN]
    /\ row.paused => row.token # None
    /\ op \in [Ops -> OpFields]
    /\ \A o \in Ops : op[o].at \in {"stop", "disconnect", "release", "live"} => op[o].s # None
    /\ calls \in Nat /\ faults \in Nat /\ restarts \in Nat
    /\ raced \in BOOLEAN /\ overlapped \in BOOLEAN

\* The auth_key of the alias is never used by two connections, of this process
\* or of another, through any sequence of registrations, rotations, failing
\* connects and pings and restarts - unless a session was torn down while its
\* supervisor was connecting.
OneConnection ==
    ~raced => \A s \in Sessions : Connected(s) =>
        owner # Other /\ \A u \in Sessions : Connected(u) => u = s

\* A quarantined session has let go of Telegram and of the lock, and its
\* supervisor will not connect again, whatever an administrator does.
QuarantineFinal ==
    \A s \in Sessions : session[s].terminal => ~Connected(s) /\ ~Starting(s) /\ owner # s

\* "Unregister stops a session and removes it, lock released": a session that
\* no map and no request refers to has no lock, no connection and no attempt
\* to make one, unless it was torn down while connecting, or two registrations
\* overlapped.
UnregisterReleases ==
    ~raced /\ ~overlapped => \A s \in Sessions :
        current # s /\ (\A o \in Ops : op[o].s # s)
            => owner # s /\ ~Connected(s) /\ ~Starting(s)

\* A session that stays registered, not paused, draining or quarantined, with
\* no other process holding its lock, is connected again and again.
Wanted(s) ==
    /\ current = s /\ owner # Other
    /\ ~session[s].stopped /\ ~session[s].terminal
    /\ session[s].state \notin {"paused", "draining"}

EventuallyConnected ==
    \A s \in Sessions : <>[]Wanted(s) => <>(raced \/ overlapped) \/ []<>Live(s)
================================================================================
