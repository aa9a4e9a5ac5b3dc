----------------------------- MODULE SessionProofs -----------------------------
(***************************************************************************)
(* The goroutines of the sessions.  Of an MTProto session: one connection  *)
(* per auth_key, the finality of a quarantine and what Unregister leaves   *)
(* behind, for any number of sessions, requests, faults and restarts.  Of  *)
(* a bot: the typing loops, for every number of bots, chats, callbacks and *)
(* goroutines, and for every length of a batch.                            *)
(***************************************************************************)
EXTENDS MTSession, Typing, Integers, TLAPS

--------------------------------------------------------------------------------
(* The MTProto session: the inductive invariant *)

\* A request that registers a token carries one.
OpsSound ==
    \A o \in Ops :
        /\ op[o].call \in {"register", "restore"} => op[o].token # None
        /\ op[o].at \in {"lookup", "store", "insert"} => op[o].call \in {"register", "restore"}
        /\ op[o].at \in {"unmap", "delete"}
              => op[o].call \in {"register", "restore", "unregister"}
        /\ op[o].at \in {"stop", "disconnect", "release"}
              => op[o].call \in {"register", "restore", "unregister", "shutdown"}

\* Whoever is past acquireLock, or connected, owns the lock.
Locked ==
    ~raced => \A s \in Sessions :
        sup[s] \in {"begin", "dial", "connecting"} \/ session[s].client = "up" => owner = s

\* A session is stopped before its client is disconnected, and disconnected
\* before its lock is released.
TornDown ==
    \A o \in Ops :
        /\ op[o].at \in {"disconnect", "release"} => session[op[o].s].stopped
        /\ ~raced /\ op[o].at = "release" =>
              ~Starting(op[o].s) /\ session[op[o].s].client # "up"

\* An attempt begins without a client, and one that failed has let go.
Attempt ==
    \A s \in Sessions :
        /\ sup[s] \in {"dial", "connecting", "failed"} => session[s].client # "up"
        /\ sup[s] = "failed" => owner # s

\* The inductive invariant.
Inv == MTTypeOK /\ OpsSound /\ Locked /\ TornDown /\ Attempt /\ QuarantineFinal

\* The invariant holds at the start.
LEMMA InitInv == Init => Inv
<1> SUFFICES ASSUME Init PROVE Inv
  OBVIOUS
<1> USE MTAssumption
<1>1. \A s \in Sessions : session[s] = NewSession(None) /\ sup[s] = "none"
  BY DEF Init
<1>2. \A o \in Ops : op[o] = Idle
  BY Zenon DEF Init
<1>3. row \in [token : Tokens \cup {None}, paused : BOOLEAN] /\ (row.paused => row.token # None)
  <2>1. CASE row = NoRow
    BY <2>1 DEF NoRow
  <2>2. CASE row \in [token : Tokens, paused : BOOLEAN]
    BY <2>2
  <2> QED
    BY <2>1, <2>2 DEF Init
<1>4. MTTypeOK
  BY <1>1, <1>2, <1>3, Zenon DEF Init, MTTypeOK, NewSession, Idle, SessionFields, OpFields
<1>5. OpsSound /\ TornDown
  BY <1>2 DEF OpsSound, TornDown, Idle
<1>6. Locked /\ Attempt /\ QuarantineFinal
  BY <1>1 DEF Locked, Attempt, QuarantineFinal, Connected, Starting, NewSession
<1> QED
  BY <1>4, <1>5, <1>6 DEF Inv

--------------------------------------------------------------------------------
(* One lemma per conjunct; in each, one step per action *)

\* The conjuncts of the type invariant.
SessionOK == session \in [Sessions -> SessionFields]
OpOK ==
    /\ op \in [Ops -> OpFields]
    /\ \A o \in Ops : op[o].at \in {"stop", "disconnect", "release", "live"} => op[o].s # None
RowOK == row \in [token : Tokens \cup {None}, paused : BOOLEAN] /\ (row.paused => row.token # None)
RestOK ==
    /\ current \in Sessions \cup {None} /\ owner \in Sessions \cup {None, Other}
    /\ sup \in [Sessions -> {"none", "top", "ping", "lock", "begin", "dial", "connecting",
                             "failed"}]
    /\ calls \in Nat /\ faults \in Nat /\ restarts \in Nat
    /\ raced \in BOOLEAN /\ overlapped \in BOOLEAN

\* A request that goes on to l keeps everything else.
LEMMA AtMoves ==
    ASSUME op \in [Ops -> OpFields], NEW o \in Ops,
           NEW l \in {"lookup", "unmap", "stop", "disconnect", "release", "delete", "store",
                      "insert", "mark", "record", "live"},
           At(o, l)
    PROVE  /\ op' \in [Ops -> OpFields]
           /\ op'[o].at = l /\ op'[o].call = op[o].call /\ op'[o].s = op[o].s
           /\ op'[o].token = op[o].token
           /\ \A p \in Ops : p # o => op'[p] = op[p]
  BY DEF At, OpFields

\* A request that ends is idle.
LEMMA DoneMoves ==
    ASSUME op \in [Ops -> OpFields], NEW o \in Ops, Done(o)
    PROVE  /\ op' \in [Ops -> OpFields]
           /\ op'[o].at = "idle" /\ op'[o].call = "none"
           /\ \A p \in Ops : p # o => op'[p] = op[p]
  BY Zenon DEF Done, Idle, OpFields

\* A request that has removed the old session ends, or goes on to store.
LEMMA UnregisteredMoves ==
    ASSUME op \in [Ops -> OpFields], NEW o \in Ops, Unregistered(o)
    PROVE  /\ op' \in [Ops -> OpFields]
           /\ \/ op'[o].at = "idle" /\ op'[o].call = "none"
              \/ /\ op'[o].at = "store" /\ op'[o].call = op[o].call /\ op[o].call # "unregister"
                 /\ op'[o].token = op[o].token
           /\ \A p \in Ops : p # o => op'[p] = op[p]
<1>1. CASE op[o].call = "unregister"
  BY <1>1, DoneMoves, Zenon DEF Unregistered
<1>2. CASE op[o].call # "unregister"
  BY <1>2 DEF Unregistered, OpFields
<1> QED
  BY <1>1, <1>2

\* Every step keeps the types.
LEMMA TypeStep == MTTypeOK /\ OpsSound /\ [Next]_mvars => MTTypeOK'
<1> SUFFICES ASSUME MTTypeOK, OpsSound, [Next]_mvars PROVE MTTypeOK'
  BY Zenon
<1> USE MTAssumption
<1>a. SessionOK /\ OpOK /\ RowOK /\ RestOK
  BY Zenon DEF MTTypeOK, SessionOK, OpOK, RowOK, RestOK
<1> USE <1>a
<1>1. CASE UNCHANGED mvars
  BY <1>1, Zenon DEF mvars, mem, budget, past, MTTypeOK
<1>2. ASSUME NEW o \in Ops, NEW t \in Tokens, RegisterCall(o, t) PROVE MTTypeOK'
  BY <1>2 DEF RegisterCall, Begin, Call, mem, MTTypeOK, OpFields
<1>3. ASSUME NEW o \in Ops, RegisterLookup(o) PROVE MTTypeOK'
  <2>1. SessionOK'
    BY <1>3, Zenon DEF RegisterLookup, mem, SessionOK
  <2>2. OpOK'
    BY <1>3, AtMoves, DoneMoves DEF RegisterLookup, Registered, OpOK
  <2>3. RowOK'
    BY <1>3, Zenon DEF RegisterLookup, RowOK
  <2>4. RestOK'
    BY <1>3, Zenon DEF RegisterLookup, mem, budget, past, RestOK
  <2> QED
    BY <2>1, <2>2, <2>3, <2>4, Zenon DEF MTTypeOK, SessionOK, OpOK, RowOK, RestOK
<1>4. ASSUME NEW o \in Ops, UnregisterUnmap(o) PROVE MTTypeOK'
  <2>1. SessionOK'
    BY <1>4, Zenon DEF UnregisterUnmap, SessionOK
  <2>2. OpOK'
    <3>1. CASE Unregistered(o)
      BY <3>1, UnregisteredMoves, Zenon DEF OpOK
    <3>2. CASE current # None /\ op' = [op EXCEPT ![o].at = "stop", ![o].s = current]
      <4>1. op[o] \in OpFields /\ current \in Sessions
        BY <3>2 DEF OpOK, RestOK
      <4>2. [op[o] EXCEPT !.at = "stop", !.s = current] \in OpFields
        BY <4>1, Zenon DEF OpFields
      <4>3. op' = [op EXCEPT ![o] = [op[o] EXCEPT !.at = "stop", !.s = current]]
        BY <3>2, <4>1, Zenon DEF OpOK, OpFields
      <4>4. [op[o] EXCEPT !.at = "stop", !.s = current].s = current
        BY <4>1, Zenon DEF OpFields
      <4> QED
        BY <4>1, <4>2, <4>3, <4>4, Zenon DEF OpOK
    <3> QED
      BY <1>4, <3>1, <3>2, Zenon DEF UnregisterUnmap
  <2>3. RowOK'
    BY <1>4, Zenon DEF UnregisterUnmap, RowOK
  <2>4. RestOK'
    BY <1>4, Zenon DEF UnregisterUnmap, budget, past, RestOK
  <2> QED
    BY <2>1, <2>2, <2>3, <2>4 DEF MTTypeOK, SessionOK, OpOK, RowOK, RestOK
<1>5. ASSUME NEW o \in Ops, StopSupervisor(o) PROVE MTTypeOK'
  <2>1. SessionOK'
    BY <1>5 DEF StopSupervisor, SessionOK, SessionFields, OpOK, OpFields
  <2>2. OpOK'
    BY <1>5, AtMoves, DoneMoves DEF StopSupervisor, OpOK
  <2>3. RowOK'
    BY <1>5, Zenon DEF StopSupervisor, RowOK
  <2>4. RestOK'
    BY <1>5, Zenon DEF StopSupervisor, budget, past, RestOK
  <2> QED
    BY <2>1, <2>2, <2>3, <2>4 DEF MTTypeOK, SessionOK, OpOK, RowOK, RestOK
<1>6. ASSUME NEW o \in Ops, Disconnect(o) PROVE MTTypeOK'
  <2>1. SessionOK'
    BY <1>6 DEF Disconnect, Disconnected, SessionOK, SessionFields, OpOK, OpFields
  <2>2. OpOK'
    BY <1>6 DEF Disconnect, At, OpOK, OpFields, Idle, RestOK, RowOK
  <2>3. RowOK'
    BY <1>6, Zenon DEF Disconnect, RowOK
  <2>4. RestOK'
    BY <1>6, Zenon DEF Disconnect, budget, RestOK
  <2> QED
    BY <2>1, <2>2, <2>3, <2>4 DEF MTTypeOK, SessionOK, OpOK, RowOK, RestOK
<1>7. ASSUME NEW o \in Ops, releaseLock(o) PROVE MTTypeOK'
  <2>1. SessionOK'
    BY <1>7, Zenon DEF releaseLock, mem, SessionOK
  <2>2. OpOK'
    BY <1>7, AtMoves, DoneMoves DEF releaseLock, OpOK
  <2>3. RowOK'
    BY <1>7, Zenon DEF releaseLock, RowOK
  <2>4. RestOK'
    BY <1>7, Zenon DEF releaseLock, Released, mem, budget, past, RestOK
  <2> QED
    BY <2>1, <2>2, <2>3, <2>4 DEF MTTypeOK, SessionOK, OpOK, RowOK, RestOK
<1>8. ASSUME NEW o \in Ops, UnregisterDelete(o) PROVE MTTypeOK'
  <2>1. SessionOK'
    BY <1>8, Zenon DEF UnregisterDelete, mem, SessionOK
  <2>2. OpOK'
    BY <1>8, UnregisteredMoves, Zenon DEF UnregisterDelete, OpOK
  <2>3. RowOK'
    <3>1. CASE row' = NoRow
      BY <3>1, Zenon DEF NoRow, RowOK
    <3>2. CASE UNCHANGED row
      BY <3>2, Zenon DEF RowOK
    <3> QED
      BY <1>8, <3>1, <3>2, Zenon DEF UnregisterDelete
  <2>4. RestOK'
    BY <1>8 DEF UnregisterDelete, Fault, mem, past, RestOK
  <2> QED
    BY <2>1, <2>2, <2>3, <2>4 DEF MTTypeOK, SessionOK, OpOK, RowOK, RestOK
<1>9. ASSUME NEW o \in Ops, RegisterStore(o) PROVE MTTypeOK'
  <2>1. SessionOK'
    BY <1>9, Zenon DEF RegisterStore, mem, SessionOK
  <2>2. OpOK'
    BY <1>9, AtMoves, DoneMoves DEF RegisterStore, OpOK
  <2>3. RowOK'
    BY <1>9, Zenon DEF RegisterStore, RowOK, OpsSound, OpOK, OpFields
  <2>4. RestOK'
    BY <1>9 DEF RegisterStore, Fault, mem, past, RestOK
  <2> QED
    BY <2>1, <2>2, <2>3, <2>4 DEF MTTypeOK, SessionOK, OpOK, RowOK, RestOK
<1>10. ASSUME NEW o \in Ops, RegisterInsert(o) PROVE MTTypeOK'
  <2>1. SessionOK'
    BY <1>10, Zenon DEF RegisterInsert, NewSession, SessionOK, SessionFields, OpOK, OpFields, RestOK
  <2>2. OpOK'
    BY <1>10, AtMoves, DoneMoves DEF RegisterInsert, Registered, OpOK
  <2>3. RowOK'
    BY <1>10, Zenon DEF RegisterInsert, RowOK
  <2>4. RestOK'
    BY <1>10, Zenon DEF RegisterInsert, Super, budget, past, RestOK
  <2> QED
    BY <2>1, <2>2, <2>3, <2>4 DEF MTTypeOK, SessionOK, OpOK, RowOK, RestOK
<1>11. ASSUME NEW o \in Ops, RestorePaused(o) PROVE MTTypeOK'
  <2>1. SessionOK'
    BY <1>11 DEF RestorePaused, SessionOK, SessionFields, RestOK
  <2>2. OpOK'
    BY <1>11, Zenon DEF RestorePaused, Done, OpOK, OpFields, Idle, RestOK, RowOK
  <2>3. RowOK'
    BY <1>11, Zenon DEF RestorePaused, RowOK
  <2>4. RestOK'
    BY <1>11, Zenon DEF RestorePaused, budget, past, RestOK
  <2> QED
    BY <2>1, <2>2, <2>3, <2>4 DEF MTTypeOK, SessionOK, OpOK, RowOK, RestOK
<1>12. ASSUME NEW o \in Ops, PauseRecord(o) PROVE MTTypeOK'
  <2>1. SessionOK'
    BY <1>12, Zenon DEF PauseRecord, mem, SessionOK
  <2>2. OpOK'
    BY <1>12 DEF PauseRecord, Done, NoRow, OpOK, OpFields, Idle, RestOK, RowOK
  <2>3. RowOK'
    BY <1>12, Zenon DEF PauseRecord, SetPaused, NoRow, RowOK, OpOK, OpFields
  <2>4. RestOK'
    BY <1>12 DEF PauseRecord, SetPaused, Fault, mem, past, RestOK
  <2> QED
    BY <2>1, <2>2, <2>3, <2>4 DEF MTTypeOK, SessionOK, OpOK, RowOK, RestOK
<1>13. ASSUME NEW o \in Ops, ResumeState(o) PROVE MTTypeOK'
  <2>1. SessionOK'
    <3>1. op[o].s \in Sessions /\ session[op[o].s] \in SessionFields
      BY <1>13, Zenon DEF ResumeState, SessionOK, OpOK, OpFields
    <3>2. [session[op[o].s] EXCEPT !.state = "live"] \in SessionFields
      BY <3>1, Zenon DEF SessionFields
    <3> QED
      BY <1>13, <3>1, <3>2, Zenon DEF ResumeState, SessionOK
  <2>2. OpOK'
    BY <1>13, Zenon DEF ResumeState, Done, OpOK, OpFields, Idle, RestOK, RowOK
  <2>3. RowOK'
    BY <1>13, Zenon DEF ResumeState, RowOK
  <2>4. RestOK'
    BY <1>13, Zenon DEF ResumeState, budget, past, RestOK
  <2> QED
    BY <2>1, <2>2, <2>3, <2>4 DEF MTTypeOK, SessionOK, OpOK, RowOK, RestOK
<1>14. ASSUME NEW o \in Ops, UnregisterCall(o) PROVE MTTypeOK'
  <2>1. SessionOK'
    BY <1>14, Zenon DEF UnregisterCall, Begin, mem, SessionOK
  <2>2. OpOK'
    BY <1>14, Zenon DEF UnregisterCall, Begin, OpOK, OpFields, Idle, RestOK, RowOK
  <2>3. RowOK'
    BY <1>14, Zenon DEF UnregisterCall, Begin, RowOK
  <2>4. RestOK'
    BY <1>14 DEF UnregisterCall, Begin, Call, mem, RestOK
  <2> QED
    BY <2>1, <2>2, <2>3, <2>4 DEF MTTypeOK, SessionOK, OpOK, RowOK, RestOK
<1>15. ASSUME NEW o \in Ops, RestoreCall(o) PROVE MTTypeOK'
  <2>1. SessionOK'
    BY <1>15, Zenon DEF RestoreCall, Begin, mem, SessionOK
  <2>2. OpOK'
    BY <1>15, Zenon DEF RestoreCall, Begin, NoRow, OpOK, OpFields, Idle, RestOK, RowOK
  <2>3. RowOK'
    BY <1>15, Zenon DEF RestoreCall, Begin, RowOK
  <2>4. RestOK'
    BY <1>15 DEF RestoreCall, Begin, Call, mem, RestOK
  <2> QED
    BY <2>1, <2>2, <2>3, <2>4 DEF MTTypeOK, SessionOK, OpOK, RowOK, RestOK
<1>16. ASSUME NEW o \in Ops, ShutdownCall(o) PROVE MTTypeOK'
  <2>1. SessionOK'
    BY <1>16, Zenon DEF ShutdownCall, Begin, mem, SessionOK
  <2>2. OpOK'
    BY <1>16, Zenon DEF ShutdownCall, Begin, OpOK, OpFields, Idle, RestOK, RowOK
  <2>3. RowOK'
    BY <1>16, Zenon DEF ShutdownCall, Begin, RowOK
  <2>4. RestOK'
    BY <1>16 DEF ShutdownCall, Begin, Call, mem, RestOK
  <2> QED
    BY <2>1, <2>2, <2>3, <2>4 DEF MTTypeOK, SessionOK, OpOK, RowOK, RestOK
<1>17. ASSUME NEW o \in Ops, Pause(o) PROVE MTTypeOK'
  <2>1. SessionOK'
    BY <1>17 DEF Pause, SessionOK, SessionFields, RestOK
  <2>2. OpOK'
    BY <1>17, Zenon DEF Pause, OpOK, OpFields, Idle, RestOK, RowOK
  <2>3. RowOK'
    BY <1>17, Zenon DEF Pause, RowOK
  <2>4. RestOK'
    BY <1>17 DEF Pause, Call, past, RestOK
  <2> QED
    BY <2>1, <2>2, <2>3, <2>4 DEF MTTypeOK, SessionOK, OpOK, RowOK, RestOK
<1>18. ASSUME NEW o \in Ops, Resume(o) PROVE MTTypeOK'
  <2>1. SessionOK'
    BY <1>18, Zenon DEF Resume, mem, SessionOK
  <2>2. OpOK'
    BY <1>18 DEF Resume, NoRow, OpOK, OpFields, Idle, RestOK, RowOK
  <2>3. RowOK'
    BY <1>18, Zenon DEF Resume, SetPaused, NoRow, RowOK, OpOK, OpFields
  <2>4. RestOK'
    BY <1>18 DEF Resume, SetPaused, Call, Fault, mem, past, RestOK
  <2> QED
    BY <2>1, <2>2, <2>3, <2>4 DEF MTTypeOK, SessionOK, OpOK, RowOK, RestOK
<1>19. ASSUME NEW o \in Ops, Drain(o) PROVE MTTypeOK'
  <2>1. SessionOK'
    BY <1>19 DEF Drain, SessionOK, SessionFields, RestOK
  <2>2. OpOK'
    BY <1>19, Zenon DEF Drain, OpOK
  <2>3. RowOK'
    BY <1>19, Zenon DEF Drain, RowOK
  <2>4. RestOK'
    BY <1>19 DEF Drain, Call, past, RestOK
  <2> QED
    BY <2>1, <2>2, <2>3, <2>4 DEF MTTypeOK, SessionOK, OpOK, RowOK, RestOK
<1>20. ASSUME NEW s \in Sessions, Loop(s) PROVE MTTypeOK'
  <2>1. SessionOK'
    BY <1>20, Zenon DEF Loop, SessionOK
  <2>2. OpOK'
    BY <1>20, Zenon DEF Loop, OpOK
  <2>3. RowOK'
    BY <1>20, Zenon DEF Loop, RowOK
  <2>4. RestOK'
    BY <1>20, Zenon DEF Loop, Live, Super, budget, past, RestOK
  <2> QED
    BY <2>1, <2>2, <2>3, <2>4, Zenon DEF MTTypeOK, SessionOK, OpOK, RowOK, RestOK
<1>21. ASSUME NEW s \in Sessions, Ping(s) PROVE MTTypeOK'
  <2>1. SessionOK'
    BY <1>21 DEF Ping, Disconnected, SessionOK, SessionFields
  <2>2. OpOK'
    BY <1>21, Zenon DEF Ping, OpOK
  <2>3. RowOK'
    BY <1>21, Zenon DEF Ping, RowOK
  <2>4. RestOK'
    BY <1>21 DEF Ping, Super, Fault, past, RestOK
  <2> QED
    BY <2>1, <2>2, <2>3, <2>4 DEF MTTypeOK, SessionOK, OpOK, RowOK, RestOK
<1>22. ASSUME NEW s \in Sessions, acquireLock(s) PROVE MTTypeOK'
  <2>1. SessionOK'
    BY <1>22 DEF acquireLock, Grants, SessionOK, SessionFields
  <2>2. OpOK'
    BY <1>22, Zenon DEF acquireLock, Grants, OpOK
  <2>3. RowOK'
    BY <1>22, Zenon DEF acquireLock, Grants, RowOK
  <2>4. RestOK'
    BY <1>22, Zenon DEF acquireLock, Grants, Super, budget, past, RestOK
  <2> QED
    BY <2>1, <2>2, <2>3, <2>4 DEF MTTypeOK, SessionOK, OpOK, RowOK, RestOK
<1>23. ASSUME NEW s \in Sessions, StartClient(s) PROVE MTTypeOK'
  <2>1. SessionOK'
    <3>1. Disconnected(s) \in {"none", "up", "down"}
      BY Zenon DEF Disconnected, SessionOK, SessionFields
    <3> QED
      <4>1. session[s] \in SessionFields
        BY DEF SessionOK
      <4>2. [session[s] EXCEPT !.state = "connecting", !.client = Disconnected(s)]
               \in SessionFields
        BY <3>1, <4>1, Zenon DEF SessionFields
      <4>3. session' = [session EXCEPT ![s] = [session[s] EXCEPT !.state = "connecting",
                                                               !.client = Disconnected(s)]]
        BY <1>23, <4>1, Zenon DEF StartClient, SessionOK, SessionFields
      <4> QED
        BY <4>2, <4>3, Zenon DEF SessionOK
  <2>2. OpOK'
    BY <1>23, Zenon DEF StartClient, OpOK
  <2>3. RowOK'
    BY <1>23, Zenon DEF StartClient, RowOK
  <2>4. RestOK'
    BY <1>23, Zenon DEF StartClient, Super, budget, past, RestOK
  <2> QED
    BY <2>1, <2>2, <2>3, <2>4 DEF MTTypeOK, SessionOK, OpOK, RowOK, RestOK
<1>24. ASSUME NEW s \in Sessions, Dial(s) PROVE MTTypeOK'
  <2>1. SessionOK'
    BY <1>24, Zenon DEF Dial, SessionOK
  <2>2. OpOK'
    BY <1>24, Zenon DEF Dial, OpOK
  <2>3. RowOK'
    BY <1>24, Zenon DEF Dial, RowOK
  <2>4. RestOK'
    BY <1>24, Zenon DEF Dial, Super, budget, past, RestOK
  <2> QED
    BY <2>1, <2>2, <2>3, <2>4 DEF MTTypeOK, SessionOK, OpOK, RowOK, RestOK
<1>25. ASSUME NEW s \in Sessions, ConnectSucceeds(s) PROVE MTTypeOK'
  <2>1. SessionOK'
    <3>1. s \in Sessions /\ session[s] \in SessionFields
      BY Zenon DEF SessionOK
    <3>2. [session[s] EXCEPT !.client = "up", !.state = "live"] \in SessionFields
      BY <3>1, Zenon DEF SessionFields
    <3> QED
      BY <1>25, <3>1, <3>2, Zenon DEF ConnectSucceeds, SessionOK
  <2>2. OpOK'
    BY <1>25, Zenon DEF ConnectSucceeds, OpOK
  <2>3. RowOK'
    BY <1>25, Zenon DEF ConnectSucceeds, RowOK
  <2>4. RestOK'
    BY <1>25, Zenon DEF ConnectSucceeds, Super, budget, past, RestOK
  <2> QED
    BY <2>1, <2>2, <2>3, <2>4 DEF MTTypeOK, SessionOK, OpOK, RowOK, RestOK
<1>26. ASSUME NEW s \in Sessions, ConnectFails(s) PROVE MTTypeOK'
  <2>1. SessionOK'
    BY <1>26, Zenon DEF ConnectFails, SessionOK
  <2>2. OpOK'
    BY <1>26, Zenon DEF ConnectFails, OpOK
  <2>3. RowOK'
    BY <1>26, Zenon DEF ConnectFails, RowOK
  <2>4. RestOK'
    BY <1>26 DEF ConnectFails, Super, Fault, Released, past, RestOK
  <2> QED
    BY <2>1, <2>2, <2>3, <2>4 DEF MTTypeOK, SessionOK, OpOK, RowOK, RestOK
<1>27. ASSUME NEW s \in Sessions, StartFailed(s) PROVE MTTypeOK'
  <2>1. SessionOK'
    BY <1>27 DEF StartFailed, SessionOK, SessionFields
  <2>2. OpOK'
    BY <1>27, Zenon DEF StartFailed, OpOK
  <2>3. RowOK'
    BY <1>27, Zenon DEF StartFailed, RowOK
  <2>4. RestOK'
    BY <1>27, Zenon DEF StartFailed, Super, budget, past, RestOK
  <2> QED
    BY <2>1, <2>2, <2>3, <2>4 DEF MTTypeOK, SessionOK, OpOK, RowOK, RestOK
<1>28. ASSUME NEW s \in Sessions, CoolDown(s) PROVE MTTypeOK'
  <2>1. SessionOK'
    <3>1. s \in Sessions /\ session[s] \in SessionFields
      BY DEF SessionOK
    <3>2. [session[s] EXCEPT !.cooling = FALSE] \in SessionFields
      BY <3>1, Zenon DEF SessionFields
    <3> QED
      BY <1>28, <3>1, <3>2 DEF CoolDown, SessionOK
  <2>2. OpOK'
    BY <1>28, Zenon DEF CoolDown, OpOK
  <2>3. RowOK'
    BY <1>28, Zenon DEF CoolDown, RowOK
  <2>4. RestOK'
    BY <1>28, Zenon DEF CoolDown, budget, past, RestOK
  <2> QED
    BY <2>1, <2>2, <2>3, <2>4 DEF MTTypeOK, SessionOK, OpOK, RowOK, RestOK
<1>29. CASE OtherProcess
  BY <1>29, Zenon DEF OtherProcess, mem, budget, past, MTTypeOK
<1>30. CASE Restart
  BY <1>30 DEF Restart, past, MTTypeOK, SessionFields, OpFields, NewSession, Idle
<1> QED
  BY <1>1, <1>2, <1>3, <1>4, <1>5, <1>6, <1>7, <1>8, <1>9, <1>10, <1>11, <1>12, <1>13, <1>14, <1>15,
     <1>16, <1>17, <1>18, <1>19, <1>20, <1>21, <1>22, <1>23, <1>24, <1>25, <1>26, <1>27, <1>28, <1>29, <1>30
  DEF Next, OpCall, OpStep, SupStep

\* Every step keeps what requests carry.
LEMMA OpsStep == MTTypeOK /\ OpsSound /\ [Next]_mvars => OpsSound'
<1> SUFFICES ASSUME MTTypeOK, OpsSound, [Next]_mvars PROVE OpsSound'
  BY Zenon
<1> USE MTAssumption
<1>a. op \in [Ops -> OpFields]
  BY Zenon DEF MTTypeOK
<1> USE <1>a DEF OpsSound
<1>1. CASE UNCHANGED mvars
  BY <1>1, Zenon DEF mvars, mem, budget, past
<1>2. ASSUME NEW o \in Ops, NEW t \in Tokens, RegisterCall(o, t) PROVE OpsSound'
  BY <1>2, Zenon DEF RegisterCall, Begin, OpFields
<1>3. ASSUME NEW o \in Ops, RegisterLookup(o) PROVE OpsSound'
  BY <1>3, AtMoves, DoneMoves DEF RegisterLookup, Registered
<1>4. ASSUME NEW o \in Ops, UnregisterUnmap(o) PROVE OpsSound'
  <2>1. CASE Unregistered(o)
    BY <1>4, <2>1, UnregisteredMoves DEF UnregisterUnmap
  <2>2. CASE op' = [op EXCEPT ![o].at = "stop", ![o].s = current]
    BY <1>4, <2>2 DEF UnregisterUnmap, OpFields
  <2> QED
    BY <1>4, <2>1, <2>2, Zenon DEF UnregisterUnmap
<1>5. ASSUME NEW o \in Ops, StopSupervisor(o) PROVE OpsSound'
  BY <1>5, AtMoves, DoneMoves DEF StopSupervisor
<1>6. ASSUME NEW o \in Ops, Disconnect(o) PROVE OpsSound'
  BY <1>6, AtMoves DEF Disconnect
<1>7. ASSUME NEW o \in Ops, releaseLock(o) PROVE OpsSound'
  BY <1>7, AtMoves, DoneMoves DEF releaseLock
<1>8. ASSUME NEW o \in Ops, UnregisterDelete(o) PROVE OpsSound'
  BY <1>8, UnregisteredMoves DEF UnregisterDelete
<1>9. ASSUME NEW o \in Ops, RegisterStore(o) PROVE OpsSound'
  BY <1>9, AtMoves, DoneMoves DEF RegisterStore
<1>10. ASSUME NEW o \in Ops, RegisterInsert(o) PROVE OpsSound'
  BY <1>10, AtMoves, DoneMoves DEF RegisterInsert, Registered
<1>11. ASSUME NEW o \in Ops, RestorePaused(o) PROVE OpsSound'
  BY <1>11, DoneMoves DEF RestorePaused
<1>12. ASSUME NEW o \in Ops, PauseRecord(o) PROVE OpsSound'
  BY <1>12, DoneMoves DEF PauseRecord
<1>13. ASSUME NEW o \in Ops, ResumeState(o) PROVE OpsSound'
  BY <1>13, DoneMoves DEF ResumeState
<1>14. ASSUME NEW o \in Ops, UnregisterCall(o) PROVE OpsSound'
  BY <1>14, Zenon DEF UnregisterCall, Begin, OpFields
<1>15. ASSUME NEW o \in Ops, RestoreCall(o) PROVE OpsSound'
  BY <1>15 DEF RestoreCall, Begin, OpFields, NoRow, MTTypeOK
<1>16. ASSUME NEW o \in Ops, ShutdownCall(o) PROVE OpsSound'
  BY <1>16, Zenon DEF ShutdownCall, Begin, OpFields
<1>17. ASSUME NEW o \in Ops, Pause(o) PROVE OpsSound'
  BY <1>17, Zenon DEF Pause, Idle, OpFields
<1>18. ASSUME NEW o \in Ops, Resume(o) PROVE OpsSound'
  BY <1>18 DEF Resume, Idle, OpFields
<1>19. ASSUME NEW o \in Ops, Drain(o) PROVE OpsSound'
  BY <1>19, Zenon DEF Drain, mem, budget, past
<1>20. ASSUME NEW s \in Sessions, Loop(s) PROVE OpsSound'
  BY <1>20, Zenon DEF Loop, Live, mem, budget, past
<1>21. ASSUME NEW s \in Sessions, Ping(s) PROVE OpsSound'
  BY <1>21, Zenon DEF Ping, mem, budget, past
<1>22. ASSUME NEW s \in Sessions, acquireLock(s) PROVE OpsSound'
  BY <1>22, Zenon DEF acquireLock, Grants, mem, budget, past
<1>23. ASSUME NEW s \in Sessions, StartClient(s) PROVE OpsSound'
  BY <1>23, Zenon DEF StartClient, mem, budget, past
<1>24. ASSUME NEW s \in Sessions, Dial(s) PROVE OpsSound'
  BY <1>24, Zenon DEF Dial, mem, budget, past
<1>25. ASSUME NEW s \in Sessions, ConnectSucceeds(s) PROVE OpsSound'
  BY <1>25, Zenon DEF ConnectSucceeds, mem, budget, past
<1>26. ASSUME NEW s \in Sessions, ConnectFails(s) PROVE OpsSound'
  BY <1>26, Zenon DEF ConnectFails, mem, budget, past
<1>27. ASSUME NEW s \in Sessions, StartFailed(s) PROVE OpsSound'
  BY <1>27, Zenon DEF StartFailed, mem, budget, past
<1>28. ASSUME NEW s \in Sessions, CoolDown(s) PROVE OpsSound'
  BY <1>28, Zenon DEF CoolDown, mem, budget, past
<1>29. CASE OtherProcess
  BY <1>29, Zenon DEF OtherProcess, mem, budget, past
<1>30. CASE Restart
  BY <1>30, Zenon DEF Restart, Idle
<1> QED
  BY <1>1, <1>2, <1>3, <1>4, <1>5, <1>6, <1>7, <1>8, <1>9, <1>10, <1>11, <1>12, <1>13, <1>14, <1>15, Zenon,
     <1>16, <1>17, <1>18, <1>19, <1>20, <1>21, <1>22, <1>23, <1>24, <1>25, <1>26, <1>27, <1>28, <1>29, <1>30
  DEF Next, OpCall, OpStep, SupStep

\* Every step keeps the lock of those who need it.
LEMMA LockedStep == Inv /\ [Next]_mvars => Locked'
<1> SUFFICES ASSUME Inv, [Next]_mvars PROVE Locked'
  BY Zenon
<1> USE MTAssumption
<1> USE DEF Inv, MTTypeOK, SessionFields, OpFields, Locked, TornDown, Starting, At, Done, Super,
   Call, Fault, Disconnected, Released, Idle, NoRow, NewSession
<1>1. CASE UNCHANGED mvars
  BY <1>1, Zenon DEF mvars, mem, budget, past
<1>2. ASSUME NEW o \in Ops, NEW t \in Tokens, RegisterCall(o, t) PROVE Locked'
  BY <1>2, Zenon DEF RegisterCall, Begin, mem
<1>3. ASSUME NEW o \in Ops, RegisterLookup(o) PROVE Locked'
  BY <1>3, Zenon DEF RegisterLookup, Registered, mem, budget, past
<1>4. ASSUME NEW o \in Ops, UnregisterUnmap(o) PROVE Locked'
  BY <1>4, Zenon DEF UnregisterUnmap, Unregistered, mem, budget, past
<1>5. ASSUME NEW o \in Ops, StopSupervisor(o) PROVE Locked'
  BY <1>5 DEF StopSupervisor, mem, budget, past
<1>6. ASSUME NEW o \in Ops, Disconnect(o) PROVE Locked'
  BY <1>6 DEF Disconnect, mem, budget, past
<1>7. ASSUME NEW o \in Ops, releaseLock(o) PROVE Locked'
  BY <1>7 DEF releaseLock, mem, budget, past
<1>8. ASSUME NEW o \in Ops, UnregisterDelete(o) PROVE Locked'
  BY <1>8, Zenon DEF UnregisterDelete, Unregistered, mem, budget, past
<1>9. ASSUME NEW o \in Ops, RegisterStore(o) PROVE Locked'
  BY <1>9, Zenon DEF RegisterStore, mem, budget, past
<1>10. ASSUME NEW o \in Ops, RegisterInsert(o) PROVE Locked'
  BY <1>10 DEF RegisterInsert, Registered, Free, mem, budget, past
<1>11. ASSUME NEW o \in Ops, RestorePaused(o) PROVE Locked'
  BY <1>11 DEF RestorePaused, mem, budget, past
<1>12. ASSUME NEW o \in Ops, PauseRecord(o) PROVE Locked'
  BY <1>12, Zenon DEF PauseRecord, SetPaused, mem, budget, past
<1>13. ASSUME NEW o \in Ops, ResumeState(o) PROVE Locked'
  BY <1>13 DEF ResumeState, mem, budget, past
<1>14. ASSUME NEW o \in Ops, UnregisterCall(o) PROVE Locked'
  BY <1>14, Zenon DEF UnregisterCall, Begin, mem, budget, past
<1>15. ASSUME NEW o \in Ops, RestoreCall(o) PROVE Locked'
  BY <1>15, Zenon DEF RestoreCall, Begin, mem, budget, past
<1>16. ASSUME NEW o \in Ops, ShutdownCall(o) PROVE Locked'
  BY <1>16, Zenon DEF ShutdownCall, Begin, mem, budget, past
<1>17. ASSUME NEW o \in Ops, Pause(o) PROVE Locked'
  BY <1>17 DEF Pause, mem, budget, past
<1>18. ASSUME NEW o \in Ops, Resume(o) PROVE Locked'
  BY <1>18, Zenon DEF Resume, SetPaused, mem, budget, past
<1>19. ASSUME NEW o \in Ops, Drain(o) PROVE Locked'
  BY <1>19 DEF Drain, mem, budget, past
<1>20. ASSUME NEW s \in Sessions, Loop(s) PROVE Locked'
  BY <1>20 DEF Loop, Live, mem, budget, past
<1>21. ASSUME NEW s \in Sessions, Ping(s) PROVE Locked'
  BY <1>21 DEF Ping, mem, budget, past
<1>22. ASSUME NEW s \in Sessions, acquireLock(s) PROVE Locked'
  BY <1>22 DEF acquireLock, Grants, mem, budget, past
<1>23. ASSUME NEW s \in Sessions, StartClient(s) PROVE Locked'
  BY <1>23 DEF StartClient, mem, budget, past
<1>24. ASSUME NEW s \in Sessions, Dial(s) PROVE Locked'
  BY <1>24, Zenon DEF Dial, mem, budget, past
<1>25. ASSUME NEW s \in Sessions, ConnectSucceeds(s) PROVE Locked'
  BY <1>25 DEF ConnectSucceeds, mem, budget, past
<1>26. ASSUME NEW s \in Sessions, ConnectFails(s) PROVE Locked'
  BY <1>26 DEF ConnectFails, Attempt, mem, budget, past
<1>27. ASSUME NEW s \in Sessions, StartFailed(s) PROVE Locked'
  BY <1>27 DEF StartFailed, mem, budget, past
<1>28. ASSUME NEW s \in Sessions, CoolDown(s) PROVE Locked'
  BY <1>28 DEF CoolDown, mem, budget, past
<1>29. CASE OtherProcess
  BY <1>29 DEF OtherProcess, mem, budget, past
<1>30. CASE Restart
  BY <1>30 DEF Restart, mem, budget, past
<1> QED
  BY <1>1, <1>2, <1>3, <1>4, <1>5, <1>6, <1>7, <1>8, <1>9, <1>10, <1>11, <1>12, <1>13, <1>14, <1>15, Zenon,
     <1>16, <1>17, <1>18, <1>19, <1>20, <1>21, <1>22, <1>23, <1>24, <1>25, <1>26, <1>27, <1>28, <1>29, <1>30
  DEF Next, OpCall, OpStep, SupStep

\* Every step keeps the order of a teardown.
LEMMA TornDownStep == Inv /\ [Next]_mvars => TornDown'
<1> SUFFICES ASSUME Inv, [Next]_mvars PROVE TornDown'
  BY Zenon
<1> USE MTAssumption
<1> USE DEF Inv, MTTypeOK, SessionFields, OpFields, TornDown, Starting, At, Done, Super, Call,
   Fault, Disconnected, Released, Idle, NoRow, NewSession
<1>1. CASE UNCHANGED mvars
  BY <1>1, Zenon DEF mvars, mem, budget, past
<1>2. ASSUME NEW o \in Ops, NEW t \in Tokens, RegisterCall(o, t) PROVE TornDown'
  BY <1>2 DEF RegisterCall, Begin, mem
<1>3. ASSUME NEW o \in Ops, RegisterLookup(o) PROVE TornDown'
  BY <1>3 DEF RegisterLookup, Registered, mem, budget, past
<1>4. ASSUME NEW o \in Ops, UnregisterUnmap(o) PROVE TornDown'
  <2>1. CASE Unregistered(o)
    BY <1>4, <2>1, UnregisteredMoves DEF UnregisterUnmap, past
  <2>2. CASE op' = [op EXCEPT ![o].at = "stop", ![o].s = current]
    BY <1>4, <2>2 DEF UnregisterUnmap, past
  <2> QED
    BY <1>4, <2>1, <2>2, Zenon DEF UnregisterUnmap
<1>5. ASSUME NEW o \in Ops, StopSupervisor(o) PROVE TornDown'
  <2>1. op[o].s \in Sessions /\ sup' = sup /\ raced' = raced
    BY <1>5, Zenon DEF StopSupervisor, past
  <2>2. session'[op[o].s].stopped /\ session'[op[o].s].client = session[op[o].s].client
    BY <1>5, <2>1 DEF StopSupervisor
  <2>3. \A u \in Sessions : u # op[o].s => session'[u] = session[u]
    BY <1>5, <2>1 DEF StopSupervisor
  <2>4. /\ op'[o].at # "release" /\ (op'[o].at = "disconnect" => op'[o].s = op[o].s)
        /\ \A p \in Ops : p # o => op'[p] = op[p]
    BY <1>5, AtMoves, DoneMoves, Zenon DEF StopSupervisor
  <2>5. \A p \in Ops : op[p].at \in {"disconnect", "release"} => op[p].s \in Sessions
    BY Zenon
  <2> HIDE DEF Inv, MTTypeOK
  <2>6. TornDown
    BY Zenon DEF Inv
  <2> QED
    BY <2>1, <2>2, <2>3, <2>4, <2>5, <2>6
<1>6. ASSUME NEW o \in Ops, Disconnect(o) PROVE TornDown'
  BY <1>6 DEF Disconnect, mem, budget, past
<1>7. ASSUME NEW o \in Ops, releaseLock(o) PROVE TornDown'
  BY <1>7 DEF releaseLock, mem, budget, past
<1>8. ASSUME NEW o \in Ops, UnregisterDelete(o) PROVE TornDown'
  BY <1>8, UnregisteredMoves DEF UnregisterDelete, mem, past
<1>9. ASSUME NEW o \in Ops, RegisterStore(o) PROVE TornDown'
  BY <1>9 DEF RegisterStore, mem, budget, past
<1>10. ASSUME NEW o \in Ops, RegisterInsert(o) PROVE TornDown'
  <2> DEFINE s == CHOOSE u \in Sessions : Free(u)
  <2>1. s \in Sessions /\ Free(s)
    BY <1>10, Zenon DEF RegisterInsert
  <2> HIDE DEF s
  <2>2. \A u \in Sessions : u # s => session'[u] = session[u] /\ sup'[u] = sup[u]
    BY <1>10, <2>1 DEF RegisterInsert, s
  <2>3. /\ op'[o].at \in {"mark", "idle"} /\ raced' = raced
        /\ \A p \in Ops : p # o => op'[p] = op[p]
    BY <1>10, AtMoves, DoneMoves, Zenon DEF RegisterInsert, Registered, past
  <2>4. \A p \in Ops : op[p].s # s
    BY <2>1, Zenon DEF Free
  <2>5. \A p \in Ops : op[p].at \in {"disconnect", "release"} => op[p].s \in Sessions
    OBVIOUS
  <2> HIDE DEF Inv, MTTypeOK
  <2>6. TornDown
    BY DEF Inv
  <2> QED
    BY <2>2, <2>3, <2>4, <2>5, <2>6
<1>11. ASSUME NEW o \in Ops, RestorePaused(o) PROVE TornDown'
  BY <1>11 DEF RestorePaused, mem, budget, past
<1>12. ASSUME NEW o \in Ops, PauseRecord(o) PROVE TornDown'
  BY <1>12 DEF PauseRecord, SetPaused, mem, budget, past
<1>13. ASSUME NEW o \in Ops, ResumeState(o) PROVE TornDown'
  BY <1>13 DEF ResumeState, mem, budget, past
<1>14. ASSUME NEW o \in Ops, UnregisterCall(o) PROVE TornDown'
  BY <1>14 DEF UnregisterCall, Begin, mem, budget, past
<1>15. ASSUME NEW o \in Ops, RestoreCall(o) PROVE TornDown'
  BY <1>15 DEF RestoreCall, Begin, mem, budget, past
<1>16. ASSUME NEW o \in Ops, ShutdownCall(o) PROVE TornDown'
  BY <1>16 DEF ShutdownCall, Begin, mem, budget, past
<1>17. ASSUME NEW o \in Ops, Pause(o) PROVE TornDown'
  BY <1>17 DEF Pause, mem, budget, past
<1>18. ASSUME NEW o \in Ops, Resume(o) PROVE TornDown'
  BY <1>18 DEF Resume, SetPaused, mem, budget, past
<1>19. ASSUME NEW o \in Ops, Drain(o) PROVE TornDown'
  BY <1>19 DEF Drain, mem, budget, past
<1>20. ASSUME NEW s \in Sessions, Loop(s) PROVE TornDown'
  BY <1>20 DEF Loop, Live, mem, budget, past
<1>21. ASSUME NEW s \in Sessions, Ping(s) PROVE TornDown'
  BY <1>21 DEF Ping, mem, budget, past
<1>22. ASSUME NEW s \in Sessions, acquireLock(s) PROVE TornDown'
  <2>1. \A u \in Sessions : session'[u].stopped = session[u].stopped
                            /\ session'[u].client = session[u].client
    BY <1>22 DEF acquireLock, Grants
  <2>2. \A u \in Sessions : Starting(u)' => Starting(u)
    BY <1>22 DEF acquireLock, Grants
  <2>3. op' = op /\ raced' = raced
    BY <1>22, Zenon DEF acquireLock, Grants, past
  <2>4. \A p \in Ops : op[p].at \in {"disconnect", "release"} => op[p].s \in Sessions
    BY Zenon
  <2> HIDE DEF Inv, MTTypeOK, Starting
  <2>5. TornDown
    BY Zenon DEF Inv
  <2> QED
    BY <2>1, <2>2, <2>3, <2>4, <2>5, Zenon
<1>23. ASSUME NEW s \in Sessions, StartClient(s) PROVE TornDown'
  BY <1>23 DEF StartClient, mem, budget, past
<1>24. ASSUME NEW s \in Sessions, Dial(s) PROVE TornDown'
  BY <1>24 DEF Dial, mem, budget, past
<1>25. ASSUME NEW s \in Sessions, ConnectSucceeds(s) PROVE TornDown'
  BY <1>25 DEF ConnectSucceeds, mem, budget, past
<1>26. ASSUME NEW s \in Sessions, ConnectFails(s) PROVE TornDown'
  BY <1>26 DEF ConnectFails, mem, budget, past
<1>27. ASSUME NEW s \in Sessions, StartFailed(s) PROVE TornDown'
  BY <1>27 DEF StartFailed, mem, budget, past
<1>28. ASSUME NEW s \in Sessions, CoolDown(s) PROVE TornDown'
  BY <1>28 DEF CoolDown, mem, budget, past
<1>29. CASE OtherProcess
  BY <1>29, Zenon DEF OtherProcess, mem, budget, past
<1>30. CASE Restart
  BY <1>30, Zenon DEF Restart, mem, budget, past
<1> QED
  BY <1>1, <1>2, <1>3, <1>4, <1>5, <1>6, <1>7, <1>8, <1>9, <1>10, <1>11, <1>12, <1>13, <1>14, <1>15, Zenon,
     <1>16, <1>17, <1>18, <1>19, <1>20, <1>21, <1>22, <1>23, <1>24, <1>25, <1>26, <1>27, <1>28, <1>29, <1>30
  DEF Next, OpCall, OpStep, SupStep

\* Every step keeps attempts sound.
LEMMA AttemptStep == Inv /\ [Next]_mvars => Attempt'
<1> SUFFICES ASSUME Inv, [Next]_mvars PROVE Attempt'
  OBVIOUS
<1> USE MTAssumption
<1> USE DEF Inv, MTTypeOK, SessionFields, OpFields, Locked, Attempt, At, Done, Super, Call,
   Fault, Disconnected, Released, Idle, NoRow, NewSession
<1>1. CASE UNCHANGED mvars
  BY <1>1, Zenon DEF mvars, mem, budget, past
<1>2. ASSUME NEW o \in Ops, NEW t \in Tokens, RegisterCall(o, t) PROVE Attempt'
  BY <1>2, Zenon DEF RegisterCall, Begin, mem
<1>3. ASSUME NEW o \in Ops, RegisterLookup(o) PROVE Attempt'
  BY <1>3, Zenon DEF RegisterLookup, Registered, mem, budget, past
<1>4. ASSUME NEW o \in Ops, UnregisterUnmap(o) PROVE Attempt'
  BY <1>4, Zenon DEF UnregisterUnmap, Unregistered, mem, budget, past
<1>5. ASSUME NEW o \in Ops, StopSupervisor(o) PROVE Attempt'
  BY <1>5 DEF StopSupervisor, mem, budget, past
<1>6. ASSUME NEW o \in Ops, Disconnect(o) PROVE Attempt'
  BY <1>6 DEF Disconnect, mem, budget, past
<1>7. ASSUME NEW o \in Ops, releaseLock(o) PROVE Attempt'
  BY <1>7, Zenon DEF releaseLock, mem, budget, past
<1>8. ASSUME NEW o \in Ops, UnregisterDelete(o) PROVE Attempt'
  BY <1>8, Zenon DEF UnregisterDelete, Unregistered, mem, budget, past
<1>9. ASSUME NEW o \in Ops, RegisterStore(o) PROVE Attempt'
  BY <1>9, Zenon DEF RegisterStore, mem, budget, past
<1>10. ASSUME NEW o \in Ops, RegisterInsert(o) PROVE Attempt'
  BY <1>10 DEF RegisterInsert, Registered, Free, mem, budget, past
<1>11. ASSUME NEW o \in Ops, RestorePaused(o) PROVE Attempt'
  BY <1>11 DEF RestorePaused, mem, budget, past
<1>12. ASSUME NEW o \in Ops, PauseRecord(o) PROVE Attempt'
  BY <1>12, Zenon DEF PauseRecord, SetPaused, mem, budget, past
<1>13. ASSUME NEW o \in Ops, ResumeState(o) PROVE Attempt'
  BY <1>13 DEF ResumeState, mem, budget, past
<1>14. ASSUME NEW o \in Ops, UnregisterCall(o) PROVE Attempt'
  BY <1>14, Zenon DEF UnregisterCall, Begin, mem, budget, past
<1>15. ASSUME NEW o \in Ops, RestoreCall(o) PROVE Attempt'
  BY <1>15, Zenon DEF RestoreCall, Begin, mem, budget, past
<1>16. ASSUME NEW o \in Ops, ShutdownCall(o) PROVE Attempt'
  BY <1>16, Zenon DEF ShutdownCall, Begin, mem, budget, past
<1>17. ASSUME NEW o \in Ops, Pause(o) PROVE Attempt'
  BY <1>17 DEF Pause, mem, budget, past
<1>18. ASSUME NEW o \in Ops, Resume(o) PROVE Attempt'
  BY <1>18, Zenon DEF Resume, SetPaused, mem, budget, past
<1>19. ASSUME NEW o \in Ops, Drain(o) PROVE Attempt'
  BY <1>19 DEF Drain, mem, budget, past
<1>20. ASSUME NEW s \in Sessions, Loop(s) PROVE Attempt'
  BY <1>20 DEF Loop, Live, mem, budget, past
<1>21. ASSUME NEW s \in Sessions, Ping(s) PROVE Attempt'
  BY <1>21 DEF Ping, mem, budget, past
<1>22. ASSUME NEW s \in Sessions, acquireLock(s) PROVE Attempt'
  BY <1>22 DEF acquireLock, Grants, mem, budget, past
<1>23. ASSUME NEW s \in Sessions, StartClient(s) PROVE Attempt'
  BY <1>23 DEF StartClient, mem, budget, past
<1>24. ASSUME NEW s \in Sessions, Dial(s) PROVE Attempt'
  BY <1>24 DEF Dial, mem, budget, past
<1>25. ASSUME NEW s \in Sessions, ConnectSucceeds(s) PROVE Attempt'
  BY <1>25, Zenon DEF ConnectSucceeds, mem, budget, past
<1>26. ASSUME NEW s \in Sessions, ConnectFails(s) PROVE Attempt'
  BY <1>26 DEF ConnectFails, mem, budget, past
<1>27. ASSUME NEW s \in Sessions, StartFailed(s) PROVE Attempt'
  BY <1>27 DEF StartFailed, mem, budget, past
<1>28. ASSUME NEW s \in Sessions, CoolDown(s) PROVE Attempt'
  BY <1>28 DEF CoolDown, mem, budget, past
<1>29. CASE OtherProcess
  BY <1>29 DEF OtherProcess, mem, budget, past
<1>30. CASE Restart
  BY <1>30 DEF Restart, mem, budget, past
<1> QED
  BY <1>1, <1>2, <1>3, <1>4, <1>5, <1>6, <1>7, <1>8, <1>9, <1>10, <1>11, <1>12, <1>13, <1>14, <1>15, Zenon,
     <1>16, <1>17, <1>18, <1>19, <1>20, <1>21, <1>22, <1>23, <1>24, <1>25, <1>26, <1>27, <1>28, <1>29, <1>30
  DEF Next, OpCall, OpStep, SupStep

\* Every step keeps a quarantine.
LEMMA QuarantineStep == Inv /\ [Next]_mvars => QuarantineFinal'
<1> SUFFICES ASSUME Inv, [Next]_mvars PROVE QuarantineFinal'
  BY Zenon
<1> USE MTAssumption
<1> USE DEF Inv, MTTypeOK, SessionFields, OpFields, Attempt, QuarantineFinal, Starting,
   Connected, At, Done, Super, Call, Fault, Disconnected, Released, Idle, NoRow, NewSession
<1>1. CASE UNCHANGED mvars
  BY <1>1, Zenon DEF mvars, mem, budget, past
<1>2. ASSUME NEW o \in Ops, NEW t \in Tokens, RegisterCall(o, t) PROVE QuarantineFinal'
  BY <1>2, Zenon DEF RegisterCall, Begin, mem
<1>3. ASSUME NEW o \in Ops, RegisterLookup(o) PROVE QuarantineFinal'
  BY <1>3, Zenon DEF RegisterLookup, Registered, mem, budget, past
<1>4. ASSUME NEW o \in Ops, UnregisterUnmap(o) PROVE QuarantineFinal'
  BY <1>4, Zenon DEF UnregisterUnmap, Unregistered, mem, budget, past
<1>5. ASSUME NEW o \in Ops, StopSupervisor(o) PROVE QuarantineFinal'
  BY <1>5 DEF StopSupervisor, mem, budget, past
<1>6. ASSUME NEW o \in Ops, Disconnect(o) PROVE QuarantineFinal'
  BY <1>6 DEF Disconnect, mem, budget, past
<1>7. ASSUME NEW o \in Ops, releaseLock(o) PROVE QuarantineFinal'
  BY <1>7, Zenon DEF releaseLock, mem, budget, past
<1>8. ASSUME NEW o \in Ops, UnregisterDelete(o) PROVE QuarantineFinal'
  BY <1>8, Zenon DEF UnregisterDelete, Unregistered, mem, budget, past
<1>9. ASSUME NEW o \in Ops, RegisterStore(o) PROVE QuarantineFinal'
  BY <1>9, Zenon DEF RegisterStore, mem, budget, past
<1>10. ASSUME NEW o \in Ops, RegisterInsert(o) PROVE QuarantineFinal'
  BY <1>10 DEF RegisterInsert, Registered, Free, mem, budget, past
<1>11. ASSUME NEW o \in Ops, RestorePaused(o) PROVE QuarantineFinal'
  <2>1. \A u \in Sessions : session'[u].terminal = session[u].terminal
                            /\ session'[u].client = session[u].client
    BY <1>11 DEF RestorePaused
  <2> QED
    BY <1>11, <2>1, Zenon DEF RestorePaused
<1>12. ASSUME NEW o \in Ops, PauseRecord(o) PROVE QuarantineFinal'
  BY <1>12, Zenon DEF PauseRecord, SetPaused, mem, budget, past
<1>13. ASSUME NEW o \in Ops, ResumeState(o) PROVE QuarantineFinal'
  BY <1>13 DEF ResumeState, mem, budget, past
<1>14. ASSUME NEW o \in Ops, UnregisterCall(o) PROVE QuarantineFinal'
  BY <1>14, Zenon DEF UnregisterCall, Begin, mem, budget, past
<1>15. ASSUME NEW o \in Ops, RestoreCall(o) PROVE QuarantineFinal'
  BY <1>15, Zenon DEF RestoreCall, Begin, mem, budget, past
<1>16. ASSUME NEW o \in Ops, ShutdownCall(o) PROVE QuarantineFinal'
  BY <1>16, Zenon DEF ShutdownCall, Begin, mem, budget, past
<1>17. ASSUME NEW o \in Ops, Pause(o) PROVE QuarantineFinal'
  BY <1>17 DEF Pause, mem, budget, past
<1>18. ASSUME NEW o \in Ops, Resume(o) PROVE QuarantineFinal'
  BY <1>18, Zenon DEF Resume, SetPaused, mem, budget, past
<1>19. ASSUME NEW o \in Ops, Drain(o) PROVE QuarantineFinal'
  BY <1>19 DEF Drain, mem, budget, past
<1>20. ASSUME NEW s \in Sessions, Loop(s) PROVE QuarantineFinal'
  BY <1>20 DEF Loop, Live, mem, budget, past
<1>21. ASSUME NEW s \in Sessions, Ping(s) PROVE QuarantineFinal'
  BY <1>21 DEF Ping, mem, budget, past
<1>22. ASSUME NEW s \in Sessions, acquireLock(s) PROVE QuarantineFinal'
  BY <1>22 DEF acquireLock, Grants, mem, budget, past
<1>23. ASSUME NEW s \in Sessions, StartClient(s) PROVE QuarantineFinal'
  BY <1>23 DEF StartClient, mem, budget, past
<1>24. ASSUME NEW s \in Sessions, Dial(s) PROVE QuarantineFinal'
  BY <1>24, Zenon DEF Dial, mem, budget, past
<1>25. ASSUME NEW s \in Sessions, ConnectSucceeds(s) PROVE QuarantineFinal'
  BY <1>25 DEF ConnectSucceeds, mem, budget, past
<1>26. ASSUME NEW s \in Sessions, ConnectFails(s) PROVE QuarantineFinal'
  BY <1>26 DEF ConnectFails, mem, budget, past
<1>27. ASSUME NEW s \in Sessions, StartFailed(s) PROVE QuarantineFinal'
  BY <1>27 DEF StartFailed, mem, budget, past
<1>28. ASSUME NEW s \in Sessions, CoolDown(s) PROVE QuarantineFinal'
  BY <1>28 DEF CoolDown, mem, budget, past
<1>29. CASE OtherProcess
  BY <1>29 DEF OtherProcess, mem, budget, past
<1>30. CASE Restart
  BY <1>30 DEF Restart, mem, budget, past
<1> QED
  BY <1>1, <1>2, <1>3, <1>4, <1>5, <1>6, <1>7, <1>8, <1>9, <1>10, <1>11, <1>12, <1>13, <1>14, <1>15, Zenon,
     <1>16, <1>17, <1>18, <1>19, <1>20, <1>21, <1>22, <1>23, <1>24, <1>25, <1>26, <1>27, <1>28, <1>29, <1>30
  DEF Next, OpCall, OpStep, SupStep

--------------------------------------------------------------------------------
\* The invariant of sessions.go and lock.go.
THEOREM MTInvariant == Spec => []Inv
<1>1. Inv /\ [Next]_mvars => Inv'
  <2> SUFFICES ASSUME Inv, [Next]_mvars PROVE Inv'
    OBVIOUS
  <2>1. MTTypeOK /\ OpsSound
    BY DEF Inv
  <2> QED
    BY <2>1, TypeStep, OpsStep, LockedStep, TornDownStep, AttemptStep, QuarantineStep DEF Inv
<1> QED
  BY <1>1, InitInv, PTL DEF Spec

\* The variables keep their types.
THEOREM MTTyped == Spec => []MTTypeOK
<1>1. Inv => MTTypeOK
  BY Zenon DEF Inv
<1> QED
  BY <1>1, MTInvariant, PTL

\* The auth_key of an alias is never used by two connections, unless a session
\* is torn down while startClient runs.
THEOREM SingleOwner == Spec => []OneConnection
<1>1. Inv => OneConnection
  BY MTAssumption DEF Inv, Locked, OneConnection, Connected
<1> QED
  BY <1>1, MTInvariant, PTL

\* A quarantined session stays away from Telegram and from the lock.
THEOREM QuarantineHolds == Spec => []QuarantineFinal
<1>1. Inv => QuarantineFinal
  BY DEF Inv
<1> QED
  BY <1>1, MTInvariant, PTL

--------------------------------------------------------------------------------
(* What Unregister leaves behind *)

\* Nothing of the session is left, and it was never started.
Gone(s)   == owner # s /\ ~Connected(s) /\ ~Starting(s)
Unused(s) == owner # s /\ sup[s] = "none" /\ session[s].client # "up"

\* A request is about to stop the session, or to finish its teardown.
Leaving(s) == \E o \in Ops : op[o].s = s /\ op[o].at = "stop"
Ending(s)  == \E o \in Ops : op[o].s = s /\ op[o].at \in {"disconnect", "release"}

\* A stopped session is gone unless its teardown goes on; one that was not
\* stopped is in the map, about to be stopped, or was never started.
Settled(s) == IF session[s].stopped THEN Gone(s) \/ Ending(s)
              ELSE current = s \/ Leaving(s) \/ Unused(s)

OneChanger == \A o, p \in Ops : Changing(o) /\ Changing(p) => o = p

\* Where a request has taken the session out of the map, or found none.
Removing == {"stop", "disconnect", "release", "delete", "store", "insert"}
Delisted == \A o \in Ops : op[o].at \in Removing /\ op[o].call # "shutdown" => current = None

Ordered == OneChanger /\ Delisted /\ \A s \in Sessions : Settled(s)
Removal == ~raced /\ ~overlapped => Ordered

\* No session is started, and what is gone stays so.
QuietSessions ==
    \A u \in Sessions :
        /\ session'[u].stopped = session[u].stopped
        /\ session[u].stopped /\ Gone(u) => Gone(u)'
        /\ Unused(u) => Unused(u)'

\* No request begins, removes or ends a teardown.
QuietOps ==
    /\ current' = current
    /\ \A o \in Ops : /\ Changing(o)' => Changing(o)
                      /\ op'[o].at \in Removing => op'[o] = op[o] \/ current = None
                      /\ op[o].at \in {"stop", "disconnect", "release"} => op'[o] = op[o]

\* Such steps keep the order of removals.
LEMMA QuietStep ==
    ASSUME Ordered, QuietSessions, QuietOps
    PROVE  Ordered'
<1>1. OneChanger'
  BY Zenon DEF Ordered, OneChanger, QuietOps
<1>2. Delisted'
  BY Zenon DEF Ordered, Delisted, QuietOps
<1>3. ASSUME NEW s \in Sessions PROVE Settled(s)'
  <2>1. (Leaving(s) => Leaving(s)') /\ (Ending(s) => Ending(s)')
    BY Zenon DEF QuietOps, Leaving, Ending
  <2>2. Settled(s)
    BY Zenon DEF Ordered
  <2>3. CASE session[s].stopped
    BY <2>1, <2>2, <2>3, Zenon DEF Settled, QuietSessions
  <2>4. CASE ~session[s].stopped
    BY <2>1, <2>2, <2>4, Zenon DEF Settled, QuietSessions, QuietOps
  <2> QED
    BY <2>3, <2>4
<1> QED
  BY <1>1, <1>2, <1>3, Zenon DEF Ordered

\* The supervisors never bring back what is gone.
LEMMA SupQuiet ==
    ASSUME Inv, NEW s \in Sessions, SupStep(s) \/ CoolDown(s)
    PROVE  QuietSessions
<1> USE MTAssumption
<1> USE DEF Inv, MTTypeOK, SessionFields, QuietSessions, Gone, Unused, Connected, Starting, Super,
   Disconnected, Released
<1>1. CASE Loop(s)
  <2>1. UNCHANGED <<session, owner>> /\ \A u \in Sessions \ {s} : sup'[u] = sup[u]
    BY <1>1, Zenon DEF Loop
  <2>2. /\ sup[s] = "top" /\ sup'[s] \in {"none", "top", "ping", "lock"}
        /\ session[s].stopped => sup'[s] = "none"
    BY <1>1, Zenon DEF Loop
  <2> QED
    BY <2>1, <2>2, Zenon
<1>2. CASE Ping(s)
  BY <1>2 DEF Ping
<1>3. CASE acquireLock(s)
  BY <1>3 DEF acquireLock, Grants
<1>4. CASE StartClient(s)
  BY <1>4 DEF StartClient
<1>5. CASE Dial(s)
  BY <1>5, Zenon DEF Dial
<1>6. CASE ConnectSucceeds(s)
  BY <1>6 DEF ConnectSucceeds
<1>7. CASE ConnectFails(s)
  BY <1>7, Zenon DEF ConnectFails
<1>8. CASE StartFailed(s)
  BY <1>8 DEF StartFailed
<1>9. CASE CoolDown(s)
  BY <1>9 DEF CoolDown
<1> QED
  BY <1>1, <1>2, <1>3, <1>4, <1>5, <1>6, <1>7, <1>8, <1>9, Zenon DEF SupStep

\* A step that leaves the sessions and the lock alone starts none.
LEMMA Untouched ==
    ASSUME UNCHANGED <<session, sup, owner>>
    PROVE  QuietSessions
  BY Zenon DEF QuietSessions, Gone, Unused, Connected, Starting

\* A new state of one session starts none.
LEMMA StateOnly ==
    ASSUME MTTypeOK, NEW u \in Sessions, NEW st, session' = [session EXCEPT ![u].state = st],
           UNCHANGED <<sup, owner>>
    PROVE  QuietSessions
  BY DEF MTTypeOK, SessionFields, QuietSessions, Gone, Unused, Connected, Starting

\* Requests that neither add nor remove a session, and those that have not
\* taken one out of the map.
LEMMA PlainOps ==
    ASSUME Inv, Ordered, NEW o \in Ops,
           \/ RegisterLookup(o) \/ UnregisterDelete(o) \/ RegisterStore(o) \/ RestorePaused(o)
           \/ PauseRecord(o) \/ ResumeState(o) \/ Pause(o) \/ Resume(o) \/ Drain(o)
    PROVE  Ordered'
<1> USE MTAssumption
<1>1. op \in [Ops -> OpFields] /\ Delisted /\ OpsSound
  BY Zenon DEF Inv, MTTypeOK, Ordered
<1>2. CASE RegisterLookup(o)
  <2>1. QuietSessions
    BY <1>2, Untouched, Zenon DEF RegisterLookup, mem
  <2>2. /\ current' = current /\ op[o].at = "lookup" /\ Changing(o)
        /\ \A p \in Ops : p # o => op'[p] = op[p]
        /\ op'[o].at \in {"store", "mark", "idle", "unmap"} /\ (op'[o].at = "store" => current = None)
    BY <1>1, <1>2, AtMoves, DoneMoves, Zenon DEF RegisterLookup, Registered, mem, OpsSound, Changing
  <2>3. QuietOps
    BY <2>2, Zenon DEF QuietOps, Removing, Changing
  <2> QED
    BY <2>1, <2>3, QuietStep
<1>3. CASE UnregisterDelete(o)
  <2>1. QuietSessions
    BY <1>3, Untouched, Zenon DEF UnregisterDelete, mem
  <2>2. /\ current' = current /\ op[o].at = "delete" /\ Changing(o) /\ op[o].call # "shutdown"
        /\ \A p \in Ops : p # o => op'[p] = op[p]
        /\ op'[o].at \in {"store", "idle"}
    BY <1>1, <1>3, UnregisteredMoves DEF UnregisterDelete, mem, OpsSound, Changing
  <2>3. current = None
    BY <1>1, <2>2, Zenon DEF Delisted, Removing
  <2>4. QuietOps
    BY <2>2, <2>3, Zenon DEF QuietOps, Changing
  <2> QED
    BY <2>1, <2>4, QuietStep
<1>4. CASE RegisterStore(o)
  <2>1. QuietSessions
    BY <1>4, Untouched, Zenon DEF RegisterStore, mem
  <2>2. /\ current' = current /\ op[o].at = "store" /\ Changing(o) /\ op[o].call # "shutdown"
        /\ \A p \in Ops : p # o => op'[p] = op[p]
    BY <1>1, <1>4, AtMoves, DoneMoves DEF RegisterStore, mem, OpsSound, Changing
  <2>3. current = None
    BY <1>1, <2>2, Zenon DEF Delisted, Removing
  <2>4. QuietOps
    BY <2>2, <2>3, Zenon DEF QuietOps, Changing
  <2> QED
    BY <2>1, <2>4, QuietStep
<1>5. CASE RestorePaused(o) \/ PauseRecord(o) \/ ResumeState(o)
  <2>1. QuietSessions
    <3>1. CASE RestorePaused(o)
      BY <3>1, Untouched, StateOnly, Zenon DEF RestorePaused, Inv, MTTypeOK
    <3>2. CASE PauseRecord(o)
      BY <3>2, Untouched DEF PauseRecord, mem
    <3>3. CASE ResumeState(o)
      BY <1>1, <3>3, StateOnly, Zenon DEF ResumeState, Inv, MTTypeOK, OpFields
    <3> QED
      BY <1>5, <3>1, <3>2, <3>3, Zenon
  <2>2. current' = current /\ op[o].at \in {"mark", "record", "live"} /\ Done(o)
    BY <1>5, Zenon DEF RestorePaused, PauseRecord, ResumeState, mem
  <2>3. op'[o].at = "idle" /\ op'[o].call = "none" /\ \A p \in Ops : p # o => op'[p] = op[p]
    BY <1>1, <2>2, DoneMoves
  <2>4. QuietOps
    BY <2>2, <2>3, Zenon DEF QuietOps, Removing, Changing
  <2> QED
    BY <2>1, <2>4, QuietStep
<1>6. CASE Pause(o) \/ Resume(o) \/ Drain(o)
  <2>1. QuietSessions
    <3>1. CASE Pause(o)
      BY <3>1, StateOnly, Zenon DEF Pause, Inv, MTTypeOK
    <3>2. CASE Resume(o)
      BY <3>2, Untouched DEF Resume, mem
    <3>3. CASE Drain(o)
      BY <3>3, StateOnly, Zenon DEF Drain, Inv, MTTypeOK
    <3> QED
      BY <1>6, <3>1, <3>2, <3>3
  <2>2. /\ current' = current /\ op[o].at = "idle" /\ \A p \in Ops : p # o => op'[p] = op[p]
        /\ op'[o].at \in {"idle", "record", "live"} /\ op'[o].call \in {"none", "pause", "resume"}
    <3>0. op[o] = Idle /\ current' = current
      BY <1>6, Zenon DEF Pause, Resume, Drain, mem
    <3>1. op[o].at = "idle" /\ op[o].call = "none" /\ current' = current
      BY <3>0 DEF Idle
    <3>2. CASE Pause(o)
      BY <1>1, <3>1, <3>2, Zenon DEF Pause, OpFields
    <3>3. CASE Resume(o)
      BY <1>1, <3>1, <3>3 DEF Resume, OpFields
    <3>4. CASE Drain(o)
      BY <3>1, <3>4, Zenon DEF Drain
    <3> QED
      BY <1>6, <3>2, <3>3, <3>4, Zenon
  <2>3. QuietOps
    BY <2>2, Zenon DEF QuietOps, Removing, Changing
  <2> QED
    BY <2>1, <2>3, QuietStep
<1> QED
  BY <1>2, <1>3, <1>4, <1>5, <1>6

\* A request that changes sessions arrives: it is the only one.
LEMMA BeginStep ==
    ASSUME Inv, Ordered, NEW o \in Ops, NEW call, NEW at \in {"lookup", "unmap", "stop"},
           NEW s, NEW t, NEW paused, Begin(o, call, at, s, t, paused),
           at = "stop" => call = "shutdown", ~overlapped'
    PROVE  Ordered'
<1>1. /\ op \in [Ops -> OpFields] /\ op[o].at = "idle" /\ UNCHANGED <<session, sup, owner, current>>
      /\ \A p \in Ops : ~Changing(p)
      /\ op' = [op EXCEPT ![o] = [call |-> call, at |-> at, s |-> s, token |-> t, paused |-> paused]]
  <2>1. op \in [Ops -> OpFields] /\ op[o].at = "idle" /\ UNCHANGED <<session, sup, owner, current>>
    <3>1. op \in [Ops -> OpFields]
      BY Zenon DEF Inv, MTTypeOK
    <3>2. op[o].at = "idle"
      <4>1. op[o] = Idle
        BY Zenon DEF Begin
      <4> QED
        BY <4>1 DEF Idle
    <3> QED
      BY <3>1, <3>2, Zenon DEF Begin, mem
  <2>2. \A p \in Ops : ~Changing(p)
    BY Zenon DEF Begin
  <2> QED
    BY <2>1, <2>2, Zenon DEF Begin
<1>2. /\ \A p \in Ops : p # o => op'[p] = op[p]
      /\ op'[o].at = at /\ op'[o].call = call /\ op'[o].s = s
  BY <1>1
<1>3. OneChanger'
  BY <1>1, <1>2, Zenon DEF OneChanger, Changing
<1>4. Delisted'
  BY <1>1, <1>2, Zenon DEF Ordered, Delisted, Removing
<1>5. ASSUME NEW u \in Sessions PROVE Settled(u)'
  <2>1. (Leaving(u) => Leaving(u)') /\ (Ending(u) => Ending(u)')
    BY <1>1, <1>2, Zenon DEF Leaving, Ending
  <2>2. Settled(u)
    BY Zenon DEF Ordered
  <2> QED
    BY <1>1, <2>1, <2>2, Zenon DEF Settled, Gone, Unused, Connected, Starting
<1> QED
  BY <1>3, <1>4, <1>5, Zenon DEF Ordered

\* Unregister takes the session out of the map, to stop it.
LEMMA UnmapStep ==
    ASSUME Inv, Ordered, NEW o \in Ops, UnregisterUnmap(o)
    PROVE  Ordered'
<1> USE MTAssumption
<1>1. /\ op \in [Ops -> OpFields] /\ op[o].at = "unmap" /\ UNCHANGED <<session, sup, owner>>
      /\ current' = None /\ Changing(o)
  BY DEF UnregisterUnmap, Inv, MTTypeOK, OpsSound, Changing
<1>2. CASE current = None
  <2>1. /\ \A p \in Ops : p # o => op'[p] = op[p]
    BY <1>1, <1>2, UnregisteredMoves DEF UnregisterUnmap
  <2>2. QuietOps
    BY <1>1, <1>2, <2>1, Zenon DEF QuietOps, Changing
  <2>3. QuietSessions
    BY <1>1, Untouched
  <2> QED
    BY <2>2, <2>3, QuietStep, Zenon
<1>3. CASE current # None
  <2>1. /\ \A p \in Ops : p # o => op'[p] = op[p]
        /\ op'[o].at = "stop" /\ op'[o].s = current /\ op'[o].call = op[o].call
    BY <1>1, <1>3 DEF UnregisterUnmap, OpFields
  <2>2. OneChanger'
    BY <1>1, <2>1, Zenon DEF Ordered, OneChanger, Changing
  <2>3. Delisted'
    BY <1>1, Zenon DEF Delisted
  <2>4. ASSUME NEW u \in Sessions PROVE Settled(u)'
    <3>1. (Leaving(u) => Leaving(u)') /\ (Ending(u) => Ending(u)') /\ (current = u => Leaving(u)')
      BY <1>1, <2>1, Zenon DEF Leaving, Ending
    <3>2. Settled(u)
      BY Zenon DEF Ordered
    <3> QED
      BY <1>1, <3>1, <3>2, Zenon DEF Settled, Gone, Unused, Connected, Starting
  <2> QED
    BY <2>2, <2>3, <2>4, Zenon DEF Ordered
<1> QED
  BY <1>2, <1>3, Zenon

\* A session is stopped; one that was stopped before is gone already.
LEMMA StopStep ==
    ASSUME Inv, Ordered, NEW o \in Ops, StopSupervisor(o)
    PROVE  Ordered'
<1> USE MTAssumption
<1>0. PICK s \in Sessions : s = op[o].s
  BY Zenon DEF StopSupervisor, Inv, MTTypeOK, OpFields
<1>1. /\ op \in [Ops -> OpFields] /\ op[o].at = "stop" /\ UNCHANGED <<sup, owner, current>>
      /\ op[o].s = s /\ Changing(o)
  BY <1>0, Zenon DEF StopSupervisor, Inv, MTTypeOK, OpFields, OpsSound, Changing
<1>2. /\ session'[s].stopped /\ session'[s].client = session[s].client
      /\ \A u \in Sessions \ {s} : session'[u] = session[u]
  BY <1>1 DEF StopSupervisor, Inv, MTTypeOK, SessionFields
<1>3. /\ \A p \in Ops : p # o => op'[p] = op[p]
      /\ \/ op'[o].at = "idle" /\ op'[o].call = "none" /\ session[s].stopped /\ op[o].call # "shutdown"
         \/ op'[o].at = "disconnect" /\ op'[o].call = op[o].call /\ op'[o].s = s
  BY <1>1, AtMoves, DoneMoves DEF StopSupervisor
<1>4. OneChanger'
  BY <1>1, <1>3, Zenon DEF Ordered, OneChanger, Changing
<1>5. Delisted'
  BY <1>1, <1>3, Zenon DEF Ordered, Delisted, Removing
<1>6. ~Ending(s)
  BY <1>1, Zenon DEF Ordered, OneChanger, Ending, Changing, Inv, OpsSound
<1>7. Gone(s) => Gone(s)'
  BY <1>1, <1>2, Zenon DEF Gone, Connected, Starting
<1>8. Settled(s)'
  <2>1. CASE op'[o].at = "idle"
    BY <1>1, <1>2, <1>3, <1>6, <1>7, <2>1, Zenon DEF Ordered, Settled
  <2>2. CASE op'[o].at = "disconnect" /\ op'[o].s = s
    BY <1>2, <2>2, Zenon DEF Settled, Ending
  <2> QED
    BY <1>3, <2>1, <2>2
<1>9. ASSUME NEW u \in Sessions, u # s PROVE Settled(u)'
  <2>1. (Leaving(u) => Leaving(u)') /\ (Ending(u) => Ending(u)')
    BY <1>1, <1>3, <1>9, Zenon DEF Leaving, Ending
  <2>2. Settled(u) /\ session'[u] = session[u]
    BY <1>2, <1>9, Zenon DEF Ordered
  <2> QED
    BY <1>1, <2>1, <2>2, Zenon DEF Settled, Gone, Unused, Connected, Starting
<1> QED
  BY <1>4, <1>5, <1>8, <1>9, Zenon DEF Ordered

\* Its client is disconnected: the teardown goes on.
LEMMA DisconnectStep ==
    ASSUME Inv, Ordered, NEW o \in Ops, Disconnect(o)
    PROVE  Ordered'
<1> USE MTAssumption
<1>0. PICK s \in Sessions : s = op[o].s
  BY Zenon DEF Disconnect, Inv, MTTypeOK, OpFields
<1>1. /\ op \in [Ops -> OpFields] /\ op[o].at = "disconnect" /\ UNCHANGED <<sup, owner, current>>
      /\ op[o].s = s /\ Changing(o) /\ session[s].stopped
  BY <1>0, Zenon DEF Disconnect, Inv, MTTypeOK, OpFields, OpsSound, Changing, TornDown
<1>2. session'[s].stopped /\ \A u \in Sessions \ {s} : session'[u] = session[u]
  BY <1>1 DEF Disconnect, Inv, MTTypeOK, SessionFields
<1>3. /\ \A p \in Ops : p # o => op'[p] = op[p]
      /\ op'[o].at = "release" /\ op'[o].call = op[o].call /\ op'[o].s = s
  BY <1>1, AtMoves DEF Disconnect
<1>4. OneChanger' /\ Delisted'
  BY <1>1, <1>3, Zenon DEF Ordered, OneChanger, Changing, Delisted, Removing
<1>5. Settled(s)'
  BY <1>2, <1>3, Zenon DEF Settled, Ending
<1>6. ASSUME NEW u \in Sessions, u # s PROVE Settled(u)'
  <2>1. (Leaving(u) => Leaving(u)') /\ (Ending(u) => Ending(u)')
    BY <1>1, <1>3, <1>6, Zenon DEF Leaving, Ending
  <2>2. Settled(u) /\ session'[u] = session[u]
    BY <1>2, <1>6, Zenon DEF Ordered
  <2> QED
    BY <1>1, <2>1, <2>2, Zenon DEF Settled, Gone, Unused, Connected, Starting
<1> QED
  BY <1>4, <1>5, <1>6, Zenon DEF Ordered

\* Its lock is released: it is gone.
LEMMA ReleaseStep ==
    ASSUME Inv, Ordered, ~raced, NEW o \in Ops, releaseLock(o)
    PROVE  Ordered'
<1> USE MTAssumption
<1>0. PICK s \in Sessions : s = op[o].s
  BY Zenon DEF releaseLock, Inv, MTTypeOK, OpFields
<1>1. /\ op \in [Ops -> OpFields] /\ op[o].at = "release" /\ UNCHANGED <<session, sup, current>>
      /\ op[o].s = s /\ Changing(o)
      /\ owner' = (IF owner = s THEN None ELSE owner)
  BY <1>0 DEF releaseLock, Released, mem, Inv, MTTypeOK, OpFields, OpsSound, Changing
<1>2. session[s].stopped /\ ~Starting(s) /\ session[s].client # "up"
  BY <1>1, Zenon DEF Inv, TornDown
<1>3. /\ \A p \in Ops : p # o => op'[p] = op[p]
      /\ \/ op'[o].at = "idle" /\ op'[o].call = "none"
         \/ op'[o].at = "delete" /\ op'[o].call = op[o].call /\ op'[o].call # "shutdown"
  BY <1>1, AtMoves, DoneMoves DEF releaseLock
<1>4. OneChanger'
  BY <1>1, <1>3, Zenon DEF Ordered, OneChanger, Changing
<1>5. Delisted'
  BY <1>1, <1>3, Zenon DEF Ordered, Delisted, Removing
<1>6. Gone(s)'
  BY <1>1, <1>2 DEF Gone, Connected, Starting
<1>7. ASSUME NEW u \in Sessions, u # s PROVE Settled(u)'
  <2>1. (Leaving(u) => Leaving(u)') /\ (Ending(u) => Ending(u)')
    BY <1>1, <1>3, <1>7, Zenon DEF Leaving, Ending
  <2>2. Settled(u) /\ (owner # u => owner' # u)
    BY <1>1, <1>7 DEF Ordered
  <2> QED
    BY <1>1, <2>1, <2>2, Zenon DEF Settled, Gone, Unused, Connected, Starting
<1> QED
  BY <1>1, <1>2, <1>4, <1>5, <1>6, <1>7, Zenon DEF Ordered, Settled

\* A new session enters the empty map.
LEMMA InsertStep ==
    ASSUME Inv, Ordered, NEW o \in Ops, RegisterInsert(o)
    PROVE  Ordered'
<1> USE MTAssumption
<1>1. PICK s \in Sessions :
      /\ Free(s) /\ current' = s /\ op[o].at = "insert" /\ UNCHANGED owner
      /\ sup' = [sup EXCEPT ![s] = "top"]
      /\ session' = [session EXCEPT ![s] = NewSession(op[o].token)]
  BY Zenon DEF RegisterInsert, Super
<1>2. /\ op \in [Ops -> OpFields] /\ Changing(o) /\ op[o].call # "shutdown"
      /\ session \in [Sessions -> SessionFields]
  BY <1>1, Zenon DEF Inv, MTTypeOK, OpsSound, Changing
<1>3. current = None
  BY <1>1, <1>2, Zenon DEF Ordered, Delisted, Removing
<1>4. /\ ~session'[s].stopped
      /\ \A u \in Sessions \ {s} : session'[u] = session[u] /\ sup'[u] = sup[u]
  BY <1>1, <1>2, Zenon DEF NewSession, Inv, MTTypeOK
<1>5. op'[o].at \in {"mark", "idle"} /\ \A p \in Ops : p # o => op'[p] = op[p]
  BY <1>2, AtMoves, DoneMoves DEF RegisterInsert, Registered
<1>6. OneChanger'
  BY <1>2, <1>5, Zenon DEF Ordered, OneChanger, Changing
<1>7. \A p \in Ops : op'[p].at \in Removing => op[p].at \in Removing /\ op'[p] = op[p] /\ p # o
  BY <1>5, Zenon DEF Removing
<1>8. Delisted'
  <2>1. ASSUME NEW p \in Ops, op'[p].at \in Removing, op'[p].call # "shutdown" PROVE FALSE
    <3>1. p # o /\ op[p].at \in Removing /\ op[p].call # "shutdown"
      BY <1>7, <2>1, Zenon
    <3>2. Changing(p)
      BY <3>1, Zenon DEF Inv, OpsSound, Removing, Changing
    <3> QED
      BY <1>2, <3>1, <3>2, Zenon DEF Ordered, OneChanger
  <2> QED
    BY <2>1, Zenon DEF Delisted
<1>9. Settled(s)'
  BY <1>1, <1>4, Zenon DEF Settled
<1>10. ASSUME NEW u \in Sessions, u # s PROVE Settled(u)'
  <2>1. (Leaving(u) => Leaving(u)') /\ (Ending(u) => Ending(u)')
    BY <1>1, <1>5, Zenon DEF Leaving, Ending
  <2>2. Settled(u) /\ session'[u] = session[u] /\ sup'[u] = sup[u] /\ current # u
    BY <1>3, <1>4, <1>10 DEF Ordered
  <2> QED
    BY <1>1, <2>1, <2>2, Zenon DEF Settled, Gone, Unused, Connected, Starting
<1> QED
  BY <1>6, <1>8, <1>9, <1>10, Zenon DEF Ordered

\* Where no session and no request is left, the order holds.
LEMMA Emptied ==
    ASSUME \A s \in Sessions : ~session[s].stopped /\ sup[s] = "none" /\ session[s].client # "up",
           \A o \in Ops : op[o].at = "idle" /\ op[o].call = "none",
           owner \notin Sessions
    PROVE  Ordered
  BY Zenon DEF Ordered, OneChanger, Changing, Delisted, Removing, Settled, Unused

\* Every step keeps the order of removals.
LEMMA RemovalStep == Inv /\ Removal /\ [Next]_mvars => Removal'
<1> SUFFICES ASSUME Inv, Removal, [Next]_mvars, ~raced', ~overlapped' PROVE Ordered'
  BY Zenon DEF Removal
<1> USE MTAssumption
<1>1. CASE UNCHANGED mvars
  BY <1>1, Untouched, QuietStep DEF mvars, mem, past, Removal, QuietOps, Changing
<1>2. ASSUME NEW o \in Ops, OpCall(o) PROVE Ordered'
  <2>1. Ordered
    BY <1>2, Zenon DEF OpCall, RegisterCall, UnregisterCall, RestoreCall, ShutdownCall, Begin, Pause, Resume,
       Drain, past, Removal
  <2> QED
    BY <1>2, <2>1, BeginStep, PlainOps, Zenon DEF OpCall, RegisterCall, UnregisterCall, RestoreCall, ShutdownCall
<1>3. ASSUME NEW o \in Ops, OpStep(o) PROVE Ordered'
  <2>1. ~raced /\ ~overlapped
    <3>1. CASE Disconnect(o)
      BY <3>1, Zenon DEF Disconnect
    <3>2. CASE ~Disconnect(o)
      <4>1. UNCHANGED past
        BY <1>3, <3>2, Zenon DEF OpStep, RegisterLookup, UnregisterUnmap, StopSupervisor, releaseLock,
           UnregisterDelete, RegisterStore, RegisterInsert, RestorePaused, PauseRecord, ResumeState
      <4> QED
        BY <4>1, Zenon DEF past
    <3> QED
      BY <3>1, <3>2
  <2>2. Ordered
    BY <2>1, Zenon DEF Removal
  <2> QED
    BY <1>3, <2>1, <2>2, PlainOps, UnmapStep, StopStep, DisconnectStep, ReleaseStep, InsertStep, Zenon DEF OpStep
<1>4. ASSUME NEW s \in Sessions, SupStep(s) \/ CoolDown(s) PROVE Ordered'
  <2>1. UNCHANGED <<current, op, raced, overlapped>>
    BY <1>4, Zenon DEF SupStep, Loop, Ping, acquireLock, StartClient, Dial, ConnectSucceeds, ConnectFails,
       StartFailed, CoolDown, past
  <2>2. Ordered /\ QuietOps
    BY <2>1, Zenon DEF Removal, QuietOps, Changing
  <2> QED
    BY <1>4, <2>2, SupQuiet, QuietStep, Zenon
<1>5. CASE OtherProcess
  <2>1. QuietSessions
    BY <1>5, Zenon DEF OtherProcess, mem, QuietSessions, Gone, Unused, Connected, Starting
  <2>2. Ordered /\ QuietOps
    BY <1>5 DEF OtherProcess, mem, past, Removal, QuietOps, Changing
  <2> QED
    BY <2>1, <2>2, QuietStep, Zenon
<1>6. CASE Restart
  <2>1. /\ \A s \in Sessions : session'[s] = NewSession(None) /\ sup'[s] = "none"
        /\ \A o \in Ops : op'[o] = Idle
        /\ owner' \notin Sessions
    BY <1>6 DEF Restart
  <2>2. /\ \A s \in Sessions : ~session'[s].stopped /\ sup'[s] = "none" /\ session'[s].client # "up"
        /\ \A o \in Ops : op'[o].at = "idle" /\ op'[o].call = "none"
    <3>1. \A s \in Sessions : ~session'[s].stopped /\ sup'[s] = "none" /\ session'[s].client # "up"
      BY <2>1 DEF NewSession
    <3>2. \A o \in Ops : op'[o].at = "idle" /\ op'[o].call = "none"
      BY <2>1 DEF Idle
    <3> QED
      BY <3>1, <3>2, Zenon
  <2> QED
    BY <2>1, <2>2, Zenon DEF Ordered, OneChanger, Changing, Delisted, Removing, Settled, Unused
<1> QED
  BY <1>1, <1>2, <1>3, <1>4, <1>5, <1>6 DEF Next

\* "Unregister stops a session and removes it, lock released" (Manager.Unregister
\* of mtproto/sessions.go), for any number of sessions, requests and restarts.
THEOREM UnregisterLeavesNothing == Spec => []UnregisterReleases
<1>1. Init => Removal
  <2> SUFFICES ASSUME Init PROVE Ordered
    BY Zenon DEF Removal
  <2>1. /\ \A s \in Sessions : session[s] = NewSession(None) /\ sup[s] = "none"
        /\ \A o \in Ops : op[o] = Idle
        /\ owner \notin Sessions
    BY MTAssumption, Zenon DEF Init
  <2>2. \A s \in Sessions : ~session[s].stopped /\ sup[s] = "none" /\ session[s].client # "up"
    BY <2>1 DEF NewSession
  <2>3. \A o \in Ops : op[o].at = "idle" /\ op[o].call = "none"
    BY <2>1 DEF Idle
  <2> QED
    BY <2>1, <2>2, <2>3, Emptied
<1>2. Inv /\ Removal /\ [Next]_mvars => Removal'
  BY RemovalStep, Zenon
<1>3. Removal => UnregisterReleases
  <2> SUFFICES ASSUME Ordered, NEW s \in Sessions, current # s, \A o \in Ops : op[o].s # s
               PROVE  owner # s /\ ~Connected(s) /\ ~Starting(s)
    BY Zenon DEF Removal, UnregisterReleases
  <2>1. Gone(s) \/ Unused(s)
    BY Zenon DEF Ordered, Settled, Leaving, Ending
  <2> QED
    BY <2>1, Zenon DEF Gone, Unused, Connected, Starting
<1> QED
  BY <1>1, <1>2, <1>3, MTInvariant, PTL DEF Spec

-----------------------------------------------------------------------------
(* The inductive invariant *)

Goroutine ==
    [pc : {"free", "top", "beat", "select", "expired", "ended"}, alias : Aliases \cup {Nil},
     chat : Chats \cup {Nil}, notify : BOOLEAN, due : BOOLEAN, cancelled : BOOLEAN]

Batch == [left : Int, eff : Settings \cup {Nil}, chat : Chats \cup {Nil}]

\* The types of the variables that the properties depend on.
Types ==
    /\ global \in Settings /\ override \in [Aliases -> TypingPatch]
    /\ batch \in [Aliases -> Batch]
    /\ active \in [Aliases -> [Chats -> Loops \cup {Nil}]]
    /\ loop \in [Loops -> Goroutine]
    /\ late \in [Loops -> Nat]

\* A running loop, cancelled or not, is in the map or its chat was swept.
Owned ==
    \A l \in Loops : Running(l) =>
        /\ loop[l].alias \in Aliases /\ loop[l].chat \in Chats
        /\ \/ active[loop[l].alias][loop[l].chat] = l
           \/ <<loop[l].alias, loop[l].chat>> \in swept

\* A loop that has made a late request is on its way out.
LateLeaves ==
    \A l \in Loops :
        /\ late[l] <= 1
        /\ late[l] > 0 => loop[l].cancelled /\ loop[l].pc \in {"select", "ended"}

\* Only an armed timeout falls due.
Armed == \A l \in Loops : loop[l].due => loop[l].notify

TypingInv == Types /\ Owned /\ LateLeaves /\ Armed

-----------------------------------------------------------------------------
(* Types *)

\* Writing a patch over settings gives settings.
LEMMA PatchedSettings ==
    ASSUME NEW layer \in Settings, NEW patch \in TypingPatch
    PROVE  Patched(layer, patch) \in Settings
<1>1. DOMAIN layer = {"enabled", "private_only"}
  BY Zenon DEF Settings
<1>2. layer.enabled \in BOOLEAN /\ layer.private_only \in BOOLEAN
  BY DEF Settings
<1>3. patch.enabled \in BOOLEAN \cup {Nil} /\ patch.private_only \in BOOLEAN \cup {Nil}
  BY Zenon DEF TypingPatch
<1> DEFINE F == [f \in {"enabled", "private_only"} |->
                    IF patch[f] = Nil THEN layer[f] ELSE patch[f]]
<1>4. Patched(layer, patch) = F
  BY <1>1, Zenon DEF Patched
<1>5. F = [enabled |-> F.enabled, private_only |-> F.private_only]
  OBVIOUS
<1>6. F.enabled \in BOOLEAN /\ F.private_only \in BOOLEAN
  BY <1>2, <1>3, Zenon
<1> QED
  BY <1>4, <1>5, <1>6 DEF Settings

\* The record of a loop that starts.
Started(a, c) == [NoLoop EXCEPT !.pc = "top", !.alias = a, !.chat = c, !.notify = TRUE]

\* What matters of it.
Fresh(a, c, r) ==
    /\ r \in Goroutine /\ r.pc = "top" /\ r.alias = a /\ r.chat = c
    /\ ~r.due /\ ~r.cancelled

\* The records that the actions make.
LEMMA Records ==
    /\ NoBatch \in Batch /\ NoLoop \in Goroutine
    /\ \A x \in Int, e \in Settings : [NoBatch EXCEPT !.left = x, !.eff = e] \in Batch
    /\ \A b \in Batch :
          /\ [b EXCEPT !.left = @ - 1, !.chat = Nil] \in Batch
          /\ \A c \in Chats : [b EXCEPT !.chat = c] \in Batch
    /\ \A a \in Aliases, c \in Chats : Fresh(a, c, Started(a, c))
<1>1. NoBatch \in Batch /\ NoLoop \in Goroutine
  BY DEF NoBatch, Batch, NoLoop, Goroutine
<1>2. ASSUME NEW b \in Batch, NEW e \in Settings PROVE [b EXCEPT !.eff = e] \in Batch
  BY DEF Batch
<1>3. ASSUME NEW x \in Int, NEW e \in Settings
      PROVE  [NoBatch EXCEPT !.left = x, !.eff = e] = [[NoBatch EXCEPT !.left = x] EXCEPT !.eff = e]
  BY Zenon
<1>4. ASSUME NEW b \in Batch PROVE b.left - 1 \in Int
  BY DEF Batch
<1>5. ASSUME NEW b \in Batch, NEW x \in Int PROVE [b EXCEPT !.left = x] \in Batch
  BY DEF Batch
<1>6. ASSUME NEW b \in Batch, NEW c \in Chats \cup {Nil} PROVE [b EXCEPT !.chat = c] \in Batch
  BY DEF Batch
<1>7. ASSUME NEW b \in Batch
      PROVE  [b EXCEPT !.left = @ - 1, !.chat = Nil] =
             [[b EXCEPT !.left = @ - 1] EXCEPT !.chat = Nil]
  OBVIOUS
<1>8. \A b \in Batch : /\ [b EXCEPT !.left = @ - 1, !.chat = Nil] \in Batch
                       /\ \A c \in Chats : [b EXCEPT !.chat = c] \in Batch
  BY <1>4, <1>5, <1>6, <1>7, Zenon
<1>9. \A x \in Int, e \in Settings : [NoBatch EXCEPT !.left = x, !.eff = e] \in Batch
  BY <1>1, <1>2, <1>3, <1>5, Zenon
<1>10. ASSUME NEW a \in Aliases, NEW c \in Chats PROVE Fresh(a, c, Started(a, c))
  <2>1. NoLoop \in Goroutine /\ NoLoop.due = FALSE /\ NoLoop.cancelled = FALSE
    BY <1>1 DEF NoLoop
  <2> QED
    BY <2>1, Zenon DEF Started, Fresh, Goroutine
<1> QED
  BY <1>1, <1>8, <1>9, <1>10, Zenon

\* What start does to the record of a loop keeps its type and everything but
\* the deadline of an armed timeout.
LEMMA ExtendedKeeps ==
    ASSUME NEW rec \in Goroutine
    PROVE  /\ Extended(rec) \in Goroutine
           /\ Extended(rec).pc = rec.pc /\ Extended(rec).cancelled = rec.cancelled
           /\ Extended(rec).alias = rec.alias /\ Extended(rec).chat = rec.chat
           /\ Extended(rec).notify = rec.notify
           /\ Extended(rec).due => rec.due
  BY Zenon DEF Extended, Goroutine

\* Cancelling keeps the types of the records ...
LEMMA CancelledTyped ==
    ASSUME loop \in [Loops -> Goroutine], NEW entries
    PROVE  Cancelled(entries) \in [Loops -> Goroutine]
<1>1. ASSUME NEW l \in Loops
      PROVE  loop[l] \in Goroutine /\ [loop[l] EXCEPT !.cancelled = TRUE] \in Goroutine
  BY Zenon DEF Goroutine
<1> QED
  BY <1>1, Zenon DEF Cancelled

\* ... and touches the contexts of loops only.
LEMMA CancelledKeeps ==
    ASSUME loop \in [Loops -> Goroutine], NEW entries, NEW l \in Loops
    PROVE  /\ Cancelled(entries)[l].pc = loop[l].pc
           /\ Cancelled(entries)[l].alias = loop[l].alias
           /\ Cancelled(entries)[l].chat = loop[l].chat
           /\ Cancelled(entries)[l].notify = loop[l].notify
           /\ Cancelled(entries)[l].due = loop[l].due
           /\ loop[l].cancelled => Cancelled(entries)[l].cancelled
  BY DEF Cancelled, Goroutine

-----------------------------------------------------------------------------
(* Every step keeps the invariant *)

\* What start may do to the loops and to the map.
LEMMA StartEffect ==
    ASSUME TypingAssumption, Types, NEW a \in Aliases, start(a)
    PROVE  LET c == batch[a].chat IN
           /\ c \in Chats
           /\ \/ UNCHANGED <<loop, active>>
              \/ /\ active[a][c] \in Loops /\ UNCHANGED active
                 /\ loop' = [loop EXCEPT ![active[a][c]] = Extended(@)]
              \/ /\ active[a][c] = Nil
                 /\ \E new \in Loops :
                       /\ ~Running(new)
                       /\ loop' = [loop EXCEPT ![new] = Started(a, c)]
                       /\ active' = [active EXCEPT ![a][c] = new]
<1> DEFINE c == batch[a].chat
           rec == active[a][c]
           new == CHOOSE l \in Loops : ~Running(l)
<1>1. c \in Chats
  BY Zenon DEF Types, Batch, start
<1>2. rec \in Loops \cup {Nil}
  BY <1>1 DEF Types
<1>3. \/ UNCHANGED <<loop, active>>
      \/ rec # Nil /\ loop' = [loop EXCEPT ![rec] = Extended(@)] /\ UNCHANGED active
      \/ /\ rec = Nil /\ \E l \in Loops : ~Running(l)
         /\ loop' = [loop EXCEPT ![new] = Started(a, c)]
         /\ active' = [active EXCEPT ![a][c] = new]
  BY Zenon DEF start, Started
<1>4. (\E l \in Loops : ~Running(l)) => new \in Loops /\ ~Running(new)
  BY Zenon
<1> HIDE DEF new, c, rec
<1>6. \/ UNCHANGED <<loop, active>>
      \/ rec \in Loops /\ loop' = [loop EXCEPT ![rec] = Extended(@)] /\ UNCHANGED active
      \/ rec = Nil /\ \E n \in Loops :
            /\ ~Running(n)
            /\ loop' = [loop EXCEPT ![n] = Started(a, c)]
            /\ active' = [active EXCEPT ![a][c] = n]
  BY <1>2, <1>3, <1>4, Zenon
<1> QED
  BY <1>1, <1>6, Zenon DEF c, rec

\* The settings keep their types.
LEMMA SettingsStep ==
    ASSUME TypingAssumption, Types, [TypingNext]_vars
    PROVE  (global \in Settings /\ override \in [Aliases -> TypingPatch])'
<1>1. ASSUME NEW p \in GlobalPatches, Apply(p) PROVE global' \in Settings /\ UNCHANGED override
  <2>1. p \in TypingPatch
    BY Zenon DEF TypingAssumption, TypingPatch
  <2> QED
    BY <1>1, <2>1, PatchedSettings, Zenon DEF Apply, Types
<1>2. ASSUME NEW a \in Aliases, NEW p \in BotPatches, SetBotTyping(a, p)
      PROVE  UNCHANGED global /\ override' \in [Aliases -> TypingPatch]
  BY <1>2, Zenon DEF SetBotTyping, Types, TypingAssumption, TypingPatch
<1>3. UNCHANGED <<global, override>> \/ (\E p \in GlobalPatches : Apply(p))
         \/ (\E a \in Aliases, p \in BotPatches : SetBotTyping(a, p))
  BY Zenon DEF TypingNext, ChatSendState, OnUpdates, UpdateSkipped, UserAction, start, DeadlinePasses,
     Run, Check, beat, onTimeout, Select, cleanup, Stop, StopAll, TakeCallback,
     StopByCallbackID, CancelTimeout, Close, vars, env
<1> QED
  BY <1>1, <1>2, <1>3, Zenon DEF Types

\* What the pollers hand over keeps its type.
LEMMA BatchStep ==
    ASSUME TypingAssumption, Types, [TypingNext]_vars
    PROVE  (batch \in [Aliases -> Batch])'
<1> DEFINE P == (batch \in [Aliases -> Batch])'
<1> SUFFICES P
  OBVIOUS
<1>0. batch \in [Aliases -> Batch] /\ NoBatch \in Batch
  BY Records, Zenon DEF Types
<1>1. ASSUME NEW a \in Aliases, NEW n \in 1 .. MaxBatch, OnUpdates(a, n) PROVE P
  <2>1. effective(a) \in Settings /\ n \in Int
    BY PatchedSettings DEF effective, Types, TypingAssumption
  <2>2. [NoBatch EXCEPT !.left = n, !.eff = effective(a)] \in Batch
    BY <2>1, Records, Zenon
  <2> QED
    BY <1>0, <1>1, <2>2, Zenon DEF OnUpdates
<1>3. ASSUME NEW a \in Aliases, UpdateSkipped(a) \/ start(a)
             \/ \E c \in Chats, cb \in Callbacks \cup {Nil} : UserAction(a, c, cb)
      PROVE  P
  <2>1. batch[a] \in Batch
    BY <1>0
  <2>2. NextUpdate(batch[a]) \in Batch /\ \A c \in Chats : [batch[a] EXCEPT !.chat = c] \in Batch
    BY <2>1, Records, Zenon DEF NextUpdate
  <2>3. ASSUME UpdateSkipped(a) \/ start(a) PROVE \E b \in Batch : batch' = [batch EXCEPT ![a] = b]
    BY <2>2, <2>3, Zenon DEF UpdateSkipped, start
  <2>4. ASSUME NEW c \in Chats, NEW cb, UserAction(a, c, cb)
        PROVE  \E b \in Batch : batch' = [batch EXCEPT ![a] = b]
    BY <2>2, <2>4, Zenon DEF UserAction
  <2>5. \E b \in Batch : batch' = [batch EXCEPT ![a] = b]
    BY <1>3, <2>3, <2>4, Zenon
  <2> QED
    BY <1>0, <2>5, Zenon
<1>5. UNCHANGED batch \/ (\E a \in Aliases, n \in 1 .. MaxBatch : OnUpdates(a, n))
         \/ (\E a \in Aliases : UpdateSkipped(a))
         \/ (\E a \in Aliases, c \in Chats, cb \in Callbacks \cup {Nil} : UserAction(a, c, cb))
         \/ (\E a \in Aliases : start(a))
  BY Zenon DEF TypingNext, Apply, SetBotTyping, ChatSendState, DeadlinePasses,
     Run, Check, beat, onTimeout, Select, cleanup, Stop, StopAll, TakeCallback,
     StopByCallbackID, CancelTimeout, Close, vars, pollers
<1> HIDE DEF P
<1>6. UNCHANGED batch => P
  BY <1>0, Zenon DEF P
<1> QED
  BY <1>1, <1>3, <1>5, <1>6, Zenon

\* What the invariant says of the loops and of the map.
Tables ==
    /\ active \in [Aliases -> [Chats -> Loops \cup {Nil}]]
    /\ loop \in [Loops -> Goroutine] /\ late \in [Loops -> Nat]
    /\ Owned /\ LateLeaves /\ Armed

\* A step that starts and ends no loop and leaves the map alone keeps it, if it
\* counts the late requests and arms no deadline that was cancelled.
LEMMA RecordStep ==
    ASSUME Tables, UNCHANGED <<active, swept>>,
           loop' \in [Loops -> Goroutine], late' \in [Loops -> Nat],
           \A l \in Loops :
               /\ loop'[l].alias = loop[l].alias /\ loop'[l].chat = loop[l].chat
               /\ loop'[l].pc # "free" => loop[l].pc # "free"
               /\ late'[l] <= 1
               /\ late'[l] > 0 => loop'[l].cancelled /\ loop'[l].pc \in {"select", "ended"}
               /\ loop'[l].due => loop'[l].notify
    PROVE  Tables'
<1>1. Owned'
  BY Zenon DEF Tables, Owned, Running
<1>2. LateLeaves' /\ Armed'
  BY DEF LateLeaves, Armed
<1> QED
  BY <1>1, <1>2, Zenon DEF Tables

\* A user action extends the loop of the chat or starts one.
LEMMA StartStep ==
    ASSUME TypingAssumption, Types, Tables, NEW a \in Aliases, start(a)
    PROVE  Tables'
<1> DEFINE c == batch[a].chat
<1>0. c \in Chats /\ UNCHANGED <<swept, late>>
  BY StartEffect, Zenon DEF start, history
<1>1. CASE UNCHANGED <<loop, active>>
  BY <1>0, <1>1 DEF Tables, Owned, LateLeaves, Armed, Running
<1>2. CASE /\ active[a][c] \in Loops /\ UNCHANGED active
           /\ loop' = [loop EXCEPT ![active[a][c]] = Extended(@)]
  <2>1. ASSUME NEW l \in Loops
        PROVE  /\ loop'[l] \in Goroutine /\ loop'[l].pc = loop[l].pc
               /\ loop'[l].alias = loop[l].alias /\ loop'[l].chat = loop[l].chat
               /\ loop'[l].cancelled = loop[l].cancelled
               /\ loop'[l].due => loop'[l].notify
    <3>1. loop[l] \in Goroutine /\ (loop[l].due => loop[l].notify)
      BY Zenon DEF Tables, Armed
    <3>2. loop'[l] = loop[l] \/ loop'[l] = Extended(loop[l])
      BY <1>2, Zenon DEF Tables
    <3>3. CASE loop'[l] = loop[l]
      BY <3>1, <3>3, Zenon
    <3>4. CASE loop'[l] = Extended(loop[l])
      BY <3>1, <3>4, ExtendedKeeps
    <3> QED
      BY <3>2, <3>3, <3>4, Zenon
  <2>2. loop' \in [Loops -> Goroutine]
    BY <1>2, <2>1, Zenon DEF Tables
  <2> QED
    BY <1>0, <1>2, <2>1, <2>2, RecordStep, Zenon DEF Tables, LateLeaves
<1>3. CASE /\ active[a][c] = Nil
           /\ \E new \in Loops :
                 /\ ~Running(new)
                 /\ loop' = [loop EXCEPT ![new] = Started(a, c)]
                 /\ active' = [active EXCEPT ![a][c] = new]
  <2>1. PICK new \in Loops : /\ ~Running(new)
                             /\ loop' = [loop EXCEPT ![new] = Started(a, c)]
                             /\ active' = [active EXCEPT ![a][c] = new]
    BY <1>3, Zenon
  <2>2. Fresh(a, c, Started(a, c))
    BY <1>0, Records, Zenon
  <2>3. /\ loop'[new] = Started(a, c) /\ \A l \in Loops \ {new} : loop'[l] = loop[l]
        /\ loop' \in [Loops -> Goroutine]
    BY <2>1, <2>2, Zenon DEF Tables, Fresh
  <2>4. /\ active' \in [Aliases -> [Chats -> Loops \cup {Nil}]] /\ active'[a][c] = new
        /\ \A x \in Aliases, y \in Chats : <<x, y>> # <<a, c>> => active'[x][y] = active[x][y]
    BY <1>0, <2>1, Zenon DEF Tables
  <2>5. Owned'
    <3> SUFFICES ASSUME NEW l \in Loops, Running(l)'
                 PROVE  /\ loop'[l].alias \in Aliases /\ loop'[l].chat \in Chats
                        /\ \/ active'[loop'[l].alias][loop'[l].chat] = l
                           \/ <<loop'[l].alias, loop'[l].chat>> \in swept'
      BY Zenon DEF Owned
    <3>1. CASE l = new
      BY <1>0, <2>2, <2>3, <2>4, <3>1 DEF Fresh
    <3>2. CASE l # new
      <4>1. loop'[l] = loop[l] /\ Running(l) /\ l # Nil
        BY <2>3, <3>2 DEF Running, TypingAssumption, Loops
      <4>2. /\ loop[l].alias \in Aliases /\ loop[l].chat \in Chats
            /\ \/ active[loop[l].alias][loop[l].chat] = l
               \/ <<loop[l].alias, loop[l].chat>> \in swept
        BY <4>1, Zenon DEF Tables, Owned
      <4>3. CASE loop[l].alias = a /\ loop[l].chat = c
        BY <1>0, <1>3, <4>1, <4>2, <4>3, Zenon
      <4>4. CASE <<loop[l].alias, loop[l].chat>> # <<a, c>>
        BY <1>0, <2>4, <4>1, <4>2, <4>4
      <4> QED
        BY <4>3, <4>4, Zenon
    <3> QED
      BY <3>1, <3>2, Zenon
  <2>6. LateLeaves'
    <3>1. late[new] = 0
      BY <2>1 DEF Tables, LateLeaves, Running
    <3> QED
      BY <1>0, <2>3, <3>1 DEF Tables, LateLeaves
  <2>7. Armed'
    BY <2>2, <2>3 DEF Tables, Armed, Fresh
  <2> QED
    BY <1>0, <2>3, <2>4, <2>5, <2>6, <2>7, Zenon DEF Tables
<1> QED
  BY <1>1, <1>2, <1>3, StartEffect, Zenon

\* One round of a loop: its own program counter moves.
LEMMA RoundStep ==
    ASSUME Tables, NEW l \in Loops,
           DeadlinePasses(l) \/ Check(l) \/ beat(l) \/ onTimeout(l) \/ Select(l)
    PROVE  Tables'
<1>0. /\ loop \in [Loops -> Goroutine] /\ late \in [Loops -> Nat]
      /\ \A k \in Loops : loop[k].due => loop[k].notify
      /\ \A k \in Loops : late[k] <= 1
      /\ \A k \in Loops : late[k] > 0 => loop[k].cancelled /\ loop[k].pc \in {"select", "ended"}
  BY Zenon DEF Tables, Armed, LateLeaves
<1>1. CASE DeadlinePasses(l)
  <2>1. /\ loop' = [loop EXCEPT ![l].due = TRUE] /\ loop[l].notify
        /\ UNCHANGED <<active, swept, late>>
    BY <1>1, Zenon DEF DeadlinePasses, history
  <2>2. loop' \in [Loops -> Goroutine]
    <3>1. loop[l] \in Goroutine
      BY <1>0, Zenon
    <3>2. [loop[l] EXCEPT !.due = TRUE] \in Goroutine
      BY <3>1, Zenon DEF Goroutine
    <3> QED
      BY <1>0, <2>1, <3>2, Zenon
  <2>3. \A k \in Loops : /\ loop'[k].pc = loop[k].pc /\ loop'[k].alias = loop[k].alias
                         /\ loop'[k].chat = loop[k].chat /\ loop'[k].cancelled = loop[k].cancelled
                         /\ loop'[k].due => loop'[k].notify
    BY <1>0, <2>1 DEF Goroutine
  <2> QED
    BY <1>0, <2>1, <2>2, <2>3, RecordStep
<1>2. CASE ~DeadlinePasses(l)
  <2>1. PICK to \in {"beat", "select", "top", "expired", "ended"} :
            /\ loop' = [loop EXCEPT ![l].pc = to]
            /\ UNCHANGED <<active, swept>>
            /\ \/ loop[l].pc # "select" /\ UNCHANGED late
               \/ loop[l].pc # "select" /\ Requests(l) /\ to \in {"select", "ended"}
               \/ /\ loop[l].pc = "select" /\ UNCHANGED late
                  /\ to = IF loop[l].cancelled THEN "ended" ELSE "top"
            /\ loop[l].pc \notin {"free", "ended"}
    <3>1. CASE Check(l)
      BY <3>1, Zenon DEF Check, BeatOrSkip, history
    <3>2. CASE beat(l)
      BY <3>2, Zenon DEF beat
    <3>3. CASE onTimeout(l)
      BY <3>3, Zenon DEF onTimeout
    <3>4. CASE Select(l)
      BY <3>4, Zenon DEF Select, history
    <3> QED
      BY <1>2, <3>1, <3>2, <3>3, <3>4, Zenon
  <2>2. loop' \in [Loops -> Goroutine]
    BY <1>0, <2>1 DEF Goroutine
  <2>3. \A k \in Loops : /\ loop'[k].alias = loop[k].alias /\ loop'[k].chat = loop[k].chat
                         /\ loop'[k].cancelled = loop[k].cancelled
                         /\ loop'[k].due = loop[k].due /\ loop'[k].notify = loop[k].notify
                         /\ loop'[k].pc = IF k = l THEN to ELSE loop[k].pc
    BY <1>0, <2>1 DEF Goroutine
  <2>4. /\ late' \in [Loops -> Nat] /\ \A k \in Loops \ {l} : late'[k] = late[k]
        /\ loop[l].pc # "select" => late[l] = 0
    BY <1>0, <2>1 DEF Requests
  <2>5. /\ late'[l] <= 1
        /\ late'[l] > 0 => loop[l].cancelled /\ to \in {"select", "ended"}
    <3>1. CASE loop[l].pc # "select" /\ UNCHANGED late
      BY <2>4, <3>1
    <3>2. CASE loop[l].pc # "select" /\ Requests(l) /\ to \in {"select", "ended"}
      <4>1. CASE loop[l].cancelled
        <5>1. late'[l] = late[l] + 1
          BY <1>0, <3>2, <4>1, Zenon DEF Requests
        <5> QED
          BY <2>4, <3>2, <4>1, <5>1
      <4>2. CASE ~loop[l].cancelled
        <5>1. late'[l] = late[l]
          BY <1>0, <3>2, <4>2, Zenon DEF Requests
        <5> QED
          BY <2>4, <3>2, <5>1
      <4> QED
        BY <4>1, <4>2, Zenon
    <3>3. CASE /\ loop[l].pc = "select" /\ UNCHANGED late
               /\ to = IF loop[l].cancelled THEN "ended" ELSE "top"
      <4>1. late'[l] <= 1 /\ (late'[l] > 0 => loop[l].cancelled)
        BY <1>0, <3>3, Zenon
      <4> QED
        BY <3>3, <4>1, Zenon
    <3> QED
      BY <2>1, <3>1, <3>2, <3>3, Zenon
  <2>6. ASSUME NEW k \in Loops
        PROVE  /\ loop'[k].pc # "free" => loop[k].pc # "free"
               /\ late'[k] <= 1
               /\ late'[k] > 0 => loop'[k].cancelled /\ loop'[k].pc \in {"select", "ended"}
    BY <1>0, <2>1, <2>3, <2>4, <2>5
  <2>7. \A k \in Loops : loop'[k].due => loop'[k].notify
    BY <1>0, <2>3, Zenon
  <2> QED
    BY <2>1, <2>2, <2>3, <2>4, <2>6, <2>7, RecordStep, Zenon
<1> QED
  BY <1>1, <1>2, Zenon

\* A loop that ends leaves the map; another loop of the chat was swept.
LEMMA CleanupStep ==
    ASSUME TypingAssumption, Tables, NEW l \in Loops, cleanup(l)
    PROVE  Tables'
<1> DEFINE a == loop[l].alias
           c == loop[l].chat
<1>0. Running(l)
  BY Zenon DEF cleanup, Running
<1>1. a \in Aliases /\ c \in Chats /\ (active[a][c] = l \/ <<a, c>> \in swept)
  BY <1>0, Zenon DEF Tables, Owned
<1>2. /\ loop' = [loop EXCEPT ![l] = NoLoop] /\ late' = [late EXCEPT ![l] = 0]
      /\ active' = [active EXCEPT ![a][c] = Nil]
      /\ swept' = IF \E k \in Loops \ {l} : loop[k].alias = a /\ loop[k].chat = c
                  THEN swept ELSE swept \ {<<a, c>>}
  BY DEF cleanup, Unmapped
<1>3. loop'[l] = NoLoop /\ loop' \in [Loops -> Goroutine] /\ \A k \in Loops \ {l} : loop'[k] = loop[k]
  BY <1>2, Records, Zenon DEF Tables
<1>4. /\ active' \in [Aliases -> [Chats -> Loops \cup {Nil}]]
      /\ \A x \in Aliases, y \in Chats : <<x, y>> # <<a, c>> => active'[x][y] = active[x][y]
  BY <1>1, <1>2, Zenon DEF Tables
<1>5. Owned'
  <2> SUFFICES ASSUME NEW k \in Loops, Running(k)'
               PROVE  /\ loop'[k].alias \in Aliases /\ loop'[k].chat \in Chats
                      /\ \/ active'[loop'[k].alias][loop'[k].chat] = k
                         \/ <<loop'[k].alias, loop'[k].chat>> \in swept'
    BY Zenon DEF Owned
  <2>1. k # l /\ loop'[k] = loop[k] /\ Running(k)
    <3>1. NoLoop.pc = "free"
      BY Zenon DEF NoLoop
    <3> QED
      BY <1>3, <3>1, Zenon DEF Running
  <2>2. /\ loop[k].alias \in Aliases /\ loop[k].chat \in Chats
        /\ \/ active[loop[k].alias][loop[k].chat] = k
           \/ <<loop[k].alias, loop[k].chat>> \in swept
    BY <2>1, Zenon DEF Tables, Owned
  <2>3. CASE loop[k].alias = a /\ loop[k].chat = c
    BY <1>1, <1>2, <2>1, <2>2, <2>3
  <2>4. CASE <<loop[k].alias, loop[k].chat>> # <<a, c>>
    <3>1. active'[loop[k].alias][loop[k].chat] = active[loop[k].alias][loop[k].chat]
      BY <1>4, <2>2, <2>4, Zenon
    <3>2. <<loop[k].alias, loop[k].chat>> \in swept => <<loop[k].alias, loop[k].chat>> \in swept'
      BY <1>2, <2>4, Zenon
    <3> QED
      BY <2>1, <2>2, <3>1, <3>2, Zenon
  <2> QED
    BY <2>3, <2>4, Zenon
<1>6. LateLeaves' /\ late' \in [Loops -> Nat]
  BY <1>2, <1>3 DEF Tables, LateLeaves
<1>7. Armed'
  <2>1. ~NoLoop.due
    BY Zenon DEF NoLoop
  <2> QED
    BY <1>3, <2>1, Zenon DEF Tables, Armed
<1> QED
  BY <1>3, <1>4, <1>5, <1>6, <1>7, Zenon DEF Tables

\* Cancelling loops that stay in the map keeps the invariant.
LEMMA CancelStep ==
    ASSUME Tables, NEW entries, loop' = Cancelled(entries), UNCHANGED <<active, swept, late>>
    PROVE  Tables'
<1>1. loop \in [Loops -> Goroutine] /\ loop' \in [Loops -> Goroutine] /\ late' \in [Loops -> Nat]
  <2>1. loop \in [Loops -> Goroutine] /\ late \in [Loops -> Nat]
    BY Zenon DEF Tables
  <2>2. Cancelled(entries) \in [Loops -> Goroutine]
    BY <2>1, CancelledTyped
  <2> QED
    BY <2>1, <2>2, Zenon
<1>2. ASSUME NEW l \in Loops
      PROVE  /\ loop'[l].alias = loop[l].alias /\ loop'[l].chat = loop[l].chat
             /\ loop'[l].pc = loop[l].pc /\ (loop[l].cancelled => loop'[l].cancelled)
             /\ loop'[l].due = loop[l].due /\ loop'[l].notify = loop[l].notify
  BY <1>1, CancelledKeeps, Zenon
<1>3. ASSUME NEW l \in Loops
      PROVE  /\ late[l] <= 1
             /\ late[l] > 0 => loop[l].cancelled /\ loop[l].pc \in {"select", "ended"}
             /\ loop[l].due => loop[l].notify
  BY Zenon DEF Tables, LateLeaves, Armed
<1>4. ASSUME NEW l \in Loops
      PROVE  /\ late'[l] <= 1
             /\ late'[l] > 0 => loop'[l].cancelled /\ loop'[l].pc \in {"select", "ended"}
             /\ loop'[l].due => loop'[l].notify
  BY <1>2, <1>3, Zenon
<1> QED
  BY <1>1, <1>2, <1>4, RecordStep, Zenon

\* StopAll takes the loops of a bot out of the map and sweeps their chats.
LEMMA StopAllStep ==
    ASSUME TypingAssumption, Tables, NEW a \in Aliases, StopAll(a)
    PROVE  Tables'
<1> DEFINE entries == {a} \X Chats
<1>0. /\ loop' = Cancelled(entries)
      /\ active' = [active EXCEPT ![a] = [c \in Chats |-> Nil]]
      /\ swept' = swept \cup {<<a, c>> : c \in {d \in Chats : active[a][d] # Nil}}
      /\ UNCHANGED late
  BY Zenon DEF StopAll
<1> HIDE DEF entries
<1>1. loop \in [Loops -> Goroutine] /\ loop' \in [Loops -> Goroutine] /\ late' \in [Loops -> Nat]
  <2>1. loop \in [Loops -> Goroutine] /\ late \in [Loops -> Nat]
    BY Zenon DEF Tables
  <2>2. Cancelled(entries) \in [Loops -> Goroutine]
    BY <2>1, CancelledTyped, Zenon
  <2> QED
    BY <1>0, <2>1, <2>2, Zenon
<1>2. ASSUME NEW l \in Loops
      PROVE  /\ loop'[l].alias = loop[l].alias /\ loop'[l].chat = loop[l].chat
             /\ loop'[l].pc = loop[l].pc /\ (loop[l].cancelled => loop'[l].cancelled)
             /\ loop'[l].due = loop[l].due /\ loop'[l].notify = loop[l].notify
  <2>1. loop' = Cancelled(entries) /\ loop \in [Loops -> Goroutine]
    BY <1>0, <1>1, Zenon
  <2> QED
    BY <2>1, CancelledKeeps
<1>3. /\ active' = [active EXCEPT ![a] = [c \in Chats |-> Nil]]
      /\ swept' = swept \cup {<<a, c>> : c \in {d \in Chats : active[a][d] # Nil}}
      /\ UNCHANGED late
  BY <1>0, Zenon
<1>4. Owned'
  <2> SUFFICES ASSUME NEW l \in Loops, Running(l)'
               PROVE  /\ loop'[l].alias \in Aliases /\ loop'[l].chat \in Chats
                      /\ \/ active'[loop'[l].alias][loop'[l].chat] = l
                         \/ <<loop'[l].alias, loop'[l].chat>> \in swept'
    BY Zenon DEF Owned
  <2>1. Running(l) /\ l # Nil
    BY <1>2 DEF Running, TypingAssumption, Loops
  <2>2. /\ loop[l].alias \in Aliases /\ loop[l].chat \in Chats
        /\ \/ active[loop[l].alias][loop[l].chat] = l
           \/ <<loop[l].alias, loop[l].chat>> \in swept
    BY <2>1, Zenon DEF Tables, Owned
  <2>3. CASE loop[l].alias = a
    BY <1>2, <1>3, <2>1, <2>2, <2>3
  <2>4. CASE loop[l].alias # a
    BY <1>2, <1>3, <2>2, <2>4, Zenon DEF Tables
  <2> QED
    BY <2>3, <2>4, Zenon
<1>5. LateLeaves' /\ Armed'
  <2>1. ASSUME NEW l \in Loops
        PROVE  /\ late[l] <= 1
               /\ late[l] > 0 => loop[l].cancelled /\ loop[l].pc \in {"select", "ended"}
               /\ loop[l].due => loop[l].notify
    BY Zenon DEF Tables, LateLeaves, Armed
  <2> QED
    BY <1>2, <1>3, <2>1, Zenon DEF LateLeaves, Armed
<1>6. active' \in [Aliases -> [Chats -> Loops \cup {Nil}]]
  BY <1>3, Zenon DEF Tables
<1> QED
  BY <1>1, <1>4, <1>5, <1>6 DEF Tables

\* cancel_timeout disarms the loop of the map.
LEMMA CancelTimeoutStep ==
    ASSUME Tables, NEW a \in Aliases, NEW c \in Chats, CancelTimeout(a, c)
    PROVE  Tables'
<1> DEFINE l == active[a][c]
<1>1. /\ l \in Loops /\ UNCHANGED <<active, swept, late>>
      /\ loop' = [loop EXCEPT ![l].notify = FALSE, ![l].due = FALSE]
  BY DEF CancelTimeout, Tables, history
<1>2. loop \in [Loops -> Goroutine] /\ late \in [Loops -> Nat]
  BY Zenon DEF Tables
<1> HIDE DEF l
<1>3. \A k \in Loops : /\ loop'[k].alias = loop[k].alias /\ loop'[k].chat = loop[k].chat
                       /\ loop'[k].pc = loop[k].pc /\ loop'[k].cancelled = loop[k].cancelled
                       /\ loop'[k].due = IF k = l THEN FALSE ELSE loop[k].due
                       /\ k # l => loop'[k].notify = loop[k].notify
  <2> SUFFICES ASSUME NEW k \in Loops
               PROVE  /\ loop'[k].alias = loop[k].alias /\ loop'[k].chat = loop[k].chat
                      /\ loop'[k].pc = loop[k].pc /\ loop'[k].cancelled = loop[k].cancelled
                      /\ loop'[k].due = IF k = l THEN FALSE ELSE loop[k].due
                      /\ k # l => loop'[k].notify = loop[k].notify
    BY Zenon
  <2>1. loop[k] \in Goroutine
    BY <1>2, Zenon
  <2>2. CASE k = l
    BY <1>1, <1>2, <2>1, <2>2, Zenon DEF Goroutine
  <2>3. CASE k # l
    BY <1>1, <1>2, <2>3
  <2> QED
    BY <2>2, <2>3, Zenon
<1>4. loop' \in [Loops -> Goroutine]
  <2>1. loop[l] \in Goroutine
    BY <1>1, <1>2, Zenon
  <2>2. [loop[l] EXCEPT !.notify = FALSE] \in Goroutine
    BY <2>1, Zenon DEF Goroutine
  <2>3. [loop EXCEPT ![l].notify = FALSE] \in [Loops -> Goroutine]
    BY <1>1, <1>2, <2>2, Zenon
  <2>4. \A r \in Goroutine : [r EXCEPT !.due = FALSE] \in Goroutine
    BY Zenon DEF Goroutine
  <2> QED
    BY <1>1, <2>3, <2>4, Zenon
<1>5. ASSUME NEW k \in Loops
      PROVE  /\ late[k] <= 1
             /\ late[k] > 0 => loop[k].cancelled /\ loop[k].pc \in {"select", "ended"}
             /\ loop[k].due => loop[k].notify
  BY Zenon DEF Tables, LateLeaves, Armed
<1>6. ASSUME NEW k \in Loops
      PROVE  /\ late'[k] <= 1
             /\ late'[k] > 0 => loop'[k].cancelled /\ loop'[k].pc \in {"select", "ended"}
             /\ loop'[k].due => loop'[k].notify
  BY <1>1, <1>3, <1>5
<1> QED
  BY <1>1, <1>2, <1>3, <1>4, <1>6, RecordStep, Zenon

-----------------------------------------------------------------------------
(* The theorems *)

\* Every step keeps what the invariant says of the loops and of the map.
LEMMA TablesStep ==
    ASSUME TypingAssumption, Types, Tables, [TypingNext]_vars
    PROVE  Tables'
<1> DEFINE P == Tables'
<1> SUFFICES P
  BY Zenon
<1>1. ASSUME UNCHANGED <<active, loop, history>> PROVE P
  BY <1>1, Zenon DEF Tables, Owned, LateLeaves, Armed, Running, history
<1>2. ASSUME NEW a \in Aliases, start(a) PROVE P
  BY <1>2, StartStep
<1>3. ASSUME NEW l \in Loops, DeadlinePasses(l) \/ Run(l) PROVE P
  BY <1>3, RoundStep, CleanupStep, Zenon DEF Run
<1>4. ASSUME NEW a \in Aliases, StopAll(a) PROVE P
  BY <1>4, StopAllStep, Zenon
<1>5. ASSUME NEW a \in Aliases, NEW c \in Chats, CancelTimeout(a, c) PROVE P
  BY <1>5, CancelTimeoutStep, Zenon
<1>6. ASSUME NEW a \in Aliases, NEW c \in Chats, Stop(a, c) PROVE P
  <2>1. loop' = Cancelled({<<a, c>>}) /\ UNCHANGED <<active, swept, late>>
    BY <1>6, Zenon DEF Stop, history
  <2> QED
    BY <2>1, CancelStep, Zenon
<1>7. ASSUME NEW a \in Aliases, StopByCallbackID(a) PROVE P
  <2>1. loop' = Cancelled({<<a, answering[a]>>}) /\ UNCHANGED <<active, swept, late>>
    BY <1>7, Zenon DEF StopByCallbackID, history
  <2> QED
    BY <2>1, CancelStep, Zenon
<1>8. ASSUME Close PROVE P
  <2>1. loop' = Cancelled(Aliases \X Chats) /\ UNCHANGED <<active, swept, late>>
    BY <1>8, Zenon DEF Close, history
  <2> QED
    BY <2>1, CancelStep, Zenon
<1>9. \/ UNCHANGED <<active, loop, history>>
      \/ \E a \in Aliases : start(a) \/ StopAll(a) \/ StopByCallbackID(a)
      \/ \E l \in Loops : DeadlinePasses(l) \/ Run(l)
      \/ \E a \in Aliases, c \in Chats : Stop(a, c) \/ CancelTimeout(a, c)
      \/ Close
  BY Zenon DEF TypingNext, Apply, SetBotTyping, ChatSendState, OnUpdates, UpdateSkipped, UserAction,
     TakeCallback, vars
<1> HIDE DEF P
<1> QED
  BY <1>1, <1>2, <1>3, <1>4, <1>5, <1>6, <1>7, <1>8, <1>9, Zenon

\* The invariant is inductive.
THEOREM TypingInvariant == TypingSpec => []TypingInv
<1>1. TypingInit => TypingInv
  <2> SUFFICES ASSUME TypingInit PROVE TypingInv
    BY Zenon
  <2>1. /\ global = Boot /\ override = [a \in Aliases |-> [enabled |-> Nil, private_only |-> Nil]]
        /\ active = [a \in Aliases |-> [c \in Chats |-> Nil]]
        /\ loop = [l \in Loops |-> NoLoop] /\ batch = [a \in Aliases |-> NoBatch]
        /\ late = [l \in Loops |-> 0]
    BY Zenon DEF TypingInit
  <2>2. global \in Settings /\ override \in [Aliases -> TypingPatch]
    BY <2>1, TypingAssumption DEF TypingAssumption, Settings, TypingPatch
  <2>3. /\ loop \in [Loops -> Goroutine] /\ batch \in [Aliases -> Batch] /\ late \in [Loops -> Nat]
        /\ active \in [Aliases -> [Chats -> Loops \cup {Nil}]]
    BY <2>1, Records, Zenon
  <2>4. NoLoop.pc = "free" /\ ~NoLoop.due
    BY Zenon DEF NoLoop
  <2>5. Owned /\ LateLeaves /\ Armed
    BY <2>1, <2>4 DEF Owned, LateLeaves, Armed, Running
  <2> QED
    BY <2>2, <2>3, <2>5, Zenon DEF TypingInv, Types
<1>2. TypingInv /\ [TypingNext]_vars => TypingInv'
  <2> SUFFICES ASSUME TypingInv, [TypingNext]_vars PROVE TypingInv'
    BY Zenon
  <2>1. TypingAssumption /\ Types /\ Tables
    BY TypingAssumption, Zenon DEF TypingInv, Types, Tables
  <2>2. Tables' /\ (batch \in [Aliases -> Batch])'
            /\ (global \in Settings /\ override \in [Aliases -> TypingPatch])'
    BY <2>1, TablesStep, BatchStep, SettingsStep
  <2> QED
    BY <2>2, Zenon DEF TypingInv, Types, Tables
<1> QED
  BY <1>1, <1>2, PTL DEF TypingSpec

\* A loop that still types is the one the map would stop, unless a StopAll hit
\* its chat.
THEOREM LoopsAreOwned == TypingSpec => []OwnedUnlessSwept
<1>1. TypingInv => OwnedUnlessSwept
  BY Zenon DEF TypingInv, Owned, OwnedUnlessSwept
<1> QED
  BY <1>1, TypingInvariant, PTL

\* A cancelled loop makes at most one more request.
THEOREM AtMostOneLate == TypingSpec => []OneLateRequest
<1>1. TypingInv => OneLateRequest
  BY DEF TypingInv, LateLeaves, OneLateRequest
<1> QED
  BY <1>1, TypingInvariant, PTL

\* A timeout that the consumer cancelled stays cancelled.
THEOREM TimeoutStaysCancelled == TypingSpec => CancelledTimeoutStays
<1> DEFINE Off(l) == ~loop'[l].due /\ (loop'[l].pc # "free" => ~loop'[l].notify)
                                   /\ loop'[l].pc # "expired"
           A == \A l \in Loops :
                    Running(l) /\ ~loop[l].notify /\ loop[l].pc # "expired" => Off(l)
<1>1. ASSUME TypingInv, TypingNext PROVE A
  <2> SUFFICES ASSUME NEW l \in Loops, Running(l), ~loop[l].notify, loop[l].pc # "expired"
               PROVE  Off(l)
    BY Zenon
  <2>0. TypingAssumption /\ Types /\ loop \in [Loops -> Goroutine] /\ ~loop[l].due
    BY <1>1, TypingAssumption, Zenon DEF TypingInv, Types, Armed
  <2>1. ASSUME loop'[l] = loop[l] PROVE Off(l)
    BY <2>0, <2>1, Zenon
  <2>2. ASSUME NEW entries, loop' = Cancelled(entries) PROVE Off(l)
    BY <2>0, <2>2, CancelledKeeps
  <2>3. ASSUME NEW a \in Aliases, start(a) PROVE Off(l)
    <3>1. loop'[l] = loop[l] \/ loop'[l] = Extended(loop[l])
      BY <2>0, <2>3, StartEffect, Zenon
    <3>2. ASSUME loop'[l] = Extended(loop[l]) PROVE Off(l)
      BY <2>0, <3>2, ExtendedKeeps
    <3> QED
      BY <2>1, <3>1, <3>2, Zenon
  <2>4. ASSUME NEW k \in Loops, DeadlinePasses(k) PROVE Off(l)
    <3>1. loop'[l] = loop[l]
      BY <2>0, <2>4, Zenon DEF DeadlinePasses
    <3> QED
      BY <2>1, <3>1, Zenon
  <2>5. ASSUME NEW k \in Loops, Run(k) PROVE Off(l)
    <3>1. CASE k # l
      <4>1. loop'[l] = loop[l]
        BY <2>0, <2>5, <3>1, Zenon DEF Run, Check, beat, onTimeout, Select, cleanup
      <4> QED
        BY <2>1, <4>1
    <3>2. CASE k = l /\ cleanup(l)
      <4>1. loop'[l] = NoLoop
        BY <2>0, <3>2, Zenon DEF cleanup
      <4>2. ~NoLoop.due /\ NoLoop.pc = "free"
        BY Zenon DEF NoLoop
      <4> QED
        BY <4>1, <4>2, Zenon
    <3>3. CASE k = l /\ ~cleanup(l)
      <4>1. \E to \in {"beat", "select", "top", "ended"} : loop' = [loop EXCEPT ![l].pc = to]
        BY <2>0, <2>5, <3>3, Zenon DEF Run, Check, BeatOrSkip, beat, onTimeout, Select
      <4> QED
        BY <2>0, <4>1 DEF Goroutine
    <3> QED
      BY <3>1, <3>2, <3>3, Zenon
  <2>6. ASSUME NEW a \in Aliases, NEW c \in Chats, CancelTimeout(a, c) PROVE Off(l)
    <3>1. loop' = [loop EXCEPT ![active[a][c]].notify = FALSE, ![active[a][c]].due = FALSE]
      BY <2>6, Zenon DEF CancelTimeout
    <3>2. /\ loop'[l].pc = loop[l].pc /\ ~loop'[l].due /\ ~loop'[l].notify
      BY <2>0, <3>1 DEF Goroutine
    <3> QED
      BY <3>2, Zenon
  <2>7. \/ UNCHANGED loop \/ \E entries : loop' = Cancelled(entries)
        \/ \E a \in Aliases : start(a)
        \/ \E k \in Loops : DeadlinePasses(k) \/ Run(k)
        \/ \E a \in Aliases, c \in Chats : CancelTimeout(a, c)
    BY <1>1, Zenon DEF TypingNext, Apply, SetBotTyping, ChatSendState, OnUpdates, UpdateSkipped,
       UserAction, TakeCallback, Stop, StopAll, StopByCallbackID, Close
  <2> HIDE DEF Off
  <2> QED
    BY <2>1, <2>2, <2>3, <2>4, <2>5, <2>6, <2>7, Zenon
<1>2. TypingInv /\ [TypingNext]_vars => [A]_vars
  BY <1>1
<1> QED
  BY <1>2, TypingInvariant, PTL DEF TypingSpec, CancelledTimeoutStays, A, Off

=============================================================================
