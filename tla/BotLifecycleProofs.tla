-------------------------- MODULE BotLifecycleProofs --------------------------
(***************************************************************************)
(* Proofs about BotLifecycle, for any number of aliases, tokens and admin  *)
(* requests and for every bound.                                           *)
(***************************************************************************)
EXTENDS BotLifecycle, TLAPS

-----------------------------------------------------------------------------
(* Types *)

Names == Aliases \cup {""}
Keys == Tokens \cup {NoToken}

Session == [alias : Names, token : Keys, state : States, cancel : 0 .. MaxPollers, held : BOOLEAN]
Poller == [of : 0 .. MaxSessions, cancelled : BOOLEAN,
           pc : {"none", "boot", "loop", "poll", "backoff", "recover", "exit"}]
Row == [token : Keys, paused : BOOLEAN]

\* Where a request has looked up or created its session ...
WithSession == {"persist", "spawn", "repause", "shut", "kill", "forget", "pause", "stop", "record",
                "resume", "respawn", "relive", "drain"}
\* ... and where it has an alias.
Named == WithSession \cup {"attach", "open", "unmap"}

Op == [pc : Named \cup {"idle", "rows"},
       kind : {"", "register", "restore", "delete", "pause", "resume", "drain"},
       alias : Names, token : Keys, s : 0 .. MaxSessions, paused : BOOLEAN, todo : SUBSET RowTodo]

Types ==
    /\ sessions \in [Aliases -> 0 .. MaxSessions] /\ session \in [SessionIds -> Session]
    /\ poller \in [PollerIds -> Poller] /\ bots \in [Aliases -> Row] /\ op \in [Admins -> Op]
    /\ faults \in Nat /\ restarts \in Nat /\ overlaps \in Nat

\* A session in the map, and one that a request works on, has the alias it is
\* known under; a poller has a session.
Linked ==
    /\ \A a \in Aliases : sessions[a] # 0 =>
            session[sessions[a]].alias = a /\ session[sessions[a]].state # "new"
    /\ \A o \in Admins : op[o].pc \in Named => op[o].alias \in Aliases
    /\ \A o \in Admins : op[o].pc \in WithSession =>
            /\ op[o].s \in SessionIds /\ session[op[o].s].alias = op[o].alias
            /\ session[op[o].s].state # "new"
    /\ \A p \in PollerIds : poller[p].pc # "none" =>
            /\ poller[p].of \in SessionIds /\ session[poller[p].of].alias \in Aliases
            /\ session[poller[p].of].state # "new"

\* 0 stands for no session and for no poller.
LEMMA Zero ==
    /\ \A s \in 0 .. MaxSessions : s # 0 <=> s \in SessionIds
    /\ \A s \in SessionIds : s \in 0 .. MaxSessions /\ s # 0
    /\ \A p \in PollerIds : p \in 0 .. MaxPollers /\ p # 0
  BY LifecycleAssumption DEF SessionIds, PollerIds

-----------------------------------------------------------------------------
(* How a request moves on *)

\* The other requests stay where they are, and this one keeps its type.
Alone(o) == op' \in [Admins -> Op] /\ \A x \in Admins \ {o} : op'[x] = op[x]

\* The request o goes to l with all it has.
LEMMA GotoIs ==
    ASSUME Types, NEW o \in Admins, NEW l \in Named \cup {"idle", "rows"}, Goto(o, l)
    PROVE  /\ Alone(o)
           /\ op'[o].pc = l /\ op'[o].alias = op[o].alias /\ op'[o].token = op[o].token
           /\ op'[o].s = op[o].s /\ op'[o].todo = op[o].todo
<1> DEFINE e == [op[o] EXCEPT !.pc = l]
<1>1. op[o] \in Op /\ op \in [Admins -> Op]
  BY DEF Types
<1>2. /\ e \in Op /\ e.pc = l /\ e.alias = op[o].alias /\ e.token = op[o].token
      /\ e.s = op[o].s /\ e.todo = op[o].todo
  BY <1>1, Zenon DEF Op
<1>3. op' = [op EXCEPT ![o] = e]
  BY <1>1 DEF Goto
<1> HIDE DEF e
<1> QED
  BY <1>1, <1>2, <1>3 DEF Alone

\* The request o is over.
LEMMA DoneIs ==
    ASSUME Types, NEW o \in Admins, Done(o)
    PROVE  Alone(o) /\ op'[o] = NoOp /\ op'[o].pc = "idle" /\ op'[o].alias = "" /\ op'[o].todo = {}
<1>1. op \in [Admins -> Op]
  BY DEF Types
<1>2. NoOp \in Op /\ NoOp.pc = "idle" /\ NoOp.alias = "" /\ NoOp.todo = {}
  BY LifecycleAssumption DEF NoOp, Op, Names, Keys
<1>3. op' = [op EXCEPT ![o] = NoOp]
  BY DEF Done
<1> HIDE DEF NoOp
<1> QED
  BY <1>1, <1>2, <1>3, Zenon DEF Alone

\* Attach has returned: the request is over, or back at its rows.
LEMMA ReturnIs ==
    ASSUME Types, NEW o \in Admins, NEW s \in 0 .. MaxSessions, AttachReturns(o, s)
    PROVE  /\ Alone(o)
           /\ \/ op'[o].pc = "idle"
              \/ /\ op'[o].pc = "rows" \/ (op'[o].pc = "repause" /\ s # 0)
                 /\ op'[o].alias = op[o].alias /\ op'[o].s = s /\ op'[o].todo = op[o].todo
<1>1. op[o] \in Op /\ op \in [Admins -> Op]
  BY DEF Types
<1>2. CASE Done(o)
  BY <1>2, DoneIs, Zenon
<1> DEFINE l == IF op[o].paused /\ s # 0 THEN "repause" ELSE "rows"
           e == [[op[o] EXCEPT !.s = s] EXCEPT !.pc = l]
<1>3. ASSUME op' = [op EXCEPT ![o].s = s, ![o].pc = l]
      PROVE  /\ Alone(o)
             /\ op'[o].pc = "rows" \/ (op'[o].pc = "repause" /\ s # 0)
             /\ op'[o].alias = op[o].alias /\ op'[o].s = s /\ op'[o].todo = op[o].todo
  <2>1. op' = [op EXCEPT ![o] = e]
    BY <1>1, <1>3, Zenon
  <2>2. l = "rows" \/ (l = "repause" /\ s # 0)
    OBVIOUS
  <2> HIDE DEF l
  <2>3. /\ e \in Op /\ e.pc = l /\ e.alias = op[o].alias /\ e.s = s /\ e.todo = op[o].todo
    BY <1>1, <2>2, Zenon DEF Op, Named, WithSession
  <2> HIDE DEF e
  <2> QED
    BY <1>1, <2>1, <2>2, <2>3 DEF Alone
<1> QED
  BY <1>2, <1>3 DEF AttachReturns

Takes(o, l, s) == op' = [op EXCEPT ![o].pc = l, ![o].s = s]

\* The request o goes to l with session s.
LEMMA TakesIs ==
    ASSUME Types, NEW o \in Admins, NEW l \in Named, NEW s \in 0 .. MaxSessions, Takes(o, l, s)
    PROVE  /\ Alone(o)
           /\ op'[o].pc = l /\ op'[o].alias = op[o].alias /\ op'[o].token = op[o].token
           /\ op'[o].s = s /\ op'[o].todo = op[o].todo
<1> DEFINE e == [[op[o] EXCEPT !.pc = l] EXCEPT !.s = s]
<1>1. op[o] \in Op /\ op \in [Admins -> Op]
  BY DEF Types
<1>2. /\ e \in Op /\ e.pc = l /\ e.alias = op[o].alias /\ e.token = op[o].token
      /\ e.s = s /\ e.todo = op[o].todo
  BY <1>1, Zenon DEF Op
<1>3. op' = [op EXCEPT ![o] = e]
  BY <1>1, Zenon DEF Takes
<1> HIDE DEF e
<1> QED
  BY <1>1, <1>2, <1>3 DEF Alone

NextRow(o, r, l, t) ==
    op' = [op EXCEPT ![o].pc = l, ![o].alias = r.alias, ![o].token = t,
                     ![o].paused = r.paused, ![o].todo = @ \ {r}]

\* RestoreAll takes the next row.
LEMMA NextRowIs ==
    ASSUME Types, NEW o \in Admins, NEW r \in op[o].todo, NEW l \in {"rows", "attach"}, NEW t \in Keys,
           NextRow(o, r, l, t)
    PROVE  /\ Alone(o)
           /\ op'[o].pc = l /\ op'[o].alias = r.alias /\ op'[o].todo = op[o].todo \ {r}
           /\ r.alias \in Aliases
<1> DEFINE e1 == [op[o] EXCEPT !.pc = l]
           e2 == [e1 EXCEPT !.alias = r.alias]
           e3 == [e2 EXCEPT !.token = t]
           e4 == [e3 EXCEPT !.paused = r.paused]
           rest == op[o].todo \ {r}
           e5 == [e4 EXCEPT !.todo = rest]
<1>1. op[o] \in Op /\ op \in [Admins -> Op]
  BY DEF Types
<1>2. r \in RowTodo /\ rest \in SUBSET RowTodo
  BY <1>1, Zenon DEF Op
<1>3. r.alias \in Aliases /\ r.paused \in BOOLEAN
  BY <1>2 DEF RowTodo
<1>4. op' = [op EXCEPT ![o] = e5]
  BY <1>1, Zenon DEF NextRow
<1> HIDE DEF rest
<1>5. e1 \in Op /\ e1.pc = l
  BY <1>1, Zenon DEF Op, Named
<1> HIDE DEF e1
<1>6. e2 \in Op /\ e2.pc = l /\ e2.alias = r.alias
  BY <1>3, <1>5, Zenon DEF Op, Names
<1> HIDE DEF e2
<1>7. e3 \in Op /\ e3.pc = l /\ e3.alias = r.alias
  BY <1>6, Zenon DEF Op
<1> HIDE DEF e3
<1>8. e4 \in Op /\ e4.pc = l /\ e4.alias = r.alias
  BY <1>3, <1>7, Zenon DEF Op
<1> HIDE DEF e4
<1>9. e5 \in Op /\ e5.pc = l /\ e5.alias = r.alias /\ e5.todo = rest
  BY <1>2, <1>8, Zenon DEF Op
<1> HIDE DEF e5
<1>10. op' \in [Admins -> Op] /\ op'[o] = e5 /\ \A x \in Admins \ {o} : op'[x] = op[x]
  BY <1>1, <1>4, <1>9
<1> QED
  BY <1>3, <1>9, <1>10, Zenon DEF Alone, rest

-----------------------------------------------------------------------------
(* What a step does to the sessions and the pollers *)

Kept(t) == session'[t].cancel = session[t].cancel /\ session'[t].held = session[t].held

\* A session that exists keeps its alias and its token.
Steady ==
    \A t \in SessionIds : session[t].state # "new" =>
        /\ session'[t].alias = session[t].alias /\ session'[t].token = session[t].token
        /\ session'[t].state # "new"

\* A poller runs on for its session.
RunsOn(p) == Running(p) /\ poller'[p].of = poller[p].of

\* setState touches the state alone.
LEMMA SetStateIs ==
    ASSUME Types, NEW s \in SessionIds, NEW st \in States \ {"new"}, setState(s, st)
    PROVE  session' \in [SessionIds -> Session] /\ Steady /\ \A t \in SessionIds : Kept(t)
<1> DEFINE e == [session[s] EXCEPT !.state = st]
<1>1. session \in [SessionIds -> Session] /\ session[s] \in Session
  BY DEF Types
<1>2. /\ e \in Session /\ e.alias = session[s].alias /\ e.token = session[s].token
      /\ e.cancel = session[s].cancel /\ e.held = session[s].held /\ e.state = st
  BY <1>1 DEF Session
<1>3. session' = [session EXCEPT ![s] = e]
  BY <1>1 DEF setState
<1> HIDE DEF e
<1> QED
  BY <1>1, <1>2, <1>3 DEF Steady, Kept

\* The history variable of a pause touches nothing else.
LEMMA SetHeldIs ==
    ASSUME Types, NEW s \in SessionIds, NEW v \in BOOLEAN,
           session' = [session EXCEPT ![s].held = v]
    PROVE  /\ session' \in [SessionIds -> Session] /\ Steady
           /\ \A t \in SessionIds \ {s} : Kept(t)
           /\ session'[s].held = v /\ session'[s].cancel = session[s].cancel
<1> DEFINE e == [session[s] EXCEPT !.held = v]
<1>1. session \in [SessionIds -> Session] /\ session[s] \in Session
  BY DEF Types
<1>2. /\ e \in Session /\ e.alias = session[s].alias /\ e.token = session[s].token
      /\ e.cancel = session[s].cancel /\ e.held = v /\ e.state = session[s].state
  BY <1>1 DEF Session
<1>3. session' = [session EXCEPT ![s] = e]
  BY <1>1
<1> HIDE DEF e
<1> QED
  BY <1>1, <1>2, <1>3 DEF Steady, Kept

\* A new poller runs for session s and s.pollCancel is its own.
LEMMA SpawnIs ==
    ASSUME Types, NEW s \in SessionIds, Spawn(s)
    PROVE  /\ session' \in [SessionIds -> Session] /\ Steady
           /\ \A t \in SessionIds \ {s} : Kept(t)
           /\ session'[s].held = session[s].held
           /\ poller' \in [PollerIds -> Poller]
           /\ \E p \in PollerIds :
                 /\ session'[s].cancel = p /\ poller'[p].of = s /\ poller'[p].pc = "boot"
                 /\ \A q \in PollerIds \ {p} : poller'[q] = poller[q]
<1>1. session \in [SessionIds -> Session] /\ session[s] \in Session /\ poller \in [PollerIds -> Poller]
  BY DEF Types
<1> DEFINE q == [of |-> s, pc |-> "boot", cancelled |-> FALSE]
<1>2. PICK p \in PollerIds :
          session' = [session EXCEPT ![s].cancel = p] /\ poller' = [poller EXCEPT ![p] = q]
  BY Zenon DEF Spawn
<1> DEFINE e == [session[s] EXCEPT !.cancel = p]
<1>3. p \in 0 .. MaxPollers /\ s \in 0 .. MaxSessions
  BY LifecycleAssumption DEF PollerIds, SessionIds
<1>4. /\ e \in Session /\ e.alias = session[s].alias /\ e.token = session[s].token
      /\ e.cancel = p /\ e.held = session[s].held /\ e.state = session[s].state
  BY <1>1, <1>3 DEF Session
<1>5. session' = [session EXCEPT ![s] = e]
  BY <1>1, <1>2
<1>6. q \in Poller /\ q.of = s /\ q.pc = "boot"
  BY <1>3 DEF Poller
<1> HIDE DEF e, q
<1>7. session' \in [SessionIds -> Session] /\ session'[s] = e
      /\ \A t \in SessionIds \ {s} : session'[t] = session[t]
  BY <1>1, <1>4, <1>5
<1>8. poller' \in [PollerIds -> Poller] /\ poller'[p] = q
      /\ \A x \in PollerIds \ {p} : poller'[x] = poller[x]
  BY <1>1, <1>2, <1>6
<1>9. Steady
  BY <1>4, <1>7 DEF Steady
<1>10. \A t \in SessionIds \ {s} : Kept(t)
  BY <1>7 DEF Kept
<1> QED
  BY <1>4, <1>6, <1>7, <1>8, <1>9, <1>10

\* pollCancel of s ends the poller it belongs to and starts none.
LEMMA CancelIs ==
    ASSUME Types, NEW s \in SessionIds, pollCancel(s)
    PROVE  /\ poller' \in [PollerIds -> Poller]
           /\ \A p \in PollerIds : poller'[p].of = poller[p].of /\ poller'[p].pc = poller[p].pc
           /\ \A p \in PollerIds : Running(p)' => Running(p) /\ session[s].cancel # p
<1>1. session[s].cancel \in 0 .. MaxPollers /\ poller \in [PollerIds -> Poller]
  BY DEF Types, Session
<1>2. CASE session[s].cancel = 0
  <2>1. poller' = poller
    BY <1>2 DEF pollCancel
  <2>2. \A p \in PollerIds : session[s].cancel # p
    BY <1>2 DEF PollerIds
  <2> QED
    BY <1>1, <2>1, <2>2 DEF Running
<1>3. CASE session[s].cancel # 0
  <2> DEFINE c == session[s].cancel
             e == [poller[c] EXCEPT !.cancelled = TRUE]
  <2>1. c \in PollerIds
    BY <1>1, <1>3, LifecycleAssumption DEF PollerIds
  <2>2. poller' = [poller EXCEPT ![c] = e]
    BY <1>1, <1>3, <2>1 DEF pollCancel
  <2>3. e \in Poller /\ e.of = poller[c].of /\ e.pc = poller[c].pc /\ e.cancelled
    BY <1>1, <2>1, Zenon DEF Poller
  <2> HIDE DEF c, e
  <2>4. /\ poller' \in [PollerIds -> Poller] /\ poller'[c] = e
        /\ \A p \in PollerIds \ {c} : poller'[p] = poller[p]
    BY <1>1, <2>1, <2>2, <2>3
  <2>5. \A p \in PollerIds : Running(p)' => Running(p) /\ p # c
    BY <2>3, <2>4 DEF Running
  <2> QED
    BY <2>3, <2>4, <2>5 DEF c
<1> QED
  BY <1>2, <1>3

-----------------------------------------------------------------------------
(* The invariant *)

\* No two requests work on one alias.
Excl == \A x, y \in Admins : x # y => Touched(x) \cap Touched(y) = {}

\* What a request knows about its session while no other works on its alias.
Local(x) ==
    /\ op[x].pc \in {"persist", "spawn", "resume", "respawn"} => sessions[op[x].alias] = op[x].s
    /\ op[x].pc \in {"open", "shut", "kill", "forget"} => sessions[op[x].alias] = 0
    /\ op[x].pc \in {"persist", "spawn"} =>
          session[op[x].s].cancel = 0 /\ session[op[x].s].token = op[x].token
    /\ op[x].pc \in {"persist", "spawn", "respawn"} => ~session[op[x].s].held
    /\ op[x].pc = "record" => \A p \in PollerIds : Running(p) => poller[p].of # op[x].s

\* A running poller is the one its session can cancel, the session is not
\* paused, and it is in the map or Delete is about to cancel it.
Owned(p) ==
    Running(p) =>
        /\ session[poller[p].of].cancel = p /\ ~session[poller[p].of].held
        /\ \/ sessions[session[poller[p].of].alias] = poller[p].of
           \/ \E o \in Admins : op[o].pc \in {"shut", "kill"} /\ op[o].s = poller[p].of

\* The row of alias a is being written.
Writing(a) == \E o \in Admins : op[o].alias = a /\ op[o].pc \in {"shut", "kill", "forget", "persist"}

Agrees(a) ==
    IF sessions[a] = 0 THEN restarts > 0 \/ bots[a] = NoRow
    ELSE bots[a].token = session[sessions[a]].token

Tabled(a) == faults = 0 /\ ~Writing(a) => Agrees(a)

Calm ==
    /\ Excl
    /\ \A x \in Admins : Local(x)
    /\ \A p \in PollerIds : Owned(p)
    /\ \A a \in Aliases : Tabled(a)

LifecycleInv == Types /\ Linked /\ (overlaps = 0 => Calm)

\* A step of o leaves the other aliases alone.
Own(o) ==
    /\ \A a \in Aliases : a # op[o].alias => sessions'[a] = sessions[a] /\ bots'[a] = bots[a]
    /\ \A t \in SessionIds : session[t].state # "new" /\ session[t].alias # op[o].alias => Kept(t)
    /\ \A p \in PollerIds : Running(p)' =>
          RunsOn(p) \/ (poller'[p].of \in SessionIds /\ session[poller'[p].of].alias = op[o].alias
                        /\ session[poller'[p].of].state # "new")

\* The links of what a step of o has changed.
NewLinks(o) ==
    /\ \A a \in Aliases : sessions'[a] \in {0, sessions[a]}
                          \/ (session'[sessions'[a]].alias = a /\ session'[sessions'[a]].state # "new")
    /\ op'[o].pc \in Named => op'[o].alias \in Aliases
    /\ op'[o].pc \in WithSession =>
            /\ op'[o].s \in SessionIds /\ session'[op'[o].s].alias = op'[o].alias
            /\ session'[op'[o].s].state # "new"
    /\ \A p \in PollerIds : poller'[p].pc # "none" =>
            \/ poller[p].pc # "none" /\ poller'[p].of = poller[p].of
            \/ /\ poller'[p].of \in SessionIds /\ session'[poller'[p].of].alias \in Aliases
               /\ session'[poller'[p].of].state # "new"

\* Linked is kept by a step that links what it changes.
LEMMA LinkedFrame ==
    ASSUME Types, Linked, NEW o \in Admins, Alone(o), Steady, NewLinks(o)
    PROVE  Linked'
<1>1. \A a \in Aliases : sessions[a] # 0 => sessions[a] \in SessionIds
  BY LifecycleAssumption DEF Types, SessionIds
<1>2. \A a \in Aliases : sessions'[a] # 0 =>
          session'[sessions'[a]].alias = a /\ session'[sessions'[a]].state # "new"
  BY <1>1 DEF Linked, Steady, NewLinks
<1>3. \A x \in Admins : op'[x].pc \in Named => op'[x].alias \in Aliases
  BY DEF Linked, NewLinks, Alone
<1>4. \A x \in Admins : op'[x].pc \in WithSession =>
          /\ op'[x].s \in SessionIds /\ session'[op'[x].s].alias = op'[x].alias
          /\ session'[op'[x].s].state # "new"
  BY DEF Linked, NewLinks, Alone, Steady
<1>5. \A p \in PollerIds : poller'[p].pc # "none" =>
          /\ poller'[p].of \in SessionIds /\ session'[poller'[p].of].alias \in Aliases
          /\ session'[poller'[p].of].state # "new"
  BY DEF Linked, NewLinks, Steady
<1> QED
  BY <1>2, <1>3, <1>4, <1>5, Zenon DEF Linked

\* Two requests at work have different aliases.
LEMMA Apart ==
    ASSUME Excl, NEW x \in Admins, NEW y \in Admins, x # y, op[x].pc # "idle", op[y].pc # "idle"
    PROVE  op[x].alias # op[y].alias
<1>1. op[x].alias \in Touched(x) /\ op[y].alias \in Touched(y)
  BY DEF Touched
<1> QED
  BY <1>1, Zenon DEF Excl

\* What another request knows survives a step of o.
LEMMA LocalFrame ==
    ASSUME Types, Linked, Calm, NEW o \in Admins, NEW x \in Admins, x # o, op[o].pc # "idle",
           Alone(o), Steady, Own(o)
    PROVE  Local(x)'
<1>1. op'[x] = op[x]
  BY DEF Alone
<1>2. CASE op[x].pc \notin Named
  BY <1>1, <1>2 DEF Local, Named, WithSession
<1>3. CASE op[x].pc \in Named
  <2>1. op[x].alias # op[o].alias /\ op[x].alias \in Aliases
    BY <1>3, Apart DEF Calm, Linked, Named, WithSession
  <2>2. sessions'[op[x].alias] = sessions[op[x].alias]
    BY <2>1 DEF Own
  <2>3. ASSUME op[x].pc \in WithSession
        PROVE  /\ Kept(op[x].s) /\ session'[op[x].s].token = session[op[x].s].token
               /\ \A p \in PollerIds : Running(p)' /\ poller'[p].of = op[x].s
                                       => Running(p) /\ poller[p].of = op[x].s
    <3>1. op[x].s \in SessionIds /\ session[op[x].s].alias = op[x].alias /\ session[op[x].s].state # "new"
      BY <2>3 DEF Linked
    <3>2. Kept(op[x].s) /\ session'[op[x].s].token = session[op[x].s].token
      BY <2>1, <3>1 DEF Own, Steady
    <3>3. ASSUME NEW p \in PollerIds, Running(p)', poller'[p].of = op[x].s
          PROVE  Running(p) /\ poller[p].of = op[x].s
      BY <2>1, <3>1, <3>3 DEF Own, RunsOn
    <3> QED
      BY <3>2, <3>3, Zenon
  <2>4. Local(x)
    BY DEF Calm
  <2> QED
    BY <1>1, <2>2, <2>3, <2>4 DEF Local, Kept, WithSession
<1> QED
  BY <1>2, <1>3

\* The pollers of other aliases survive a step of o.
LEMMA OwnedFrame ==
    ASSUME Types, Linked, Calm, NEW o \in Admins, NEW p \in PollerIds,
           Alone(o), Steady, Own(o), session'[poller'[p].of].alias # op[o].alias
    PROVE  Owned(p)'
<1> SUFFICES ASSUME Running(p)'
             PROVE  /\ session'[poller'[p].of].cancel = p /\ ~session'[poller'[p].of].held
                    /\ \/ sessions'[session'[poller'[p].of].alias] = poller'[p].of
                       \/ \E x \in Admins : op'[x].pc \in {"shut", "kill"} /\ op'[x].s = poller'[p].of
  BY Zenon DEF Owned
<1>1. Running(p) /\ poller'[p].of = poller[p].of
  BY DEF Own, Steady, RunsOn
<1> DEFINE s == poller[p].of
<1>2. s \in SessionIds /\ session[s].alias \in Aliases /\ session[s].state # "new"
  BY <1>1 DEF Linked, Running
<1>3. session'[s].alias = session[s].alias
  BY <1>2 DEF Steady
<1>4. session[s].alias # op[o].alias
  BY <1>1, <1>3
<1>5. session'[s].cancel = session[s].cancel /\ session'[s].held = session[s].held
      /\ sessions'[session[s].alias] = sessions[session[s].alias]
  BY <1>2, <1>4 DEF Own, Kept
<1>6. /\ session[s].cancel = p /\ ~session[s].held
      /\ \/ sessions[session[s].alias] = s
         \/ \E x \in Admins : op[x].pc \in {"shut", "kill"} /\ op[x].s = s
  BY <1>1 DEF Calm, Owned
<1>7. ASSUME NEW x \in Admins, op[x].pc \in {"shut", "kill"}, op[x].s = s
      PROVE  op'[x] = op[x]
  BY <1>4, <1>7 DEF Linked, WithSession, Alone
<1> HIDE DEF s
<1> QED
  BY <1>1, <1>3, <1>5, <1>6, <1>7 DEF s

\* The rows of other aliases survive a step of o.
LEMMA TabledFrame ==
    ASSUME Types, Linked, Calm, NEW o \in Admins, NEW a \in Aliases, a # op[o].alias,
           Alone(o), Steady, Own(o), faults' = 0 => faults = 0, restarts' = restarts
    PROVE  Tabled(a)'
<1> SUFFICES ASSUME faults' = 0, ~Writing(a)'
             PROVE  Agrees(a)'
  BY Zenon DEF Tabled
<1>1. ~Writing(a)
  BY DEF Writing, Alone
<1>2. Agrees(a)
  BY <1>1 DEF Calm, Tabled
<1>3. sessions'[a] = sessions[a] /\ bots'[a] = bots[a]
  BY DEF Own
<1>4. sessions[a] # 0 => sessions[a] \in SessionIds
  BY LifecycleAssumption DEF Types, SessionIds
<1>5. sessions[a] # 0 => session'[sessions[a]].token = session[sessions[a]].token
  BY <1>4 DEF Linked, Steady
<1> QED
  BY <1>2, <1>3, <1>5 DEF Agrees

\* A step of o that works on no alias it did not work on.
LEMMA ExclFrame ==
    ASSUME Excl, NEW o \in Admins, Alone(o), Touched(o)' \subseteq Touched(o)
    PROVE  Excl'
<1>1. \A x \in Admins : Touched(x)' \subseteq Touched(x)
  BY DEF Alone, Touched
<1> QED
  BY <1>1 DEF Excl

\* What is left to show of a step of o: that it keeps what concerns its own alias.
Mine(o) ==
    /\ Local(o)'
    /\ \A p \in PollerIds : session'[poller'[p].of].alias = op[o].alias => Owned(p)'
    /\ \A a \in Aliases : a = op[o].alias => Tabled(a)'

\* What every step of a request does.
Moves(o) ==
    /\ Types' /\ Alone(o) /\ Touched(o)' \subseteq Touched(o) /\ op[o].pc # "idle"
    /\ Steady /\ Own(o) /\ NewLinks(o)
    /\ faults' = 0 => faults = 0
    /\ UNCHANGED <<restarts, overlaps>>

\* A request that keeps its own part keeps the invariant.
LEMMA AdminFrame ==
    ASSUME LifecycleInv, NEW o \in Admins, Moves(o), Calm => Mine(o)
    PROVE  LifecycleInv'
<1>1. Types' /\ Linked'
  BY LinkedFrame DEF LifecycleInv, Moves
<1>2. ASSUME overlaps' = 0 PROVE Calm'
  <2>1. Calm /\ Mine(o) /\ Types /\ Linked
    BY <1>2 DEF LifecycleInv, Moves
  <2>2. Excl'
    BY <2>1, ExclFrame DEF Calm, Moves
  <2>3. \A x \in Admins : Local(x)'
    BY <2>1, LocalFrame DEF Moves, Mine
  <2>4. \A p \in PollerIds : Owned(p)'
    BY <2>1, OwnedFrame DEF Moves, Mine
  <2>5. \A a \in Aliases : Tabled(a)'
    BY <2>1, TabledFrame DEF Moves, Mine
  <2> QED
    BY <2>2, <2>3, <2>4, <2>5, Zenon DEF Calm
<1> QED
  BY <1>1, <1>2, Zenon DEF LifecycleInv

-----------------------------------------------------------------------------
(* The requests, step by step *)

\* The alias and the session of a request, after its step.
OpLinks(o) ==
    /\ op'[o].pc \in Named => op'[o].alias \in Aliases
    /\ op'[o].pc \in WithSession =>
            /\ op'[o].s \in SessionIds /\ session'[op'[o].s].alias = op'[o].alias
            /\ session'[op'[o].s].state # "new"

\* The request goes on with its alias.
OnItsWay(o) == Alone(o) /\ Touched(o)' \subseteq Touched(o) /\ OpLinks(o)

\* A request that goes on to l, where it needs no session it does not have.
LEMMA GoesOn ==
    ASSUME Types, Linked, Steady, NEW o \in Admins, NEW l \in Named \cup {"rows"}, Goto(o, l),
           op[o].pc \in Named, l \in WithSession => op[o].pc \in WithSession
    PROVE  OnItsWay(o)
<1>1. Alone(o) /\ op'[o].pc = l /\ op'[o].alias = op[o].alias /\ op'[o].s = op[o].s
      /\ op'[o].todo = op[o].todo
  BY GotoIs
<1>2. Touched(o)' \subseteq Touched(o)
  BY <1>1 DEF Touched, Named, WithSession
<1>3. OpLinks(o)
  BY <1>1 DEF OpLinks, Linked, Steady
<1> QED
  BY <1>1, <1>2, <1>3, Zenon DEF OnItsWay

\* A request that is over.
LEMMA IsOver ==
    ASSUME Types, NEW o \in Admins, Done(o)
    PROVE  OnItsWay(o) /\ op'[o].pc = "idle"
<1>1. Alone(o) /\ op'[o].pc = "idle"
  BY DoneIs, Zenon
<1>2. Touched(o)' = {}
  BY <1>1 DEF Touched
<1>3. OpLinks(o)
  BY <1>1 DEF OpLinks, Named, WithSession
<1> QED
  BY <1>1, <1>2, <1>3 DEF OnItsWay

\* A request whose Attach has returned session s, the one of its alias.
LEMMA HasReturned ==
    ASSUME Types, Linked, Steady, NEW o \in Admins, NEW s \in 0 .. MaxSessions, AttachReturns(o, s),
           op[o].pc \in Named,
           s # 0 => session[s].alias = op[o].alias /\ session[s].state # "new"
    PROVE  OnItsWay(o) /\ op'[o].pc \in {"idle", "rows", "repause"}
<1>1. /\ Alone(o)
      /\ \/ op'[o].pc = "idle"
         \/ /\ op'[o].pc = "rows" \/ (op'[o].pc = "repause" /\ s # 0)
            /\ op'[o].alias = op[o].alias /\ op'[o].s = s /\ op'[o].todo = op[o].todo
  BY ReturnIs
<1>2. Touched(o)' \subseteq Touched(o)
  BY <1>1 DEF Touched, Named, WithSession
<1>3. s # 0 => s \in SessionIds
  BY LifecycleAssumption DEF SessionIds
<1>4. OpLinks(o)
  BY <1>1, <1>3 DEF OpLinks, Linked, Steady, Named, WithSession
<1> QED
  BY <1>1, <1>2, <1>4, Zenon DEF OnItsWay

\* A step that changes at most the request and the state of a session.
LEMMA Quietly ==
    ASSUME Types, Linked, NEW o \in Admins, op[o].pc # "idle", OnItsWay(o),
           session' \in [SessionIds -> Session], Steady, \A t \in SessionIds : Kept(t),
           UNCHANGED <<sessions, poller, bots, faults, restarts, overlaps>>,
           op[o].pc \in {"shut", "kill"} => op'[o].pc = "kill" /\ op'[o].s = op[o].s
                                            /\ op'[o].alias = op[o].alias,
           op[o].pc \notin {"forget", "persist"},
           Calm => Local(o)'
    PROVE  Moves(o) /\ (Calm => Mine(o))
<1>1. Types'
  BY DEF Types, OnItsWay, Alone
<1>2. Own(o)
  BY DEF Own, RunsOn, Running
<1>3. NewLinks(o)
  BY DEF NewLinks, OnItsWay, OpLinks
<1>4. Moves(o)
  BY <1>1, <1>2, <1>3 DEF Moves, OnItsWay
<1>5. ASSUME Calm, NEW p \in PollerIds PROVE Owned(p)'
  <2> SUFFICES ASSUME Running(p)
               PROVE  /\ session'[poller[p].of].cancel = p /\ ~session'[poller[p].of].held
                      /\ \/ sessions[session'[poller[p].of].alias] = poller[p].of
                         \/ \E x \in Admins : op'[x].pc \in {"shut", "kill"} /\ op'[x].s = poller[p].of
    BY DEF Owned, Running
  <2>1. poller[p].of \in SessionIds /\ session[poller[p].of].state # "new"
    BY DEF Linked, Running
  <2>2. Owned(p)
    BY <1>5 DEF Calm
  <2>3. \A x \in Admins : op[x].pc \in {"shut", "kill"} => op'[x].pc \in {"shut", "kill"} /\ op'[x].s = op[x].s
    BY DEF OnItsWay, Alone
  <2> QED
    BY <2>1, <2>2, <2>3, Zenon DEF Owned, Kept, Steady
<1>6. ASSUME Calm, NEW a \in Aliases PROVE Tabled(a)'
  <2>1. Writing(a) => Writing(a)'
    BY DEF Writing, OnItsWay, Alone
  <2>2. sessions[a] # 0 => sessions[a] \in SessionIds
    BY LifecycleAssumption DEF Types, SessionIds
  <2>3. sessions[a] # 0 => session'[sessions[a]].token = session[sessions[a]].token
    BY <2>2 DEF Linked, Steady
  <2>4. Tabled(a)
    BY <1>6 DEF Calm
  <2> QED
    BY <2>1, <2>3, <2>4 DEF Tabled, Agrees
<1> QED
  BY <1>4, <1>5, <1>6 DEF Mine

\* Nothing to know about a session where a request only goes on.
LEMMA NothingToKnow ==
    ASSUME NEW o \in Admins,
           op'[o].pc \in {"idle", "rows", "repause", "attach", "unmap", "stop", "relive", "pause", "drain"}
    PROVE  Local(o)'
BY DEF Local

\* Without a change the sessions are steady.
LEMMA Unchanged ==
    ASSUME Types, UNCHANGED session
    PROVE  session' \in [SessionIds -> Session] /\ Steady /\ \A t \in SessionIds : Kept(t)
BY DEF Types, Steady, Kept

\* Attach looks the alias up.
LEMMA LookupStep ==
    ASSUME Types, Linked, NEW o \in Admins, AttachLookup(o)
    PROVE  Moves(o) /\ (Calm => Mine(o))
<1> DEFINE s == sessions[op[o].alias]
<1>1. op[o].pc = "attach" /\ UNCHANGED <<sessions, session, poller, bots, faults, restarts, overlaps>>
      /\ op[o].alias \in Aliases
  BY DEF AttachLookup, Linked, Named
<1>2. session' \in [SessionIds -> Session] /\ Steady /\ \A t \in SessionIds : Kept(t)
  BY <1>1, Unchanged
<1>3. OnItsWay(o) /\ Local(o)'
  <2>1. CASE s = 0 /\ Goto(o, "open")
    <3>1. OnItsWay(o)
      BY <1>1, <1>2, <2>1, GoesOn DEF Named, WithSession
    <3>2. op'[o].pc = "open" /\ op'[o].alias = op[o].alias
      BY <2>1, GotoIs DEF Named
    <3> QED
      BY <1>1, <2>1, <3>1, <3>2 DEF Local
  <2>2. CASE s # 0 /\ AttachReturns(o, s)
    <3>1. s \in 0 .. MaxSessions
      BY <1>1 DEF Types
    <3>2. session[s].alias = op[o].alias /\ session[s].state # "new"
      BY <1>1, <2>2 DEF Linked
    <3> QED
      BY <1>1, <1>2, <2>2, <3>1, <3>2, HasReturned, NothingToKnow DEF Named
  <2>3. CASE Goto(o, "unmap")
    <3>1. OnItsWay(o)
      BY <1>1, <1>2, <2>3, GoesOn DEF Named, WithSession
    <3>2. op'[o].pc = "unmap"
      BY <2>3, GotoIs DEF Named
    <3> QED
      BY <3>1, <3>2, NothingToKnow
  <2> QED
    BY <2>1, <2>2, <2>3 DEF AttachLookup
<1> QED
  BY <1>1, <1>2, <1>3, Quietly

\* RestoreAll goes on with the next row.
LEMMA RestoreStep ==
    ASSUME Types, Linked, NEW o \in Admins, RestoreNext(o)
    PROVE  Moves(o) /\ (Calm => Mine(o))
<1>1. op[o].pc = "rows" /\ UNCHANGED <<sessions, session, poller, bots, faults, restarts, overlaps>>
  BY Zenon DEF RestoreNext
<1>2. session' \in [SessionIds -> Session] /\ Steady /\ \A t \in SessionIds : Kept(t)
  BY <1>1, Unchanged
<1>3. OnItsWay(o) /\ Local(o)'
  <2>1. CASE Done(o)
    BY <2>1, IsOver, NothingToKnow
  <2>2. ASSUME NEW r \in op[o].todo,
               NextRow(o, r, IF bots[r.alias].token = NoToken THEN "rows" ELSE "attach",
                       bots[r.alias].token)
        PROVE  OnItsWay(o) /\ Local(o)'
    <3> DEFINE l == IF bots[r.alias].token = NoToken THEN "rows" ELSE "attach"
               k == bots[r.alias].token
    <3>1. op[o] \in Op
      BY DEF Types
    <3>2. r \in RowTodo
      BY <3>1, Zenon DEF Op
    <3>3. l \in {"rows", "attach"} /\ k \in Keys
      BY <3>2 DEF RowTodo, Types, Row
    <3>4. NextRow(o, r, l, k)
      BY <2>2
    <3> HIDE DEF l, k
    <3>5. /\ Alone(o)
          /\ op'[o].pc = l /\ op'[o].alias = r.alias /\ op'[o].todo = op[o].todo \ {r}
          /\ r.alias \in Aliases
      BY <3>3, <3>4, NextRowIs
    <3>6. Touched(o)' \subseteq Touched(o)
      BY <1>1, <3>5 DEF Touched
    <3>7. OpLinks(o)
      BY <3>3, <3>5 DEF OpLinks, WithSession
    <3> QED
      BY <3>3, <3>5, <3>6, <3>7, NothingToKnow DEF OnItsWay
  <2> QED
    BY <2>1, <2>2, Zenon DEF RestoreNext, NextRow
<1> QED
  BY <1>1, <1>2, <1>3, Quietly

\* A step that sets the state of the session of a request.
LEMMA StateStep ==
    ASSUME Types, Linked, NEW o \in Admins, NEW st \in States \ {"new"}, setState(op[o].s, st),
           UNCHANGED <<sessions, poller, bots, faults, restarts, overlaps>>,
           \/ op[o].pc = "repause" /\ Goto(o, "rows")
           \/ op[o].pc = "shut" /\ Goto(o, "kill")
           \/ op[o].pc = "pause" /\ Goto(o, "stop")
           \/ op[o].pc = "relive" /\ Done(o)
           \/ op[o].pc = "drain" /\ Done(o)
    PROVE  Moves(o) /\ (Calm => Mine(o))
<1>1. op[o].pc \in WithSession /\ op[o].pc \in Named /\ op[o].s \in SessionIds
  BY DEF Linked, WithSession, Named
<1>2. session' \in [SessionIds -> Session] /\ Steady /\ \A t \in SessionIds : Kept(t)
  BY <1>1, SetStateIs
<1>3. CASE Done(o) /\ op[o].pc \in {"relive", "drain"}
  BY <1>2, <1>3, IsOver, NothingToKnow, Quietly
<1>4. ASSUME NEW l \in {"rows", "stop"}, op[o].pc \in {"repause", "pause"}, Goto(o, l)
      PROVE  Moves(o) /\ (Calm => Mine(o))
  <2>1. OnItsWay(o)
    BY <1>1, <1>2, <1>4, GoesOn, Zenon DEF Named, WithSession
  <2>2. op'[o].pc = l
    BY <1>4, GotoIs DEF Named, WithSession
  <2>3. Local(o)'
    BY <2>2, NothingToKnow
  <2> QED
    BY <1>2, <1>4, <2>1, <2>3, Quietly
<1>5. CASE op[o].pc = "shut" /\ Goto(o, "kill")
  <2>1. OnItsWay(o)
    BY <1>1, <1>2, <1>5, GoesOn, Zenon DEF Named, WithSession
  <2>2. op'[o].pc = "kill" /\ op'[o].alias = op[o].alias /\ op'[o].s = op[o].s
    BY <1>5, GotoIs DEF Named, WithSession
  <2>3. Calm => Local(o)'
    BY <1>5, <2>2, Zenon DEF Calm, Local
  <2> QED
    BY <1>2, <1>5, <2>1, <2>2, <2>3, Quietly
<1> QED
  BY <1>3, <1>4, <1>5

\* The pollers are kept by a step that changes neither them nor what
\* cancels them.
LEMMA KeepsPollers ==
    ASSUME Types, Linked, Calm, NEW o \in Admins, Alone(o), op[o].pc \notin {"shut", "kill"}, Steady,
           UNCHANGED <<sessions, poller>>,
           \A t \in SessionIds : session'[t].cancel = session[t].cancel,
           \A p \in PollerIds : Running(p) /\ session'[poller[p].of].held => session[poller[p].of].held,
           NEW p \in PollerIds
    PROVE  Owned(p)'
<1> SUFFICES ASSUME Running(p)
             PROVE  /\ session'[poller[p].of].cancel = p /\ ~session'[poller[p].of].held
                    /\ \/ sessions[session'[poller[p].of].alias] = poller[p].of
                       \/ \E x \in Admins : op'[x].pc \in {"shut", "kill"} /\ op'[x].s = poller[p].of
  BY Zenon DEF Owned, Running
<1>1. poller[p].of \in SessionIds /\ session[poller[p].of].state # "new"
  BY DEF Linked, Running
<1>2. Owned(p)
  BY DEF Calm
<1>3. \A x \in Admins : op[x].pc \in {"shut", "kill"} => op'[x].pc \in {"shut", "kill"} /\ op'[x].s = op[x].s
  BY DEF Alone
<1> QED
  BY <1>1, <1>2, <1>3, Zenon DEF Owned, Steady

\* SetPaused changes neither the token of a row nor a row that is not there.
LEMMA SetPausedIs ==
    ASSUME Types, NEW a \in Aliases, NEW v \in BOOLEAN, SetPaused(a, v)
    PROVE  /\ bots' \in [Aliases -> Row]
           /\ \A b \in Aliases : b # a => bots'[b] = bots[b]
           /\ bots'[a].token = bots[a].token /\ (bots[a] = NoRow => bots'[a] = NoRow)
<1>1. bots \in [Aliases -> Row] /\ bots[a] \in Row
  BY DEF Types
<1>2. CASE bots[a].token = NoToken
  BY <1>1, <1>2 DEF SetPaused
<1>3. CASE bots[a].token # NoToken
  <2> DEFINE e == [bots[a] EXCEPT !.paused = v]
  <2>1. bots' = [bots EXCEPT ![a] = e]
    BY <1>1, <1>3 DEF SetPaused
  <2>2. e \in Row /\ e.token = bots[a].token
    BY <1>1 DEF Row
  <2>3. bots[a] # NoRow
    BY <1>3 DEF NoRow
  <2> HIDE DEF e
  <2> QED
    BY <1>1, <2>1, <2>2, <2>3
<1> QED
  BY <1>2, <1>3

\* The end of Pause, and the beginning of Resume.
LEMMA HeldStep ==
    ASSUME Types, Linked, NEW o \in Admins, NEW v \in BOOLEAN, SetPaused(op[o].alias, v),
           session' = [session EXCEPT ![op[o].s].held = v],
           \/ v /\ op[o].pc = "record" /\ Done(o)
           \/ ~v /\ op[o].pc = "resume" /\ Goto(o, "respawn"),
           UNCHANGED <<sessions, poller, faults, restarts, overlaps>>
    PROVE  Moves(o) /\ (Calm => Mine(o))
<1> DEFINE s == op[o].s
           a == op[o].alias
<1>1. /\ op[o].pc \in WithSession /\ op[o].pc \in Named /\ s \in SessionIds /\ a \in Aliases
      /\ session[s].alias = a /\ session[s].state # "new"
  BY DEF Linked, WithSession, Named
<1>2. /\ session' \in [SessionIds -> Session] /\ Steady
      /\ \A t \in SessionIds \ {s} : Kept(t)
      /\ session'[s].held = v /\ session'[s].cancel = session[s].cancel
  BY <1>1, SetHeldIs, Zenon
<1>3. /\ bots' \in [Aliases -> Row]
      /\ \A b \in Aliases : b # a => bots'[b] = bots[b]
      /\ bots'[a].token = bots[a].token /\ (bots[a] = NoRow => bots'[a] = NoRow)
  BY <1>1, SetPausedIs
<1>4. OnItsWay(o)
  BY <1>1, <1>2, GoesOn, IsOver, Zenon DEF WithSession, Named
<1>5. \/ v /\ op[o].pc = "record" /\ op'[o].pc = "idle"
      \/ ~v /\ op[o].pc = "resume" /\ op'[o].pc = "respawn" /\ op'[o].s = s /\ op'[o].alias = a
  BY GotoIs, IsOver DEF Named, WithSession
<1>6. Types'
  BY <1>2, <1>3, <1>4 DEF Types, OnItsWay, Alone
<1>7. Own(o)
  BY <1>1, <1>2, <1>3 DEF Own, RunsOn, Running
<1>8. NewLinks(o)
  BY <1>4 DEF NewLinks, OnItsWay, OpLinks
<1>9. Moves(o)
  BY <1>1, <1>2, <1>4, <1>6, <1>7, <1>8 DEF Moves, OnItsWay, WithSession
<1>10. ASSUME Calm PROVE Mine(o)
  <2>1. Local(o)
    BY <1>10 DEF Calm
  <2>2. Local(o)'
    BY <1>2, <1>5, <2>1 DEF Local
  <2>3. \A t \in SessionIds : session'[t].cancel = session[t].cancel
    BY <1>2 DEF Kept
  <2>4. ASSUME NEW p \in PollerIds, Running(p), session'[poller[p].of].held
        PROVE  session[poller[p].of].held
    <3>1. poller[p].of \in SessionIds
      BY <2>4 DEF Linked, Running
    <3>2. poller[p].of # s
      BY <1>2, <1>5, <2>1, <2>4 DEF Local
    <3> QED
      BY <1>2, <2>4, <3>1, <3>2 DEF Kept
  <2>5. \A p \in PollerIds : Owned(p)'
    BY <1>2, <1>4, <1>5, <1>10, <2>3, <2>4, KeepsPollers DEF OnItsWay
  <2>6. Tabled(a)
    BY <1>1, <1>10 DEF Calm
  <2>7. ASSUME NEW b \in Aliases, b = a PROVE Tabled(b)'
    <3>1. Writing(a) => Writing(b)'
      BY <1>4, <1>5, <2>7 DEF Writing, OnItsWay, Alone
    <3>2. sessions[a] # 0 => sessions[a] \in SessionIds
      BY <1>1, LifecycleAssumption DEF Types, SessionIds
    <3>3. sessions[a] # 0 => session'[sessions[a]].token = session[sessions[a]].token
      BY <1>1, <1>2, <3>2 DEF Linked, Steady
    <3> HIDE DEF a, s
    <3> QED
      BY <1>3, <2>6, <2>7, <3>1, <3>3 DEF Tabled, Agrees
  <2> QED
    BY <2>2, <2>5, <2>7 DEF Mine
<1> QED
  BY <1>9, <1>10

\* A step that writes the row of its alias.
LEMMA RowStep ==
    ASSUME Types, Linked, NEW o \in Admins, op[o].pc \in {"persist", "forget"}, OnItsWay(o),
           bots' \in [Aliases -> Row], \A b \in Aliases : b # op[o].alias => bots'[b] = bots[b],
           UNCHANGED <<sessions, session, poller, restarts, overlaps>>,
           faults' \in Nat, faults' = 0 => faults = 0,
           Calm => Local(o)',
           Calm => \A a \in Aliases : a = op[o].alias => Tabled(a)'
    PROVE  Moves(o) /\ (Calm => Mine(o))
<1>1. session' \in [SessionIds -> Session] /\ Steady /\ \A t \in SessionIds : Kept(t)
  BY Unchanged
<1>2. Types'
  BY DEF Types, OnItsWay, Alone
<1>3. Own(o)
  BY <1>1 DEF Own, RunsOn, Running
<1>4. NewLinks(o)
  BY Zenon DEF NewLinks, OnItsWay, OpLinks
<1>5. Moves(o)
  BY <1>1, <1>2, <1>3, <1>4, Zenon DEF Moves, OnItsWay
<1>6. ASSUME Calm PROVE \A p \in PollerIds : Owned(p)'
  BY <1>1, <1>6, KeepsPollers DEF OnItsWay
<1> QED
  BY <1>5, <1>6 DEF Mine

\* Attach stores the row, or fails to.
LEMMA PersistStep ==
    ASSUME Types, Linked, NEW o \in Admins, AttachPersist(o)
    PROVE  Moves(o) /\ (Calm => Mine(o))
<1> DEFINE a == op[o].alias
           s == op[o].s
<1>1. /\ op[o].pc = "persist" /\ a \in Aliases /\ s \in SessionIds /\ Goto(o, "spawn")
      /\ UNCHANGED <<sessions, session, poller, restarts, overlaps>>
  BY DEF AttachPersist, Linked, Named, WithSession
<1>2. Steady
  BY <1>1, Unchanged
<1>3. OnItsWay(o)
  BY <1>1, <1>2, GoesOn DEF Named, WithSession
<1>4. op'[o].pc = "spawn" /\ op'[o].alias = a /\ op'[o].s = s /\ op'[o].token = op[o].token
  BY <1>1, GotoIs DEF Named, WithSession
<1>5. op[o] \in Op /\ bots \in [Aliases -> Row] /\ bots[a] \in Row /\ faults \in Nat
  BY <1>1 DEF Types
<1>6. Calm => Local(o)'
  BY <1>1, <1>4 DEF Calm, Local
<1>7. CASE bots' = [bots EXCEPT ![a].token = op[o].token] /\ UNCHANGED faults
  <2> DEFINE e == [bots[a] EXCEPT !.token = op[o].token]
  <2>1. bots' = [bots EXCEPT ![a] = e]
    BY <1>5, <1>7
  <2>2. e \in Row /\ e.token = op[o].token
    BY <1>5, Zenon DEF Row, Op
  <2> HIDE DEF e
  <2>3. /\ bots' \in [Aliases -> Row] /\ \A b \in Aliases : b # a => bots'[b] = bots[b]
        /\ bots'[a].token = op[o].token
    BY <1>1, <1>5, <2>1, <2>2
  <2>4. ASSUME Calm, NEW b \in Aliases, b = a PROVE Tabled(b)'
    <3>1. sessions[a] = s /\ session[s].token = op[o].token
      BY <1>1, <2>4, Zenon DEF Calm, Local
    <3>2. s # 0
      BY <1>1, Zero, Zenon
    <3> HIDE DEF a, s
    <3> QED
      BY <1>1, <2>3, <2>4, <3>1, <3>2 DEF Tabled, Agrees
  <2> QED
    BY <1>1, <1>3, <1>5, <1>6, <1>7, <2>3, <2>4, RowStep
<1>8. CASE Fault /\ UNCHANGED bots
  <2>1. faults' \in Nat /\ faults' # 0
    BY <1>5, <1>8 DEF Fault
  <2>2. \A b \in Aliases : Tabled(b)'
    BY <2>1 DEF Tabled
  <2> QED
    BY <1>1, <1>3, <1>5, <1>6, <1>8, <2>1, <2>2, RowStep, Zenon
<1> QED
  BY <1>7, <1>8 DEF AttachPersist

\* Delete removes the row.
LEMMA ForgetStep ==
    ASSUME Types, Linked, NEW o \in Admins, DeleteForget(o)
    PROVE  Moves(o) /\ (Calm => Mine(o))
<1> DEFINE a == op[o].alias
<1>1. /\ op[o].pc = "forget" /\ a \in Aliases /\ bots' = [bots EXCEPT ![a] = NoRow]
      /\ Done(o) \/ Goto(o, "open")
      /\ UNCHANGED <<sessions, session, poller, faults, restarts, overlaps>>
  BY Zenon DEF DeleteForget, Linked, Named, WithSession
<1>2. Steady
  BY <1>1, Unchanged, Zenon
<1>3. OnItsWay(o)
  BY <1>1, <1>2, GoesOn, IsOver, Zenon DEF Named, WithSession
<1>4. op'[o].pc = "idle" \/ (op'[o].pc = "open" /\ op'[o].alias = a)
  BY <1>1, GotoIs, IsOver, Zenon DEF Named, WithSession
<1>5. bots \in [Aliases -> Row] /\ faults \in Nat /\ NoRow \in Row
  BY DEF Types, NoRow, Row, Keys
<1>6. /\ bots' \in [Aliases -> Row] /\ \A b \in Aliases : b # a => bots'[b] = bots[b]
      /\ bots'[a] = NoRow
  BY <1>1, <1>5, Zenon
<1>7. Calm => sessions[a] = 0
  BY <1>1 DEF Calm, Local
<1>8. Calm => Local(o)'
  BY <1>1, <1>4, <1>7, Zenon DEF Local
<1>9. ASSUME Calm, NEW b \in Aliases, b = a PROVE Tabled(b)'
  BY <1>1, <1>6, <1>7, <1>9, Zenon DEF Tabled, Agrees
<1> QED
  BY <1>1, <1>3, <1>5, <1>6, <1>8, <1>9, RowStep, Zenon

\* The table is kept by a step that changes neither the map nor the tokens.
LEMMA KeepsTable ==
    ASSUME Types, Linked, Calm, Steady, UNCHANGED <<sessions, bots, faults, restarts>>,
           NEW a \in Aliases, Writing(a) => Writing(a)'
    PROVE  Tabled(a)'
<1>1. sessions[a] # 0 => sessions[a] \in SessionIds
  BY LifecycleAssumption DEF Types, SessionIds
<1>2. sessions[a] # 0 => session'[sessions[a]].token = session[sessions[a]].token
  BY <1>1 DEF Linked, Steady
<1>3. Tabled(a)
  BY DEF Calm
<1> QED
  BY <1>2, <1>3 DEF Tabled, Agrees

\* Delete and Pause cancel the poller.
LEMMA CancelStep ==
    ASSUME Types, Linked, NEW o \in Admins, pollCancel(op[o].s),
           UNCHANGED <<sessions, session, bots, faults, restarts, overlaps>>,
           \/ op[o].pc = "kill" /\ Goto(o, "forget")
           \/ op[o].pc = "stop" /\ Goto(o, "record")
    PROVE  Moves(o) /\ (Calm => Mine(o))
<1> DEFINE s == op[o].s
<1>1. op[o].pc \in WithSession /\ op[o].pc \in Named /\ s \in SessionIds
  BY DEF Linked, WithSession, Named
<1>2. session' \in [SessionIds -> Session] /\ Steady /\ \A t \in SessionIds : Kept(t)
  BY Unchanged
<1>3. OnItsWay(o)
  BY <1>1, <1>2, GoesOn, Zenon DEF WithSession, Named
<1>4. /\ op'[o].s = s /\ op'[o].alias = op[o].alias
      /\ \/ op[o].pc = "kill" /\ op'[o].pc = "forget"
         \/ op[o].pc = "stop" /\ op'[o].pc = "record"
  BY GotoIs DEF Named, WithSession
<1>5. /\ poller' \in [PollerIds -> Poller]
      /\ \A p \in PollerIds : poller'[p].of = poller[p].of /\ poller'[p].pc = poller[p].pc
      /\ \A p \in PollerIds : Running(p)' => Running(p) /\ session[s].cancel # p
  BY <1>1, CancelIs
<1>6. Types'
  BY <1>2, <1>3, <1>5 DEF Types, OnItsWay, Alone
<1>7. Own(o)
  BY <1>2, <1>5, Zenon DEF Own, RunsOn
<1>8. NewLinks(o)
  BY <1>3, <1>5, Zenon DEF NewLinks, OnItsWay, OpLinks
<1>9. Moves(o)
  BY <1>2, <1>3, <1>4, <1>6, <1>7, <1>8 DEF Moves, OnItsWay
<1>10. ASSUME Calm PROVE Mine(o)
  <2>1. ASSUME NEW p \in PollerIds, Running(p)' PROVE Running(p) /\ Owned(p) /\ poller[p].of # s
    <3>1. Running(p) /\ session[s].cancel # p
      BY <1>5, <2>1, Zenon
    <3>2. Owned(p)
      BY <1>10, Zenon DEF Calm
    <3> QED
      BY <3>1, <3>2, Zenon DEF Owned
  <2>2. Local(o) /\ Local(o)'
    BY <1>4, <1>5, <1>10, <2>1, Zenon DEF Calm, Local
  <2>3. ASSUME NEW p \in PollerIds PROVE Owned(p)'
    <3> SUFFICES ASSUME Running(p)'
                 PROVE  /\ session[poller[p].of].cancel = p /\ ~session[poller[p].of].held
                        /\ \/ sessions[session[poller[p].of].alias] = poller[p].of
                           \/ \E x \in Admins : op'[x].pc \in {"shut", "kill"} /\ op'[x].s = poller[p].of
      BY <1>5, Zenon DEF Owned
    <3>1. \A x \in Admins : op[x].s = poller[p].of => op'[x] = op[x]
      BY <1>3, <2>1, Zenon DEF OnItsWay, Alone
    <3>2. Running(p) /\ Owned(p)
      BY <2>1, Zenon
    <3> QED
      BY <3>1, <3>2, Zenon DEF Owned
  <2>4. ASSUME NEW a \in Aliases PROVE Tabled(a)'
    <3>1. Writing(a) => Writing(a)'
      BY <1>3, <1>4 DEF Writing, OnItsWay, Alone
    <3> QED
      BY <1>2, <1>10, <3>1, KeepsTable
  <2> QED
    BY <2>2, <2>3, <2>4 DEF Mine
<1> QED
  BY <1>9, <1>10

\* Attach and Resume start a poller for a session that has none.
LEMMA SpawnStep ==
    ASSUME Types, Linked, NEW o \in Admins, Spawn(op[o].s), op[o].pc \in {"spawn", "respawn"},
           Calm => session[op[o].s].cancel = 0,
           UNCHANGED <<sessions, bots, faults, restarts, overlaps>>,
           AttachReturns(o, op[o].s) \/ Goto(o, "relive")
    PROVE  Moves(o) /\ (Calm => Mine(o))
<1> DEFINE s == op[o].s
<1>1. /\ op[o].pc \in WithSession /\ op[o].pc \in Named /\ s \in SessionIds
      /\ s \in 0 .. MaxSessions /\ op[o].alias \in Aliases
      /\ session[s].alias = op[o].alias /\ session[s].state # "new"
  BY Zero, Zenon DEF Linked, WithSession, Named
<1>2. /\ session' \in [SessionIds -> Session] /\ Steady
      /\ \A t \in SessionIds \ {s} : Kept(t)
      /\ session'[s].held = session[s].held
      /\ poller' \in [PollerIds -> Poller]
  BY <1>1, SpawnIs, Zenon
<1>3. PICK p \in PollerIds :
          /\ session'[s].cancel = p /\ poller'[p].of = s /\ poller'[p].pc = "boot"
          /\ \A q \in PollerIds \ {p} : poller'[q] = poller[q]
  BY <1>1, SpawnIs, Zenon
<1>4. OnItsWay(o) /\ op'[o].pc \in {"idle", "rows", "repause", "relive"}
  <2>1. CASE AttachReturns(o, s)
    BY <1>1, <1>2, <2>1, HasReturned, Zenon
  <2>2. CASE Goto(o, "relive")
    BY <1>1, <1>2, <2>2, GoesOn, GotoIs, Zenon DEF WithSession, Named
  <2> QED
    BY <2>1, <2>2, Zenon
<1>5. Types'
  BY <1>2, <1>4 DEF Types, OnItsWay, Alone
<1>6. Own(o)
  BY <1>1, <1>2, <1>3, Zenon DEF Own, RunsOn, Running
<1>7. NewLinks(o)
  <2>1. session'[s].alias \in Aliases /\ session'[s].state # "new"
    BY <1>1, <1>2, Zenon DEF Steady
  <2> QED
    BY <1>1, <1>3, <1>4, <2>1, Zenon DEF NewLinks, OnItsWay, OpLinks
<1>8. Moves(o)
  BY <1>1, <1>2, <1>4, <1>5, <1>6, <1>7, Zenon DEF Moves, OnItsWay, WithSession
<1>9. ASSUME Calm PROVE Mine(o)
  <2>1. Local(o) /\ Local(o)'
    BY <1>4, <1>9, NothingToKnow, Zenon DEF Calm
  <2>2. sessions[op[o].alias] = s /\ ~session[s].held
    BY <2>1, Zenon DEF Local
  <2>3. ASSUME NEW q \in PollerIds, q # p PROVE Owned(q)'
    <3> SUFFICES ASSUME Running(q)
                 PROVE  /\ session'[poller[q].of].cancel = q /\ ~session'[poller[q].of].held
                        /\ \/ sessions[session'[poller[q].of].alias] = poller[q].of
                           \/ \E x \in Admins : op'[x].pc \in {"shut", "kill"} /\ op'[x].s = poller[q].of
      BY <1>3, <2>3, Zenon DEF Owned, Running
    <3>1. Owned(q) /\ poller[q].of \in SessionIds /\ session[poller[q].of].state # "new"
      BY <1>9, Zenon DEF Calm, Linked, Running
    <3>2. poller[q].of # s
      BY <1>9, <3>1, Zero, Zenon DEF Owned
    <3>3. \A x \in Admins : op[x].pc \in {"shut", "kill"} => op'[x] = op[x]
      BY <1>4, Zenon DEF OnItsWay, Alone
    <3> QED
      BY <1>2, <3>1, <3>2, <3>3, Zenon DEF Owned, Kept, Steady
  <2>4. Owned(p)'
    BY <1>1, <1>2, <1>3, <2>2, Zenon DEF Owned, Steady
  <2>5. ASSUME NEW a \in Aliases PROVE Tabled(a)'
    <3>1. Writing(a) => Writing(a)'
      BY <1>4, Zenon DEF Writing, OnItsWay, Alone
    <3> QED
      BY <1>2, <1>9, <3>1, KeepsTable, Zenon
  <2> QED
    BY <2>1, <2>3, <2>4, <2>5, Zenon DEF Mine
<1> QED
  BY <1>8, <1>9

\* Delete takes the session out of the map.
LEMMA UnmapStep ==
    ASSUME Types, Linked, NEW o \in Admins, DeleteUnmap(o)
    PROVE  Moves(o) /\ (Calm => Mine(o))
<1> DEFINE a == op[o].alias
           s == sessions[a]
<1>1. /\ op[o].pc = "unmap" /\ a \in Aliases /\ sessions' = [sessions EXCEPT ![a] = 0]
      /\ UNCHANGED <<session, poller, bots, faults, restarts, overlaps>>
      /\ sessions \in [Aliases -> 0 .. MaxSessions] /\ s \in 0 .. MaxSessions
  BY DEF DeleteUnmap, Linked, Named, Types
<1>2. session' \in [SessionIds -> Session] /\ Steady /\ \A t \in SessionIds : Kept(t)
  BY <1>1, Unchanged, Zenon
<1>3. CASE s = 0 /\ (Done(o) \/ Goto(o, "open"))
  <2>1. sessions' = sessions
    BY <1>1, <1>3, Zenon
  <2>2. OnItsWay(o)
    BY <1>1, <1>2, <1>3, GoesOn, IsOver, Zenon DEF Named, WithSession
  <2>3. op'[o].pc = "idle" \/ (op'[o].pc = "open" /\ op'[o].alias = a)
    BY <1>3, GotoIs, IsOver, Zenon DEF Named
  <2>4. Local(o)'
    BY <1>3, <2>1, <2>3, Zenon DEF Local
  <2> QED
    BY <1>1, <1>2, <2>1, <2>2, <2>4, Quietly, Zenon
<1>4. CASE s # 0 /\ op' = [op EXCEPT ![o].pc = "shut", ![o].s = s]
  <2>1. Alone(o) /\ op'[o].pc = "shut" /\ op'[o].alias = a /\ op'[o].s = s /\ op'[o].todo = op[o].todo
    <3>1. Takes(o, "shut", s)
      BY <1>4, Zenon DEF Takes
    <3>2. "shut" \in Named
      BY DEF Named, WithSession
    <3>3. s \in 0 .. MaxSessions
      BY <1>1
    <3> HIDE DEF s
    <3> QED
      BY <3>1, <3>2, <3>3, TakesIs
  <2>2. s \in SessionIds /\ session[s].alias = a /\ session[s].state # "new"
    BY <1>1, <1>4, Zero, Zenon DEF Linked
  <2>3. /\ sessions' \in [Aliases -> 0 .. MaxSessions] /\ sessions'[a] = 0
        /\ \A b \in Aliases : b # a => sessions'[b] = sessions[b]
    BY <1>1, LifecycleAssumption
  <2>4. Touched(o)' \subseteq Touched(o)
    BY <1>1, <2>1 DEF Touched
  <2>5. Types'
    BY <1>1, <2>1, <2>3 DEF Types, Alone
  <2>6. Own(o)
    BY <1>1, <1>2, <2>3 DEF Own, RunsOn, Running
  <2>7. NewLinks(o)
    BY <1>1, <2>1, <2>2, <2>3, Zenon DEF NewLinks
  <2>8. Moves(o)
    BY <1>1, <1>2, <2>1, <2>4, <2>5, <2>6, <2>7, Zenon DEF Moves
  <2>9. ASSUME Calm PROVE Mine(o)
    <3>1. Local(o)'
      BY <2>1, <2>3 DEF Local
    <3>2. ASSUME NEW p \in PollerIds PROVE Owned(p)'
      <4> SUFFICES ASSUME Running(p)
                   PROVE  /\ session[poller[p].of].cancel = p /\ ~session[poller[p].of].held
                          /\ \/ sessions'[session[poller[p].of].alias] = poller[p].of
                             \/ \E x \in Admins : op'[x].pc \in {"shut", "kill"} /\ op'[x].s = poller[p].of
        BY <1>1, Zenon DEF Owned, Running
      <4>1. Owned(p) /\ session[poller[p].of].alias \in Aliases
        BY <2>9, Zenon DEF Calm, Linked, Running
      <4>2. \A x \in Admins : op[x].pc \in {"shut", "kill"} => op'[x] = op[x]
        BY <1>1, <2>1, Zenon DEF Alone
      <4>3. CASE session[poller[p].of].alias = a /\ sessions[a] = poller[p].of
        BY <2>1, <4>1, <4>3, Zenon DEF Owned
      <4>4. CASE ~(session[poller[p].of].alias = a /\ sessions[a] = poller[p].of)
        BY <2>3, <4>1, <4>2, <4>4 DEF Owned
      <4> QED
        BY <4>3, <4>4, Zenon
    <3>3. ASSUME NEW b \in Aliases, b = a PROVE Tabled(b)'
      BY <2>1, <3>3 DEF Tabled, Writing
    <3> QED
      BY <3>1, <3>2, <3>3 DEF Mine
  <2> QED
    BY <2>8, <2>9
<1> QED
  BY <1>3, <1>4 DEF DeleteUnmap

\* Attach creates the session and puts it in the map, or fails to.
LEMMA OpenStep ==
    ASSUME Types, Linked, NEW o \in Admins, AttachOpen(o)
    PROVE  Moves(o) /\ (Calm => Mine(o))
<1> DEFINE a == op[o].alias
<1>1. /\ op[o].pc = "open" /\ a \in Aliases /\ UNCHANGED <<poller, bots, restarts, overlaps>>
      /\ op[o] \in Op /\ session \in [SessionIds -> Session] /\ faults \in Nat
      /\ sessions \in [Aliases -> 0 .. MaxSessions]
  BY DEF AttachOpen, Linked, Named, Types
<1>2. CASE Fault /\ AttachReturns(o, 0) /\ UNCHANGED <<session, sessions>>
  <2>1. session' \in [SessionIds -> Session] /\ Steady /\ \A t \in SessionIds : Kept(t)
    BY <1>2, Unchanged
  <2>2. OnItsWay(o) /\ op'[o].pc \in {"idle", "rows", "repause"}
    <3>1. 0 \in 0 .. MaxSessions
      BY LifecycleAssumption
    <3>2. op[o].pc \in Named
      BY <1>1 DEF Named
    <3> QED
      BY <1>1, <1>2, <2>1, <3>1, <3>2, HasReturned, Zenon
  <2>3. faults' \in Nat /\ faults' # 0
    BY <1>1, <1>2 DEF Fault
  <2>4. Types'
    BY <1>1, <1>2, <2>2, <2>3 DEF Types, OnItsWay, Alone
  <2>5. Own(o)
    BY <1>1, <1>2, <2>1, Zenon DEF Own, RunsOn, Running
  <2>6. NewLinks(o)
    BY <1>1, <1>2, <2>2, Zenon DEF NewLinks, OnItsWay, OpLinks
  <2>7. Moves(o)
    BY <1>1, <2>1, <2>2, <2>3, <2>4, <2>5, <2>6, Zenon DEF Moves, OnItsWay
  <2>8. Local(o)'
    BY <2>2, NothingToKnow
  <2>9. Calm => \A p \in PollerIds : Owned(p)'
    BY <1>1, <1>2, <2>1, <2>2, KeepsPollers, Zenon DEF OnItsWay
  <2>10. \A b \in Aliases : Tabled(b)'
    BY <2>3 DEF Tabled
  <2> QED
    BY <2>7, <2>8, <2>9, <2>10 DEF Mine
<1> DEFINE new == [alias |-> a, token |-> op[o].token, state |-> "connecting",
                   cancel |-> 0, held |-> FALSE]
<1>3. ASSUME NEW s \in SessionIds, FreshSession(s), session' = [session EXCEPT ![s] = new],
             sessions' = [sessions EXCEPT ![a] = s],
             op' = [op EXCEPT ![o].pc = "persist", ![o].s = s], UNCHANGED faults
      PROVE  Moves(o) /\ (Calm => Mine(o))
  <2>1. /\ new \in Session /\ new.alias = a /\ new.token = op[o].token /\ new.state # "new"
        /\ new.cancel = 0 /\ ~new.held
    <3>1. a \in Names /\ op[o].token \in Keys
      BY <1>1, Zenon DEF Op
    <3>2. 0 \in 0 .. MaxPollers
      BY LifecycleAssumption
    <3>3. "connecting" \in States
      BY DEF States
    <3> QED
      BY <3>1, <3>2, <3>3 DEF Session
  <2> HIDE DEF new
  <2>2. s \in 0 .. MaxSessions /\ s # 0 /\ session[s].state = "new"
    BY <1>3, LifecycleAssumption DEF SessionIds, FreshSession
  <2>3. /\ session' \in [SessionIds -> Session] /\ session'[s] = new
        /\ \A t \in SessionIds : t # s => session'[t] = session[t]
    BY <1>1, <1>3, <2>1
  <2>4. /\ sessions' \in [Aliases -> 0 .. MaxSessions] /\ sessions'[a] = s
        /\ \A b \in Aliases : b # a => sessions'[b] = sessions[b]
    BY <1>1, <1>3, <2>2
  <2>5. /\ Alone(o) /\ op'[o].pc = "persist" /\ op'[o].alias = a /\ op'[o].s = s
        /\ op'[o].todo = op[o].todo /\ op'[o].token = op[o].token
    <3>1. Takes(o, "persist", s)
      BY <1>3, Zenon DEF Takes
    <3>2. "persist" \in Named
      BY DEF Named, WithSession
    <3> QED
      BY <2>2, <3>1, <3>2, TakesIs
  <2>6. Steady /\ \A t \in SessionIds : session[t].state # "new" => Kept(t)
    BY <2>2, <2>3, Zenon DEF Steady, Kept
  <2>7. Touched(o)' \subseteq Touched(o)
    BY <1>1, <2>5 DEF Touched
  <2>8. Types'
    BY <1>1, <1>3, <2>3, <2>4, <2>5 DEF Types, Alone
  <2>9. Own(o)
    BY <1>1, <2>4, <2>6, Zenon DEF Own, RunsOn, Running
  <2>10. NewLinks(o)
    BY <1>1, <2>1, <2>3, <2>4, <2>5, Zenon DEF NewLinks
  <2>11. Moves(o)
    BY <1>1, <1>3, <2>5, <2>6, <2>7, <2>8, <2>9, <2>10 DEF Moves
  <2>12. ASSUME Calm PROVE Mine(o)
    <3>1. Local(o)'
      BY <2>1, <2>3, <2>4, <2>5, Zenon DEF Local
    <3>2. ASSUME NEW p \in PollerIds PROVE Owned(p)'
      <4> SUFFICES ASSUME Running(p)
                   PROVE  /\ session'[poller[p].of].cancel = p /\ ~session'[poller[p].of].held
                          /\ \/ sessions'[session'[poller[p].of].alias] = poller[p].of
                             \/ \E x \in Admins : op'[x].pc \in {"shut", "kill"} /\ op'[x].s = poller[p].of
        BY <1>1, Zenon DEF Owned, Running
      <4>1. /\ Owned(p) /\ poller[p].of \in SessionIds /\ session[poller[p].of].alias \in Aliases
            /\ session[poller[p].of].state # "new"
        BY <2>12, Zenon DEF Calm, Linked, Running
      <4>2. session'[poller[p].of] = session[poller[p].of]
        BY <2>2, <2>3, <4>1, Zenon
      <4>3. sessions[a] = 0 /\ poller[p].of # 0
        BY <1>1, <2>12, <4>1, Zero, Zenon DEF Calm, Local
      <4>4. \A x \in Admins : op[x].pc \in {"shut", "kill"} => op'[x] = op[x]
        BY <1>1, <2>5 DEF Alone
      <4> QED
        BY <2>4, <4>1, <4>2, <4>3, <4>4, Zenon DEF Owned
    <3>3. ASSUME NEW b \in Aliases, b = a PROVE Tabled(b)'
      BY <2>5, <3>3 DEF Tabled, Writing
    <3> QED
      BY <3>1, <3>2, <3>3 DEF Mine
  <2> QED
    BY <2>11, <2>12
<1> QED
  BY <1>2, <1>3 DEF AttachOpen

\* Every step of a request keeps the invariant.
LEMMA AdminKeeps ==
    ASSUME LifecycleInv, NEW o \in Admins, AdminStep(o)
    PROVE  LifecycleInv'
<1>0. Types /\ Linked
  BY DEF LifecycleInv
<1> SUFFICES Moves(o) /\ (Calm => Mine(o))
  BY AdminFrame
<1>1. CASE AttachLookup(o)
  BY <1>0, <1>1, LookupStep
<1>2. CASE AttachOpen(o)
  BY <1>0, <1>2, OpenStep
<1>3. CASE AttachPersist(o)
  BY <1>0, <1>3, PersistStep
<1>4. CASE AttachSpawn(o)
  <2>1. Calm => session[op[o].s].cancel = 0
    BY <1>4, Zenon DEF AttachSpawn, Calm, Local
  <2> QED
    BY <1>0, <1>4, <2>1, SpawnStep DEF AttachSpawn
<1>5. CASE RestoreNext(o)
  BY <1>0, <1>5, RestoreStep
<1>6. CASE RestorePaused(o)
  BY <1>0, <1>6, StateStep, Zenon DEF RestorePaused, States
<1>7. CASE DeleteUnmap(o)
  BY <1>0, <1>7, UnmapStep
<1>8. CASE DeleteDrain(o)
  BY <1>0, <1>8, StateStep, Zenon DEF DeleteDrain, States
<1>9. CASE DeleteCancel(o)
  BY <1>0, <1>9, CancelStep DEF DeleteCancel
<1>10. CASE DeleteForget(o)
  BY <1>0, <1>10, ForgetStep
<1>11. CASE PauseState(o)
  BY <1>0, <1>11, StateStep, Zenon DEF PauseState, States
<1>12. CASE PauseCancel(o)
  BY <1>0, <1>12, CancelStep DEF PauseCancel
<1>13. CASE PauseRecord(o)
  BY <1>0, <1>13, HeldStep, Zenon DEF PauseRecord
<1>14. CASE ResumeRecord(o)
  BY <1>0, <1>14, HeldStep, Zenon DEF ResumeRecord
<1>15. CASE ResumeSpawn(o)
  <2>1. /\ op[o].pc = "respawn" /\ Goto(o, "relive")
        /\ UNCHANGED <<sessions, bots, faults, restarts, overlaps>>
    BY <1>15 DEF ResumeSpawn
  <2>2. CASE session[op[o].s].cancel = 0
    BY <1>0, <1>15, <2>1, <2>2, SpawnStep, Zenon DEF ResumeSpawn
  <2>3. CASE session[op[o].s].cancel # 0
    <3>1. UNCHANGED <<session, poller>>
      BY <1>15, <2>3 DEF ResumeSpawn
    <3>2. session' \in [SessionIds -> Session] /\ Steady /\ \A t \in SessionIds : Kept(t)
      BY <1>0, <3>1, Unchanged
    <3>3. OnItsWay(o)
      BY <1>0, <2>1, <3>2, GoesOn, Zenon DEF Named, WithSession
    <3>4. op'[o].pc = "relive"
      BY <1>0, <2>1, GotoIs, Zenon DEF Named, WithSession
    <3>5. Local(o)'
      BY <3>4, NothingToKnow
    <3> QED
      BY <1>0, <2>1, <3>1, <3>2, <3>3, <3>5, Quietly, Zenon
  <2> QED
    BY <2>2, <2>3
<1>16. CASE ResumeState(o)
  BY <1>0, <1>16, StateStep, Zenon DEF ResumeState, States
<1>17. CASE DrainState(o)
  BY <1>0, <1>17, StateStep, Zenon DEF DrainState, States
<1> QED
  BY <1>1, <1>2, <1>3, <1>4, <1>5, <1>6, <1>7, <1>8, <1>9, <1>10, <1>11, <1>12, <1>13, <1>14,
     <1>15, <1>16, <1>17 DEF AdminStep

-----------------------------------------------------------------------------
(* The arrival of a request *)

\* What a request r may start as.
Arriving(r) ==
    /\ r \in Op
    /\ r.pc \in {"attach", "unmap", "rows", "pause", "resume", "drain"}
    /\ r.pc # "rows" => r.alias \in Aliases
    /\ r.pc \in {"pause", "resume", "drain"} => r.s = sessions[r.alias] /\ r.s # 0

\* A request arrives; if it shares no alias with another, none do.
LEMMA BeginKeeps ==
    ASSUME LifecycleInv, NEW o \in Admins, NEW r, Arriving(r), Begin(o, r)
    PROVE  LifecycleInv'
<1> DEFINE own == {r.alias} \cup {b.alias : b \in r.todo}
           shared == {a \in own : \E x \in Admins \ {o} : a \in Touched(x)}
<1>1. /\ Types /\ Linked /\ op[o].pc = "idle" /\ op' = [op EXCEPT ![o] = r]
      /\ UNCHANGED <<sessions, session, poller, bots, faults, restarts>>
      /\ overlaps' = overlaps + (IF shared = {} THEN 0 ELSE 1) /\ overlaps \in Nat
  BY DEF LifecycleInv, Begin, Types
<1>2. op \in [Admins -> Op] /\ r \in Op
  BY <1>1 DEF Types, Arriving
<1>3. Alone(o) /\ op'[o] = r
  BY <1>1, <1>2 DEF Alone
<1>4. overlaps' \in Nat /\ (overlaps' = 0 => overlaps = 0 /\ shared = {})
  BY <1>1
<1>5. session' \in [SessionIds -> Session] /\ Steady /\ \A t \in SessionIds : Kept(t)
  BY <1>1, Unchanged, Zenon
<1>6. Types'
  BY <1>1, <1>3, <1>4, Zenon DEF Types, Alone
<1>7. r.pc \in {"pause", "resume", "drain"} =>
          r.s \in SessionIds /\ session[r.s].alias = r.alias /\ session[r.s].state # "new"
  <2>1. \A a \in Aliases : sessions[a] # 0 => sessions[a] \in SessionIds
    BY <1>1, Zero DEF Types
  <2> QED
    BY <1>1, <2>1, Zenon DEF Arriving, Linked
<1>8. NewLinks(o)
  BY <1>1, <1>3, <1>7, Zenon DEF NewLinks, Arriving, Named, WithSession
<1>9. Linked'
  BY <1>1, <1>3, <1>5, <1>8, LinkedFrame, Zenon
<1>10. ASSUME overlaps' = 0 PROVE Calm'
  <2>1. Calm /\ shared = {}
    BY <1>4, <1>10 DEF LifecycleInv
  <2>2. Touched(o)' = own
    BY <1>3 DEF Touched, Arriving
  <2>3. \A x \in Admins \ {o} : Touched(x)' = Touched(x)
    BY <1>3 DEF Touched, Alone
  <2>4. \A x \in Admins \ {o} : own \cap Touched(x) = {}
    BY <2>1
  <2> HIDE DEF own, shared
  <2>5. Excl'
    BY <2>1, <2>2, <2>3, <2>4 DEF Excl, Calm
  <2>6. Local(o)'
    BY <1>1, <1>3, Zenon DEF Local, Arriving
  <2>7. ASSUME NEW x \in Admins, x # o PROVE Local(x)'
    <3>1. Local(x) /\ op'[x] = op[x]
      BY <1>3, <2>1, <2>7 DEF Calm, Alone
    <3> QED
      BY <1>1, <3>1, Zenon DEF Local, Running
  <2>8. \A p \in PollerIds : Owned(p)'
    BY <1>1, <1>3, <1>5, <2>1, KeepsPollers
  <2>9. ASSUME NEW a \in Aliases PROVE Tabled(a)'
    <3>1. Writing(a) => Writing(a)'
      BY <1>1, <1>3 DEF Writing, Alone
    <3> QED
      BY <1>1, <1>5, <2>1, <3>1, KeepsTable
  <2> QED
    BY <2>5, <2>6, <2>7, <2>8, <2>9 DEF Calm
<1> QED
  BY <1>6, <1>9, <1>10 DEF LifecycleInv

Start(l, k, a) == [NoOp EXCEPT !.pc = l, !.kind = k, !.alias = a]

\* A request starts from NoOp, field by field.
LEMMA Started ==
    ASSUME NEW l \in Named, NEW a \in Aliases,
           NEW k \in {"register", "restore", "delete", "pause", "resume", "drain"}
    PROVE  Start(l, k, a) \in Op /\ Start(l, k, a).pc = l /\ Start(l, k, a).alias = a
<1> DEFINE e1 == [NoOp EXCEPT !.pc = l]
           e2 == [e1 EXCEPT !.kind = k]
           e3 == [e2 EXCEPT !.alias = a]
<1>1. NoOp \in Op
  BY LifecycleAssumption DEF NoOp, Op, Names, Keys
<1>2. Start(l, k, a) = e3
  BY DEF NoOp, Start
<1>3. e1 \in Op /\ e1.pc = l
  BY <1>1, Zenon DEF Op
<1> HIDE DEF e1
<1>4. e2 \in Op /\ e2.pc = l
  BY <1>3, Zenon DEF Op
<1> HIDE DEF e2
<1>5. e3 \in Op /\ e3.pc = l /\ e3.alias = a
  BY <1>4, Zenon DEF Op, Names
<1> HIDE DEF e3
<1> QED
  BY <1>2, <1>5

\* Every request arrives as one of these.
LEMMA Arrivals ==
    ASSUME Types, NEW a \in Aliases
    PROVE  /\ \A t \in Tokens :
                 Arriving([NoOp EXCEPT !.pc = "attach", !.kind = "register", !.alias = a, !.token = t])
           /\ Arriving([NoOp EXCEPT !.pc = "unmap", !.kind = "delete", !.alias = a])
           /\ \A l \in {"pause", "resume", "drain"} : sessions[a] # 0 =>
                 Arriving([NoOp EXCEPT !.pc = l, !.kind = l, !.alias = a, !.s = sessions[a]])
<1>1. sessions[a] \in 0 .. MaxSessions
  BY DEF Types
<1>2. ASSUME NEW t \in Tokens
      PROVE  Arriving([NoOp EXCEPT !.pc = "attach", !.kind = "register", !.alias = a, !.token = t])
  <2> DEFINE r == Start("attach", "register", a)
             e == [r EXCEPT !.token = t]
  <2>1. r \in Op /\ r.pc = "attach" /\ r.alias = a
    BY Started, Zenon DEF Named
  <2>2. [NoOp EXCEPT !.pc = "attach", !.kind = "register", !.alias = a, !.token = t] = e
    BY DEF NoOp, Start
  <2> HIDE DEF r
  <2>3. e \in Op /\ e.pc = "attach" /\ e.alias = a
    BY <2>1, Zenon DEF Op, Keys
  <2> HIDE DEF e
  <2> QED
    BY <2>2, <2>3 DEF Arriving
<1>3. Arriving([NoOp EXCEPT !.pc = "unmap", !.kind = "delete", !.alias = a])
  <2> DEFINE r == Start("unmap", "delete", a)
  <2>1. r \in Op /\ r.pc = "unmap" /\ r.alias = a
    BY Started DEF Named
  <2> HIDE DEF r
  <2>2. Arriving(r)
    BY <2>1 DEF Arriving
  <2> QED
    BY <2>2, Zenon DEF r, Start
<1>4. ASSUME NEW l \in {"pause", "resume", "drain"}, sessions[a] # 0
      PROVE  Arriving([NoOp EXCEPT !.pc = l, !.kind = l, !.alias = a, !.s = sessions[a]])
  <2> DEFINE r == Start(l, l, a)
             e == [r EXCEPT !.s = sessions[a]]
  <2>0. l \in Named /\ l \in {"register", "restore", "delete", "pause", "resume", "drain"}
    BY DEF Named, WithSession
  <2>1. r \in Op /\ r.pc = l /\ r.alias = a
    BY <2>0, Started, Zenon
  <2>2. [NoOp EXCEPT !.pc = l, !.kind = l, !.alias = a, !.s = sessions[a]] = e
    BY Zenon DEF NoOp, Start
  <2> HIDE DEF r
  <2>3. e \in Op /\ e.pc = l /\ e.alias = a /\ e.s = sessions[a]
    BY <1>1, <2>1, Zenon DEF Op
  <2> HIDE DEF e
  <2> QED
    BY <1>4, <2>2, <2>3 DEF Arriving
<1> QED
  BY <1>2, <1>3, <1>4, Zenon

\* RestoreAll starts with the rows of the table.
LEMMA RestoreArrives ==
    ASSUME Types
    PROVE  Arriving(Restore) /\ Restore.pc = "rows"
<1>1. ListBots \in SUBSET RowTodo
  BY DEF ListBots, RowTodo, Types, Row
<1>2. "" \in Names /\ NoToken \in Keys /\ 0 \in 0 .. MaxSessions
  BY LifecycleAssumption DEF Names, Keys
<1> DEFINE e1 == [NoOp EXCEPT !.pc = "rows"]
           e2 == [e1 EXCEPT !.kind = "restore"]
           e3 == [e2 EXCEPT !.todo = ListBots]
<1>3. NoOp \in Op
  BY <1>2, Zenon DEF NoOp, Op
<1>4. Restore = e3
  BY DEF Restore, NoOp
<1>5. e1 \in Op /\ e1.pc = "rows"
  BY <1>3, Zenon DEF Op
<1> HIDE DEF e1
<1>6. e2 \in Op /\ e2.pc = "rows"
  BY <1>5, Zenon DEF Op
<1> HIDE DEF e2
<1>7. e3 \in Op /\ e3.pc = "rows"
  BY <1>1, <1>6, Zenon DEF Op
<1> HIDE DEF e3
<1> QED
  BY <1>4, <1>7 DEF Arriving

-----------------------------------------------------------------------------
(* The pollers and the restart *)

\* A poller that goes to l runs on or ends.
LEMMA PGotoIs ==
    ASSUME Types, NEW p \in PollerIds, NEW l \in {"loop", "poll", "backoff", "recover", "exit"},
           PGoto(p, l), poller[p].pc \notin {"none", "exit"}
    PROVE  /\ poller' \in [PollerIds -> Poller]
           /\ \A q \in PollerIds : poller'[q].of = poller[q].of
           /\ \A q \in PollerIds : poller'[q].pc # "none" => poller[q].pc # "none"
           /\ \A q \in PollerIds : Running(q)' => Running(q)
<1> DEFINE e == [poller[p] EXCEPT !.pc = l]
<1>1. poller \in [PollerIds -> Poller] /\ poller[p] \in Poller
  BY DEF Types
<1>2. e \in Poller /\ e.of = poller[p].of /\ e.cancelled = poller[p].cancelled /\ e.pc = l
  BY <1>1 DEF Poller
<1>3. poller' = [poller EXCEPT ![p] = e]
  BY <1>1 DEF PGoto
<1> HIDE DEF e
<1>4. poller' \in [PollerIds -> Poller] /\ poller'[p] = e
      /\ \A q \in PollerIds \ {p} : poller'[q] = poller[q]
  BY <1>1, <1>2, <1>3
<1>5. \A q \in PollerIds : Running(q)' => Running(q)
  BY <1>2, <1>4 DEF Running
<1> QED
  BY <1>2, <1>4, <1>5

\* A step of a poller keeps the invariant.
LEMMA PollerKeeps ==
    ASSUME LifecycleInv, NEW p \in PollerIds, PollerStep(p)
    PROVE  LifecycleInv'
<1>1. Types /\ Linked /\ UNCHANGED <<sessions, bots, op, faults, restarts, overlaps>>
  BY Zenon DEF LifecycleInv, PollerStep, PollerBoot, PollerLoop, PollFails, PollAnswered, PollerBackoff,
         PollEmpty, PollerRecover, others
<1>2. PICK l \in {"loop", "poll", "backoff", "recover", "exit"} :
          PGoto(p, l) /\ poller[p].pc \notin {"none", "exit"}
  BY Zenon DEF PollerStep, PollerBoot, PollerLoop, PollFails, PollAnswered, PollerBackoff, PollEmpty,
         PollerRecover
<1>3. UNCHANGED session \/ \E st \in {"live", "error"} : setState(poller[p].of, st)
  BY Zenon DEF PollerStep, PollerBoot, PollerLoop, PollFails, PollAnswered, PollerBackoff, PollEmpty,
         PollerRecover
<1>4. /\ poller' \in [PollerIds -> Poller]
      /\ \A q \in PollerIds : poller'[q].of = poller[q].of
      /\ \A q \in PollerIds : poller'[q].pc # "none" => poller[q].pc # "none"
      /\ \A q \in PollerIds : Running(q)' => Running(q)
  BY <1>1, <1>2, PGotoIs, Zenon
<1>5. poller[p].of \in SessionIds
  BY <1>1, <1>2 DEF Linked
<1>6. session' \in [SessionIds -> Session] /\ Steady /\ \A t \in SessionIds : Kept(t)
  BY <1>1, <1>3, <1>5, SetStateIs, Unchanged DEF States
<1>7. Types'
  BY <1>1, <1>4, <1>6 DEF Types
<1>8. \A a \in Aliases : sessions[a] # 0 => sessions[a] \in SessionIds
  BY <1>1, LifecycleAssumption DEF Types, SessionIds
<1>9. Linked'
  <2>1. \A a \in Aliases : sessions'[a] # 0 =>
            session'[sessions'[a]].alias = a /\ session'[sessions'[a]].state # "new"
    BY <1>1, <1>6, <1>8, Zenon DEF Linked, Steady
  <2>2. \A x \in Admins : op'[x].pc \in WithSession =>
            /\ op'[x].s \in SessionIds /\ session'[op'[x].s].alias = op'[x].alias
            /\ session'[op'[x].s].state # "new"
    BY <1>1, <1>6, Zenon DEF Linked, Steady
  <2>3. \A q \in PollerIds : poller'[q].pc # "none" =>
            /\ poller'[q].of \in SessionIds /\ session'[poller'[q].of].alias \in Aliases
            /\ session'[poller'[q].of].state # "new"
    <3> SUFFICES ASSUME NEW q \in PollerIds, poller'[q].pc # "none"
                 PROVE  /\ poller[q].of \in SessionIds /\ session'[poller[q].of].alias \in Aliases
                        /\ session'[poller[q].of].state # "new"
      BY <1>4, Zenon
    <3>1. /\ poller[q].of \in SessionIds /\ session[poller[q].of].alias \in Aliases
          /\ session[poller[q].of].state # "new"
      BY <1>1, <1>4, Zenon DEF Linked
    <3> QED
      BY <1>6, <3>1, Zenon DEF Steady
  <2>4. \A x \in Admins : op'[x].pc \in Named => op'[x].alias \in Aliases
    BY <1>1, Zenon DEF Linked
  <2> QED
    BY <2>1, <2>2, <2>3, <2>4, Zenon DEF Linked
<1>10. ASSUME overlaps' = 0 PROVE Calm'
  <2>1. Calm
    BY <1>1, <1>10 DEF LifecycleInv
  <2>2. Excl'
    BY <1>1, <2>1, Zenon DEF Calm, Excl, Touched
  <2>3. ASSUME NEW x \in Admins PROVE Local(x)'
    <3>1. Local(x)
      BY <2>1 DEF Calm
    <3>2. op[x].pc \in WithSession =>
              Kept(op[x].s) /\ session'[op[x].s].token = session[op[x].s].token
      BY <1>1, <1>6, Zenon DEF Linked, Steady
    <3> QED
      BY <1>1, <1>4, <3>1, <3>2, Zenon DEF Local, Kept, WithSession
  <2>4. ASSUME NEW q \in PollerIds PROVE Owned(q)'
    <3> SUFFICES ASSUME Running(q)
                 PROVE  /\ session'[poller[q].of].cancel = q /\ ~session'[poller[q].of].held
                        /\ \/ sessions[session'[poller[q].of].alias] = poller[q].of
                           \/ \E x \in Admins : op[x].pc \in {"shut", "kill"} /\ op[x].s = poller[q].of
      BY <1>1, <1>4, Zenon DEF Owned
    <3>1. Owned(q) /\ poller[q].of \in SessionIds /\ session[poller[q].of].state # "new"
      BY <1>1, <2>1, Zenon DEF Calm, Linked, Running
    <3> QED
      BY <1>6, <3>1, Zenon DEF Owned, Kept, Steady
  <2>5. \A a \in Aliases : Tabled(a)'
    BY <1>1, <1>6, <2>1, KeepsTable DEF Writing
  <2> QED
    BY <2>2, <2>3, <2>4, <2>5 DEF Calm
<1> QED
  BY <1>7, <1>9, <1>10 DEF LifecycleInv

\* What the process starts with, at Init and at a restart.
Blank ==
    /\ sessions = [a \in Aliases |-> 0]
    /\ session = [s \in SessionIds |-> NoSession]
    /\ poller = [p \in PollerIds |-> NoPoller]
    /\ \A o \in Admins : op[o].pc \in {"idle", "rows"}
    /\ \A x, y \in Admins : x # y => op[x].pc = "idle" \/ op[y].pc = "idle"

\* What holds of it.
Settled ==
    /\ sessions \in [Aliases -> 0 .. MaxSessions] /\ session \in [SessionIds -> Session]
    /\ poller \in [PollerIds -> Poller]
    /\ Linked /\ Excl /\ (\A x \in Admins : Local(x)) /\ (\A p \in PollerIds : Owned(p))
    /\ \A a \in Aliases : sessions[a] = 0

\* A process that has just started has nothing to link.
LEMMA BlankIs == Blank => Settled
<1> SUFFICES ASSUME Blank PROVE Settled
  OBVIOUS
<1>1. NoSession \in Session /\ NoPoller \in Poller /\ NoPoller.pc = "none" /\ 0 \in 0 .. MaxSessions
  BY LifecycleAssumption DEF NoSession, Session, Names, Keys, States, NoPoller, Poller
<1>2. /\ sessions \in [Aliases -> 0 .. MaxSessions] /\ session \in [SessionIds -> Session]
      /\ poller \in [PollerIds -> Poller] /\ (\A p \in PollerIds : poller[p].pc = "none")
      /\ \A a \in Aliases : sessions[a] = 0
  BY <1>1 DEF Blank
<1>3. Linked
  BY <1>2, Zenon DEF Linked, Blank, Named, WithSession
<1>4. Excl
  BY DEF Excl, Touched, Blank
<1>5. \A x \in Admins : Local(x)
  BY Zenon DEF Local, Blank
<1>6. \A p \in PollerIds : Owned(p)
  BY <1>2 DEF Owned, Running
<1> QED
  BY <1>2, <1>3, <1>4, <1>5, <1>6 DEF Settled

\* The first state.
LEMMA InitHolds ==
    ASSUME Init
    PROVE  LifecycleInv
<1>1. NoOp \in Op /\ NoOp.pc = "idle" /\ NoRow \in Row
  <2>1. 0 \in 0 .. MaxSessions
    BY LifecycleAssumption
  <2> QED
    BY <2>1 DEF NoOp, Op, Names, Keys, NoRow, Row
<1>2. op \in [Admins -> Op] /\ (\A o \in Admins : op[o].pc = "idle") /\ bots \in [Aliases -> Row]
      /\ \A a \in Aliases : bots[a] = NoRow
  BY <1>1 DEF Init
<1>3. Blank
  BY <1>2 DEF Init, Blank
<1>4. Types
  BY <1>2, <1>3, BlankIs DEF Types, Init, Settled
<1>5. \A a \in Aliases : Tabled(a)
  BY <1>2, <1>3, BlankIs DEF Tabled, Agrees, Settled
<1> QED
  BY <1>3, <1>4, <1>5, BlankIs DEF LifecycleInv, Calm, Settled

\* A restart: only the table survives, and the boot sequence is alone.
LEMMA RestartKeeps ==
    ASSUME LifecycleInv, Restart
    PROVE  LifecycleInv'
<1>1. Types /\ UNCHANGED <<bots, faults, overlaps>> /\ restarts' = restarts + 1 /\ restarts \in Nat
  BY DEF LifecycleInv, Restart, Types
<1>2. NoOp \in Op /\ NoOp.pc = "idle"
  BY LifecycleAssumption DEF NoOp, Op, Names, Keys
<1>3. Restore \in Op /\ Restore.pc = "rows"
  BY <1>1, RestoreArrives DEF Arriving
<1>4. /\ op' \in [Admins -> Op] /\ \A o \in Admins : op'[o].pc \in {"idle", "rows"}
      /\ \A x, y \in Admins : x # y => op'[x].pc = "idle" \/ op'[y].pc = "idle"
  <2>1. CASE op' = [o \in Admins |-> NoOp]
    BY <1>2, <2>1
  <2>2. ASSUME NEW boot \in Admins, op' = [o \in Admins |-> IF o = boot THEN Restore ELSE NoOp]
        PROVE  /\ op' \in [Admins -> Op] /\ \A o \in Admins : op'[o].pc \in {"idle", "rows"}
               /\ \A x, y \in Admins : x # y => op'[x].pc = "idle" \/ op'[y].pc = "idle"
    BY <1>2, <1>3, <2>2
  <2> QED
    BY <2>1, <2>2 DEF Restart
<1>5. Blank'
  BY <1>4 DEF Blank, Restart
<1>6. Settled'
  BY <1>5, BlankIs, PTL
<1>7. Types'
  BY <1>1, <1>4, <1>6 DEF Types, Settled
<1>8. \A a \in Aliases : Tabled(a)'
  BY <1>1, <1>6 DEF Tabled, Agrees, Settled
<1> QED
  BY <1>6, <1>7, <1>8 DEF LifecycleInv, Calm, Settled

-----------------------------------------------------------------------------
(* The theorems *)

\* The links between the map, the sessions, the pollers and the requests hold
\* in every state; what they say of who may stop whom holds until two
\* requests for one alias overlap.
THEOREM LifecycleInvariant == Spec => []LifecycleInv
<1>1. Init => LifecycleInv
  BY InitHolds
<1>2. LifecycleInv /\ [Next]_lvars => LifecycleInv'
  <2> SUFFICES ASSUME LifecycleInv, [Next]_lvars PROVE LifecycleInv'
    OBVIOUS
  <2>0. Types
    BY DEF LifecycleInv
  <2>1. ASSUME NEW o \in Admins, AdminStep(o) PROVE LifecycleInv'
    BY <2>1, AdminKeeps
  <2>2. ASSUME NEW o \in Admins, SafeModeAck(o) PROVE LifecycleInv'
    BY <2>0, <2>2, RestoreArrives, BeginKeeps DEF SafeModeAck
  <2>3. ASSUME NEW o \in Admins, NEW a \in Aliases, NEW t \in Tokens, RegisterCall(o, a, t)
        PROVE  LifecycleInv'
    BY <2>0, <2>3, Arrivals, BeginKeeps, Zenon DEF RegisterCall
  <2>4. ASSUME NEW o \in Admins, NEW a \in Aliases, DeleteCall(o, a) PROVE LifecycleInv'
    BY <2>0, <2>4, Arrivals, BeginKeeps, Zenon DEF DeleteCall
  <2>5. ASSUME NEW o \in Admins, NEW a \in Aliases, NEW l \in {"pause", "resume", "drain"},
               SessionCall(o, a, l)
        PROVE  LifecycleInv'
    BY <2>0, <2>5, Arrivals, BeginKeeps, Zenon DEF SessionCall
  <2>6. ASSUME NEW p \in PollerIds, PollerStep(p) PROVE LifecycleInv'
    BY <2>6, PollerKeeps
  <2>7. CASE Restart
    BY <2>7, RestartKeeps
  <2>8. CASE UNCHANGED lvars
    <3>1. Types' /\ Linked' /\ overlaps' = overlaps
      BY <2>8, Zenon DEF LifecycleInv, Types, Linked, lvars
    <3>2. ASSUME Calm PROVE Excl' /\ \A a \in Aliases : Tabled(a)'
      BY <2>8, <3>2, Zenon DEF Calm, Excl, Touched, Tabled, Writing, Agrees, lvars
    <3>3. ASSUME Calm PROVE \A x \in Admins : Local(x)'
      BY <2>8, <3>3, Zenon DEF Calm, Local, Running, lvars
    <3>4. ASSUME Calm PROVE \A p \in PollerIds : Owned(p)'
      BY <2>8, <3>4, Zenon DEF Calm, Owned, Running, lvars
    <3> QED
      BY <3>1, <3>2, <3>3, <3>4 DEF LifecycleInv, Calm
  <2> QED
    BY <2>1, <2>2, <2>3, <2>4, <2>5, <2>6, <2>7, <2>8 DEF Next
<1> QED
  BY <1>1, <1>2, PTL DEF Spec

\* Where no request works on an alias the invariant says who owns its poller.
LEMMA Unworked ==
    ASSUME LifecycleInv, NEW a, ~Worked(a)
    PROVE  Calm /\ \A o \in Admins : op[o].pc # "idle" => op[o].alias # a
<1>1. overlaps = 0 /\ \A o \in Admins : a \notin Touched(o)
  BY DEF Worked, LifecycleInv, Types
<1> QED
  BY <1>1 DEF LifecycleInv, Touched

\* No poller is orphaned (Manager.Attach, Pause, Resume and Delete): whatever
\* runs can be stopped, for any number of bots, requests and restarts.
THEOREM PollersAreStoppable == Spec => []StoppablePollers
<1>1. LifecycleInv => StoppablePollers
  <2> SUFFICES ASSUME LifecycleInv, NEW p \in PollerIds, Running(p),
                      ~Worked(session[poller[p].of].alias)
               PROVE  sessions[session[poller[p].of].alias] = poller[p].of
                      /\ session[poller[p].of].cancel = p
    BY DEF StoppablePollers
  <2>1. Calm /\ \A o \in Admins : op[o].pc # "idle" => op[o].alias # session[poller[p].of].alias
    BY Unworked
  <2>2. Owned(p)
    BY <2>1 DEF Calm
  <2>3. ~\E o \in Admins : op[o].pc \in {"shut", "kill"} /\ op[o].s = poller[p].of
    BY <2>1, Zenon DEF LifecycleInv, Linked, WithSession
  <2> QED
    BY <2>2, <2>3 DEF Owned
<1> QED
  BY <1>1, LifecycleInvariant, PTL

\* What RestoreAll would restore is what runs (Attach, Delete and RegisterBot):
\* the table and the map name one token once the requests are over.
THEOREM TableFollowsMap == Spec => []TableMatchesMap
<1>1. LifecycleInv => TableMatchesMap
  <2> SUFFICES ASSUME LifecycleInv, NEW a \in Aliases, ~Worked(a), faults = 0
               PROVE  Agrees(a)
    BY Zenon DEF TableMatchesMap, Agrees
  <2>1. Calm /\ \A o \in Admins : op[o].pc # "idle" => op[o].alias # a
    BY Unworked, Zenon
  <2>2. ~Writing(a)
    BY <2>1, Zenon DEF Writing
  <2> QED
    BY <2>1, <2>2, Zenon DEF Calm, Tabled
<1> QED
  BY <1>1, LifecycleInvariant, PTL

\* "Pause stops the poller NOW" (Manager.Pause): a bot whose Pause has
\* returned has no running poller until Resume.
THEOREM PausedBotsAreQuiet == Spec => []PauseQuiets
<1>1. LifecycleInv => PauseQuiets
  <2> SUFFICES ASSUME LifecycleInv, NEW p \in PollerIds, Running(p),
                      ~Worked(session[poller[p].of].alias)
               PROVE  ~session[poller[p].of].held
    BY DEF PauseQuiets
  <2>1. Calm
    BY Unworked
  <2> QED
    BY <2>1 DEF Calm, Owned
<1> QED
  BY <1>1, LifecycleInvariant, PTL

=============================================================================
