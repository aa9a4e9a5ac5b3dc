------------------------------ MODULE MTUpdates ------------------------------
(***************************************************************************)
(* The update path of one MTProto session, from Telegram to the consumers: *)
(* pushUpdate (number, persist, belt, WebSocket fan-out), the replay of    *)
(* the backlog when a client connects, getUpdates in its two modes, the    *)
(* WebSocket consumers, the 60 s housekeeping, and kill -9 at any point.   *)
(*                                                                         *)
(* The belt is the buffered channel updateCh, which is used without the    *)
(* mutex: every send and receive is a step.  A row of update_queue is the  *)
(* number (update_id, which is _gw_seq) and the update.                    *)
(***************************************************************************)
EXTENDS Naturals, Sequences, FiniteSetsExt

CONSTANTS
    Pushers,        \* concurrent pushUpdate calls (gotd handlers, old and new client)
    Replicas,       \* consumers that pull
    Sockets,        \* WebSocket consumers; each connects once per process
    MaxUpdates,     \* updates Telegram sends
    Cap,            \* UpdateQueueMax, capacity of the belt
    ReplayLimit,    \* rows startClient replays (5000)
    Limit,          \* "limit" of getUpdates
    MaxEvents,      \* bound on crashes, reconnects, failing statements, expiries,
                    \* housekeeping passes and WebSocket connections, all together
    Nil

ASSUME MTUpdatesAssumption ==
    /\ MaxUpdates \in Nat /\ Cap \in Nat \ {0} /\ ReplayLimit \in Nat \ {0}
    /\ Limit \in Nat \ {0} /\ MaxEvents \in Nat

VARIABLES
    mode,       \* how the replicas pull: with an offset, or without
    phase,      \* startClient: "down", "pull", "raise", "fill", "up"
    backlog,    \* what startClient has read of update_queue and not yet replayed
    loaded,     \* history: nextSeq was raised above the whole backlog
    nextSeq,    \* Session.nextSeq
    rows,       \* update_queue
    dead,       \* dead_letters
    belt,       \* Session.updateCh
    push,       \* pusher -> its pushUpdate call
    socket,     \* WebSocket consumer -> "off", "in", "removed", "closed"
    cursor,     \* replica -> the offset it sends next
    pull,       \* replica -> its getUpdates call
    sweep,      \* the PruneExpiredUpdates in progress
    sent,       \* updates Telegram has sent so far
    events,     \* events of the environment so far
    panicked,   \* a send on a closed channel has killed the process
    aged,       \* updates older than GW_UPDATE_TTL_S
    delivered,  \* history: updates some replica has received
    top,        \* history: largest number a pull with an offset has returned
    evicted,    \* history: without offsets, updates whose copy did not stay on the belt
    exposed,    \* history: updates whose number was, or may have been, used before
    lost,       \* history: unexpired updates an ack deleted before anybody received them
    killed      \* history: without offsets, those of them that died with a process

process == <<phase, backlog, loaded, nextSeq, belt, push, socket, pull, sweep>>
env == <<mode, sent, events, panicked, aged>>
history == <<delivered, top, evicted, exposed, lost, killed>>
vars == <<process, env, history, rows, dead, cursor>>

Updates == 1 .. MaxUpdates
Us(R) == {x.u : x \in R}
Seqs(R) == {x.seq : x \in R}

Quiet == [pc |-> "idle", rec |-> Nil, to |-> {}]
NoCall == [pc |-> "idle", got |-> <<>>]
NoBacklog == [rest |-> <<>>, whole |-> FALSE]
NoSweep == [at |-> "off", old |-> {}, kept |-> <<>>]

\* Updates that are in memory, on the belt or on their way to it.
InMemory ==
    Us(Range(belt) \cup Range(backlog.rest) \cup Range(sweep.kept)
        \cup {push[p].rec : p \in {q \in Pushers : push[q].pc \in {"belt", "full", "again"}}})

Event == events < MaxEvents /\ events' = events + 1

-----------------------------------------------------------------------------
(* update_queue. *)

\* QueuePullRaw: numbers above offset, in order, at most n.  The order of equal
\* numbers is left to SQLite.
QueuePull(offset, n) ==
    LET above == {x \in rows : x.seq > offset}
    IN  {s \in UNION {[1 .. k -> above] : k \in 0 .. n} :
            /\ \A i, j \in DOMAIN s : i < j => s[i] # s[j] /\ s[i].seq <= s[j].seq
            /\ Len(s) = n \/ Range(s) = above
            /\ \A i \in DOMAIN s, y \in above \ Range(s) : s[i].seq <= y.seq}

\* QueueAck: everything up to and including lastSeen is deleted.
QueueAck(lastSeen) ==
    LET acked == {x \in rows : x.seq <= lastSeen}
    IN  /\ rows' = rows \ acked
        /\ lost' = lost \cup (Us(acked) \ (delivered \cup aged))

\* Its error is ignored.
Ack(lastSeen) ==
    \/ QueueAck(lastSeen) /\ UNCHANGED events
    \/ Event /\ UNCHANGED <<rows, lost>>

-----------------------------------------------------------------------------
(* The belt. *)

\* The updates U have no copy on the belt, which matters where the belt is pulled.
Evict(U) == evicted' = IF mode = "legacy" THEN evicted \cup U ELSE evicted

\* A send that does not wait: what does not fit is dropped.
Offer(r) ==
    \/ Len(belt) < Cap /\ belt' = Append(belt, r) /\ UNCHANGED evicted
    \/ Len(belt) = Cap /\ Evict({r.u}) /\ UNCHANGED belt

-----------------------------------------------------------------------------
(* startClient. *)

\* The handler is routed before Connect: updates arrive from here on, while the
\* client says who it is, warms its peers and comes to the backlog.
Connect ==
    /\ phase = "down" /\ phase' = "pull"
    /\ UNCHANGED <<backlog, loaded, nextSeq, belt, push, socket, pull, sweep, env, history,
                   rows, dead, cursor>>

\* The backlog is read before the mutex is taken; a query that fails reads as
\* an empty one.
ReplayPull ==
    /\ phase = "pull"
    /\ \/ \E s \in QueuePull(0, ReplayLimit) :
             /\ backlog' = [rest |-> s, whole |-> Range(s) = rows]
             /\ Evict(Us(rows) \ Us(Range(s)))
             /\ phase' = "raise" /\ UNCHANGED events
       \/ Event /\ phase' = "up" /\ UNCHANGED <<backlog, evicted>>
    /\ UNCHANGED <<loaded, nextSeq, belt, push, socket, pull, sweep, mode, sent, panicked,
                   aged, delivered, top, exposed, lost, killed, rows, dead, cursor>>

\* Mutant: nextSeq is left alone.
RaiseNothing ==
    LET s == backlog.rest
    IN  /\ phase = "raise" /\ phase' = IF s = <<>> THEN "up" ELSE "fill"
        /\ loaded' = (loaded \/ backlog.whole) /\ backlog' = [rest |-> s, whole |-> FALSE]
        /\ UNCHANGED <<nextSeq, belt, push, socket, pull, sweep, env, history,
                       rows, dead, cursor>>

\* Under the mutex nextSeq is raised to the largest number of the backlog, the
\* last one ...
ReplayRaise ==
    LET s == backlog.rest
    IN  /\ phase = "raise" /\ phase' = IF s = <<>> THEN "up" ELSE "fill"
        /\ nextSeq' = IF s # <<>> /\ s[Len(s)].seq > nextSeq THEN s[Len(s)].seq ELSE nextSeq
        /\ loaded' = (loaded \/ backlog.whole) /\ backlog' = [rest |-> s, whole |-> FALSE]
        /\ UNCHANGED <<belt, push, socket, pull, sweep, env, history, rows, dead,
                       cursor>>

\* ... and the backlog is put on the belt as far as it fits.
ReplayPut ==
    /\ phase = "fill" /\ phase' = IF Len(backlog.rest) = 1 THEN "up" ELSE "fill"
    /\ Offer(Head(backlog.rest))
    /\ backlog' = [backlog EXCEPT !.rest = Tail(@)]
    /\ UNCHANGED <<loaded, nextSeq, push, socket, pull, sweep, env, delivered, top, exposed,
                   lost, killed, rows, dead, cursor>>

\* The connection drops or is restarted; the Session and its belt stay.
Reconnect ==
    /\ phase = "up" /\ phase' = "down"
    /\ Event
    /\ UNCHANGED <<backlog, loaded, nextSeq, belt, push, socket, pull, sweep, mode, sent,
                   panicked, aged, history, rows, dead, cursor>>

-----------------------------------------------------------------------------
(* pushUpdate. *)

\* The number is drawn under the session's mutex.  A number drawn before the
\* backlog was loaded endangers the update and the backlog.  Calls are alike: the
\* next one is any that is free.
Draw(p) ==
    /\ phase \notin {"down", "fill"} /\ sent < MaxUpdates
    /\ push[p] = Quiet /\ p = CHOOSE q \in Pushers : push[q] = Quiet
    /\ sent' = sent + 1
    /\ nextSeq' = nextSeq + 1
    /\ push' = [push EXCEPT ![p] =
           [Quiet EXCEPT !.pc = "store", !.rec = [seq |-> nextSeq + 1, u |-> sent + 1]]]
    /\ exposed' = IF loaded \/ rows = {} THEN exposed
                  ELSE exposed \cup Us(rows) \cup {sent + 1}
    /\ UNCHANGED <<phase, backlog, loaded, belt, socket, pull, sweep, mode, events, panicked, aged,
                   delivered, top, evicted, lost, killed, rows, dead, cursor>>

\* An update that cannot be serialized is captured, and goes no further.
DeadLetter(p) ==
    /\ push[p].pc = "store" /\ Event
    /\ dead' = dead \cup {push[p].rec.u}
    /\ push' = [push EXCEPT ![p] = Quiet]
    /\ UNCHANGED <<phase, backlog, loaded, nextSeq, belt, socket, pull, sweep, mode, sent,
                   panicked, aged, history, rows, cursor>>

QueuePush(p) ==
    LET r == push[p].rec
    IN  /\ push[p].pc = "store"
        /\ rows' = rows \cup {r}
        /\ exposed' = IF r.seq <= top THEN exposed \cup {r.u} ELSE exposed
        /\ push' = [push EXCEPT ![p].pc = "belt"]
        /\ UNCHANGED <<phase, backlog, loaded, nextSeq, belt, socket, pull, sweep, env,
                       delivered, top, evicted, lost, killed, dead, cursor>>

\* The INSERT fails: the update lives in memory only.
PersistFails(p) ==
    /\ push[p].pc = "store" /\ Event
    /\ push' = [push EXCEPT ![p].pc = "belt"]
    /\ UNCHANGED <<phase, backlog, loaded, nextSeq, belt, socket, pull, sweep, mode, sent,
                   panicked, aged, history, rows, dead, cursor>>

\* The call once its update has left it, with the consumers it still has to send to.
SendTo(to) == IF to = {} THEN Quiet ELSE [Quiet EXCEPT !.pc = "send", !.to = to]

\* The consumers are copied under the mutex.
Snapshot == SendTo({c \in Sockets : socket[c] = "in"})

\* Onto the belt, if there is room.
Belt(p) ==
    /\ push[p].pc = "belt"
    /\ \/ /\ Len(belt) < Cap
          /\ belt' = Append(belt, push[p].rec)
          /\ push' = [push EXCEPT ![p] = Snapshot]
       \/ /\ Len(belt) = Cap
          /\ push' = [push EXCEPT ![p].pc = "full"]
          /\ UNCHANGED belt
    /\ UNCHANGED <<phase, backlog, loaded, nextSeq, socket, pull, sweep, env, history, rows,
                   dead, cursor>>

\* The oldest is dropped, if there still is one ...
DropOldest(p) ==
    /\ push[p].pc = "full"
    /\ push' = [push EXCEPT ![p].pc = "again"]
    /\ \/ belt = <<>> /\ UNCHANGED <<belt, evicted>>
       \/ belt # <<>> /\ belt' = Tail(belt) /\ Evict({Head(belt).u})
    /\ UNCHANGED <<phase, backlog, loaded, nextSeq, socket, pull, sweep, env, delivered, top,
                   exposed, lost, killed, rows, dead, cursor>>

\* ... and the second attempt may find its place taken.
BeltAgain(p) ==
    /\ push[p].pc = "again"
    /\ push' = [push EXCEPT ![p] = Snapshot]
    /\ Offer(push[p].rec)
    /\ UNCHANGED <<phase, backlog, loaded, nextSeq, socket, pull, sweep, env, delivered, top,
                   exposed, lost, killed, rows, dead, cursor>>

-----------------------------------------------------------------------------
(* Process death. *)

\* What is left of the process after kill -9 and the restart of the container.
NewProcess ==
    /\ phase' = "down" /\ backlog' = NoBacklog /\ loaded' = FALSE /\ nextSeq' = 0
    /\ belt' = <<>> /\ sweep' = NoSweep
    /\ push' = [p \in Pushers |-> Quiet]
    /\ socket' = [c \in Sockets |-> "off"]
    /\ pull' = [r \in Replicas |-> NoCall]
    /\ killed' = IF mode = "legacy" THEN killed \cup (lost \cap InMemory) ELSE killed

Crash ==
    /\ Event
    /\ NewProcess
    /\ UNCHANGED <<mode, sent, panicked, aged, delivered, top, evicted, exposed, lost, rows, dead,
                   cursor>>

\* c.Send to one consumer of the snapshot.  A full buffer drops the message;
\* a closed channel panics, and with it the process ends.
Send(p, c) ==
    /\ push[p].pc = "send" /\ c \in push[p].to
    /\ \/ /\ socket[c] # "closed"
          /\ push' = [push EXCEPT ![p] = SendTo(push[p].to \ {c})]
          /\ UNCHANGED <<phase, backlog, loaded, nextSeq, belt, socket, pull, sweep, events,
                         panicked, killed>>
       \/ /\ socket[c] = "closed" /\ panicked' = TRUE /\ Event /\ NewProcess
    /\ UNCHANGED <<mode, sent, aged, delivered, top, evicted, exposed, lost, rows, dead, cursor>>

-----------------------------------------------------------------------------
(* WebSocket consumers: the handler adds the consumer, and its deferred      *)
(* function removes it and then closes the channel.                          *)

Moves(c, from, to) ==
    /\ socket[c] = from /\ socket' = [socket EXCEPT ![c] = to]
    /\ UNCHANGED <<phase, backlog, loaded, nextSeq, belt, push, pull, sweep, mode, sent, panicked,
                   aged, history, rows, dead, cursor>>

AddConsumer(c) == phase # "fill" /\ Moves(c, "off", "in") /\ Event
RemoveConsumer(c) == phase # "fill" /\ Moves(c, "in", "removed") /\ UNCHANGED events
CloseWriteCh(c) == Moves(c, "removed", "closed") /\ UNCHANGED events

-----------------------------------------------------------------------------
(* getUpdates. *)

\* Mutant: the update at the offset itself is acknowledged too.
AckThrough(r) ==
    /\ mode = "offset" /\ pull[r] = NoCall
    /\ Ack(cursor[r])
    /\ pull' = [pull EXCEPT ![r].pc = "poll"]
    /\ UNCHANGED <<phase, backlog, loaded, nextSeq, belt, push, socket, sweep, mode, sent,
                   panicked, aged, delivered, top, evicted, exposed, killed, dead, cursor>>

\* With an offset: everything strictly below is acknowledged first.
AckBelow(r) ==
    /\ mode = "offset" /\ pull[r] = NoCall
    /\ Ack(cursor[r] - 1)
    /\ pull' = [pull EXCEPT ![r].pc = "poll"]
    /\ UNCHANGED <<phase, backlog, loaded, nextSeq, belt, push, socket, sweep, mode, sent,
                   panicked, aged, delivered, top, evicted, exposed, killed, dead, cursor>>

\* The answer to r is got, in the order of the numbers.
Answer(r, got) ==
    /\ got # <<>>
    /\ pull' = [pull EXCEPT ![r] = [pc |-> "answer", got |-> got]]
    /\ top' = IF got[Len(got)].seq > top THEN got[Len(got)].seq ELSE top
    /\ UNCHANGED <<phase, backlog, loaded, nextSeq, belt, push, socket, sweep, env, delivered,
                   evicted, exposed, lost, killed, rows, dead, cursor>>

\* Mutant: the update at the offset itself is skipped.
PullAbove(r) == pull[r].pc = "poll" /\ \E got \in QueuePull(cursor[r], Limit) : Answer(r, got)

\* One look at the table; an empty answer polls again until the deadline.
PullRaw(r) == pull[r].pc = "poll" /\ \E got \in QueuePull(cursor[r] - 1, Limit) : Answer(r, got)

\* The deadline passes after a look that found nothing.
GiveUp(r) ==
    /\ pull[r].pc = "poll" /\ <<>> \in QueuePull(cursor[r] - 1, Limit)
    /\ pull' = [pull EXCEPT ![r] = NoCall]
    /\ UNCHANGED <<phase, backlog, loaded, nextSeq, belt, push, socket, sweep, env, history,
                   rows, dead, cursor>>

\* Without an offset: updates are taken off the belt, up to Limit of them; by
\* contract they count as delivered ...
DrainUpdateCh(r) ==
    /\ mode = "legacy" /\ pull[r].pc \in {"idle", "drain"}
    /\ belt # <<>> /\ Len(pull[r].got) < Limit
    /\ belt' = Tail(belt)
    /\ pull' = [pull EXCEPT ![r] = [pc |-> "drain", got |-> Append(@.got, Head(belt))]]
    /\ delivered' = delivered \cup {Head(belt).u}
    /\ UNCHANGED <<phase, backlog, loaded, nextSeq, push, socket, sweep, env, top, evicted,
                   exposed, lost, killed, rows, dead, cursor>>

\* ... and then acknowledged up to the largest number among them.
AckDrained(r) ==
    /\ pull[r].pc = "drain" /\ (belt = <<>> \/ Len(pull[r].got) = Limit)
    /\ Ack(Max(Seqs(Range(pull[r].got))))
    /\ pull' = [pull EXCEPT ![r] = NoCall]
    /\ UNCHANGED <<phase, backlog, loaded, nextSeq, belt, push, socket, sweep, mode, sent,
                   panicked, aged, delivered, top, evicted, exposed, killed, dead, cursor>>

\* An answer to an offset arrives; the consumer's next one is the largest number,
\* the last of the answer, plus one.
Receive(r) ==
    LET got == pull[r].got
    IN  /\ pull[r].pc = "answer"
        /\ delivered' = delivered \cup Us(Range(got))
        /\ cursor' = [cursor EXCEPT ![r] = got[Len(got)].seq + 1]
        /\ pull' = [pull EXCEPT ![r] = NoCall]
        /\ UNCHANGED <<phase, backlog, loaded, nextSeq, belt, push, socket, sweep, env, top,
                       evicted, exposed, lost, killed, rows, dead>>

\* The answer is lost, the consumer hangs up while it waits, or its query fails
\* at the deadline.
AnswerLost(r) ==
    /\ pull[r].pc \in {"poll", "answer"} /\ Event
    /\ pull' = [pull EXCEPT ![r] = NoCall]
    /\ UNCHANGED <<phase, backlog, loaded, nextSeq, belt, push, socket, sweep, mode, sent,
                   panicked, aged, history, rows, dead, cursor>>

-----------------------------------------------------------------------------
(* Housekeeping. *)

\* An update outlives GW_UPDATE_TTL_S.
Age(u) ==
    /\ u \in 1 .. sent \ aged /\ Event
    /\ aged' = aged \cup {u}
    /\ UNCHANGED <<process, mode, sent, panicked, history, rows, dead, cursor>>

\* A pass begins, with a cutoff that tells what has expired.
PruneStart ==
    /\ sweep = NoSweep /\ Event
    /\ sweep' = [at |-> "take", old |-> aged, kept |-> <<>>]
    /\ UNCHANGED <<phase, backlog, loaded, nextSeq, belt, push, socket, pull, mode, sent,
                   panicked, aged, history, rows, dead, cursor>>

\* PruneExpiredUpdates takes all it finds off the belt, keeping what is young
\* enough ...
PruneTake ==
    /\ sweep.at = "take"
    /\ \/ /\ belt # <<>> /\ belt' = Tail(belt)
          /\ sweep' = IF Head(belt).u \in sweep.old THEN sweep
                      ELSE [sweep EXCEPT !.kept = Append(@, Head(belt))]
       \/ belt = <<>> /\ sweep' = [sweep EXCEPT !.at = "put"] /\ UNCHANGED belt
    /\ UNCHANGED <<phase, backlog, loaded, nextSeq, push, socket, pull, env, history, rows,
                   dead, cursor>>

\* ... and puts it back as far as it fits.
PrunePut ==
    /\ sweep.at = "put" /\ sweep.kept # <<>>
    /\ Offer(Head(sweep.kept))
    /\ sweep' = [sweep EXCEPT !.kept = Tail(@)]
    /\ UNCHANGED <<phase, backlog, loaded, nextSeq, push, socket, pull, env, delivered, top,
                   exposed, lost, killed, rows, dead, cursor>>

\* Last in a pass.
QueueTTLCleanup ==
    /\ sweep.at = "put" /\ sweep.kept = <<>>
    /\ rows' = {x \in rows : x.u \notin sweep.old}
    /\ sweep' = NoSweep
    /\ UNCHANGED <<phase, backlog, loaded, nextSeq, belt, push, socket, pull, env, history,
                   dead, cursor>>

-----------------------------------------------------------------------------
FlowInit ==
    /\ mode \in {"offset", "legacy"}
    /\ phase = "down" /\ backlog = NoBacklog /\ loaded = FALSE /\ nextSeq = 0
    /\ rows = {} /\ dead = {} /\ belt = <<>> /\ sweep = NoSweep
    /\ push = [p \in Pushers |-> Quiet]
    /\ socket = [c \in Sockets |-> "off"]
    /\ cursor = [r \in Replicas |-> 1]
    /\ pull = [r \in Replicas |-> NoCall]
    /\ sent = 0 /\ panicked = FALSE /\ aged = {}
    /\ events = 0
    /\ delivered = {} /\ top = 0 /\ evicted = {} /\ exposed = {} /\ lost = {}
    /\ killed = {}

FlowNext ==
    \/ Connect \/ ReplayPull \/ ReplayRaise \/ ReplayPut \/ Reconnect \/ Crash
    \/ \E p \in Pushers : \/ Draw(p) \/ DeadLetter(p) \/ QueuePush(p) \/ PersistFails(p)
                          \/ Belt(p) \/ DropOldest(p) \/ BeltAgain(p)
                          \/ \E c \in Sockets : Send(p, c)
    \/ \E c \in Sockets : AddConsumer(c) \/ RemoveConsumer(c) \/ CloseWriteCh(c)
    \/ \E r \in Replicas : \/ AckBelow(r) \/ PullRaw(r) \/ GiveUp(r) \/ DrainUpdateCh(r)
                           \/ AckDrained(r) \/ Receive(r) \/ AnswerLost(r)
    \/ \E u \in Updates : Age(u)
    \/ PruneStart \/ PruneTake \/ PrunePut \/ QueueTTLCleanup

FlowSpec == FlowInit /\ [][FlowNext]_vars

\* Replicas keep pulling, and what a handler has begun it ends.
FlowFairness ==
    \A r \in Replicas : WF_vars(AckBelow(r) \/ PullRaw(r) \/ Receive(r))

FlowFairSpec == FlowSpec /\ FlowFairness

-----------------------------------------------------------------------------
(* Properties. *)

\* With offsets an acknowledgement deletes an update that nobody has received only
\* where its number was drawn or stored behind one already used (before the
\* backlog was loaded, after a restart that found an empty table, or overtaken by
\* a concurrent push).  Without them it deletes more: also updates that the belt
\* has dropped, and updates whose copies are on the belt or on their way to it.
\* Each of the latter is received, expires or is dropped by the belt, or the copy
\* dies with the process, and then nothing is left of it
\* (QueueAck: store/mt.go:326; getUpdates: app.go:649, 677).
AckedWasSeen ==
    \A u \in lost :
        \/ u \in exposed
        \/ mode = "legacy" /\ u \in delivered \cup aged \cup InMemory \cup evicted \cup killed

\* Two rows carry the same number only if the later one was drawn before the
\* backlog was loaded, with the other one in the table, so that a cut at "limit"
\* between them, followed by the ack of the first, needs a startup race
\* (pushUpdate: sessions.go:392; replay: 344).
NumbersUnique ==
    \A x, y \in rows : x # y /\ x.seq = y.seq => {x.u, y.u} \subseteq exposed

\* A stored update reaches a replica that pulls with offsets, through lost
\* answers, reconnects and crashes, unless it expires or its number was exposed.
EventuallyPulled ==
    mode = "offset" =>
        \A u \in Updates : u \in Us(rows) ~> u \in delivered \cup aged \cup exposed

\* README.md:285: "`docker compose down` on your app cannot kill the Telegram
\* session": no consumer that disconnects ends the gateway's process.
DisconnectIsHarmless == ~panicked
=============================================================================
