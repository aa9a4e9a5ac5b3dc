------------------------------- MODULE UpdateBus -------------------------------
(***************************************************************************)
(* The path of an update through the Bot API plane: Telegram (external),   *)
(* the poller of one bot (internal/botapi/session.go), the queue           *)
(* (UpdateQueue) and the replicas that pull from it.  A replica            *)
(* acknowledges ids that were received, possibly late or twice.  The       *)
(* process dies at any point and restarts from gateway.db and queue.db.    *)
(***************************************************************************)
EXTENDS UpdateQueue

VARIABLES
    emitted,        \* Telegram has produced the updates 1 .. emitted
    confirmed,      \* Telegram has forgotten the updates up to confirmed
    ppc,            \* where the poller is: "boot", "poll" or "push"
    offset,         \* the poller's local offset
    polled,         \* the largest id of the batch being pushed
    telegramOffset, \* table bots: telegram_offset
    got,            \* history: ids some replica received
    dropped,        \* history: ids the overflow policy gave up
    settled,        \* history: largest offset whose Ack has fully committed
    overlapped,     \* history: two Acks were in progress at the same time
    behind          \* history: ids of live rows a reload left behind its cap

telegram == <<emitted, confirmed>>
poller   == <<ppc, offset, polled, telegramOffset>>
seenBy   == <<got, dropped, settled, overlapped, behind>>
bvars    == <<qvars, telegram, poller, seenBy>>

BusInit ==
    /\ Init
    /\ emitted = 0 /\ confirmed = 0
    /\ ppc = "boot" /\ offset = 0 /\ polled = 0 /\ telegramOffset = 0
    /\ got = {} /\ dropped = {} /\ settled = 0
    /\ overlapped = FALSE /\ behind = {}

--------------------------------------------------------------------------------
(* Telegram *)

Emit ==
    /\ emitted < MaxId /\ emitted' = emitted + 1
    /\ UNCHANGED <<qvars, confirmed, poller, seenBy>>

\* What getUpdates(offset + 1) leaves confirmed, and what it answers: the
\* oldest unconfirmed updates, at most MaxBatch of them.
Confirms == Larger(confirmed, offset)
Answer   == [i \in 1 .. (IF emitted - Confirms < MaxBatch THEN emitted - Confirms
                         ELSE MaxBatch) |-> Confirms + i]

--------------------------------------------------------------------------------
(* The poller *)

\* GetOffset, then the loop starts.
PollerStart ==
    /\ ppc = "boot" /\ ppc' = "poll"
    /\ offset' = telegramOffset
    /\ UNCHANGED <<qvars, telegram, polled, telegramOffset, seenBy>>

\* Mutant: the offset is persisted before the batch is queued.
PollSaveFirst ==
    /\ ppc = "poll" /\ ppc' = "push"
    /\ Answer # <<>>
    /\ confirmed' = Confirms
    /\ polled' = Answer[Len(Answer)]
    /\ telegramOffset' = polled'
    /\ PushLock(Answer)
    /\ UNCHANGED <<emitted, offset, seenBy>>

\* getUpdates answers with a batch, which goes to PushAll first.
Poll ==
    /\ ppc = "poll" /\ ppc' = "push"
    /\ Answer # <<>>
    /\ confirmed' = Confirms
    /\ polled' = Answer[Len(Answer)]
    /\ PushLock(Answer)
    /\ UNCHANGED <<emitted, offset, telegramOffset, seenBy>>

\* The answer is empty, an error, or never arrives: the offset stays.
PollNothing ==
    /\ ppc = "poll" /\ confirmed' = Confirms
    /\ UNCHANGED <<qvars, emitted, poller, seenBy>>

\* Mutant: the next poll starts one update too far.
SaveOffsetNext ==
    /\ ppc = "push" /\ push.pc = "idle" /\ ppc' = "poll"
    /\ offset' = Larger(offset, polled + 1)
    /\ \/ telegramOffset' = offset' /\ UNCHANGED faults
       \/ Fault /\ UNCHANGED telegramOffset
    /\ polled' = 0
    /\ UNCHANGED <<memory, disk, calls, now, pushes, restarts, history, push, policy,
                   telegram, seenBy>>

\* PushAll has returned; its error is only logged, and so is one of SaveOffset.
SaveOffset ==
    /\ ppc = "push" /\ push.pc = "idle" /\ ppc' = "poll"
    /\ offset' = Larger(offset, polled)
    /\ \/ telegramOffset' = offset' /\ UNCHANGED faults
       \/ Fault /\ UNCHANGED telegramOffset
    /\ polled' = 0
    /\ UNCHANGED <<memory, disk, calls, now, pushes, restarts, history, push, policy,
                   telegram, seenBy>>

\* What the overflow policy gives up: drop_oldest the ids it evicts, reject_new
\* the rest of the batch, and the rows of what it had accepted of it.
Refused == IF push'.overflow
           THEN push.batch \cup {push.todo[i] : i \in DOMAIN push.todo} ELSE {}

PushStep ==
    /\ \/ PushOne /\ dropped' = dropped \cup (IdsOf(q) \ IdsOf(q')) \cup Refused
       \/ (PushUnlock \/ PushPersist) /\ UNCHANGED dropped
    /\ UNCHANGED <<telegram, poller, got, settled, overlapped, behind>>

--------------------------------------------------------------------------------
(* The replicas *)

Acking(c) == pc[c] \in {"delete", "upsert"}

\* Mutant: Pull acknowledges the offset it is asked for.
AckRequested(c, id) ==
    /\ AckLocked(c, id + 1)
    /\ overlapped' = (overlapped \/ \E d \in Requests \ {c} : Acking(d))
    /\ UNCHANGED <<telegram, poller, got, dropped, settled, behind>>

\* A replica asks with offset = id + 1 for an id received, or for the first
\* updates.
AckReceived(c, id) ==
    /\ AckLocked(c, id)
    /\ overlapped' = (overlapped \/ \E d \in Requests \ {c} : Acking(d))
    /\ UNCHANGED <<telegram, poller, got, dropped, settled, behind>>

AckCommit(c) ==
    /\ AckUpsert(c)
    /\ settled' = IF faults' = faults THEN Larger(settled, acked[c]) ELSE settled
    /\ UNCHANGED <<telegram, poller, got, dropped, overlapped, behind>>

\* The answer of Pull reaches the replica, or is lost with its connection.
Deliver(c) ==
    /\ Scan(c)
    /\ got' = got \cup (IF pc'[c] = "idle" THEN Out ELSE {})
    /\ UNCHANGED <<telegram, poller, dropped, settled, overlapped, behind>>

LoseAnswer(c) ==
    /\ pc[c] = "scan" /\ ~Locked /\ Out # {} /\ Goto(c, "idle")
    /\ Fault
    /\ UNCHANGED <<memory, disk, acked, woken, now, pushes, restarts, history, push, policy,
                   telegram, poller, seenBy>>

ReplicaStep(c) ==
    \/ \E id \in {0} \cup got : AckReceived(c, id)
    \/ AckCommit(c) \/ Deliver(c) \/ LoseAnswer(c)
    \/ /\ PullCall(c) \/ AckDelete(c) \/ Subscribe(c) \/ Wake(c) \/ GiveUp(c)
       /\ UNCHANGED <<telegram, poller, seenBy>>

BusRestart ==
    /\ Restart
    /\ ppc' = "boot" /\ offset' = 0 /\ polled' = 0
    /\ behind' = behind \cup {id \in RowIds' : id \notin IdsOf(q') \cup corrupt' \cup excused'}
    /\ UNCHANGED <<telegram, telegramOffset, got, dropped, settled, overlapped>>

PollerStep == PollerStart \/ Poll \/ PushStep \/ SaveOffset

BusNext ==
    \/ Emit \/ PollerStep \/ PollNothing
    \/ \E c \in Requests : ReplicaStep(c)
    \/ Tick /\ UNCHANGED <<telegram, poller, seenBy>>
    \/ BusRestart

BusSpec == BusInit /\ [][BusNext]_bvars

\* Goroutines are scheduled, and a replica keeps asking: whenever it can call
\* again it eventually does so with the offset after the largest id received,
\* as PullUpdates of pkg/client does.
AckNewest(c) ==
    \E id \in {0} \cup got : (\A i \in got : i <= id) /\ AckReceived(c, id)

BusFairness ==
    /\ WF_bvars(PollerStep)
    /\ \A c \in Requests : WF_bvars(ReplicaStep(c)) /\ SF_bvars(AckNewest(c))

BusFairSpec == BusSpec /\ BusFairness

--------------------------------------------------------------------------------
(* Properties *)

\* An update is safe while Telegram can send it again, the deque will still
\* hand it out, or a reload will bring it back.
Safe(id) ==
    \/ id > confirmed
    \/ id \in IdsOf(q) /\ id > consumerOffset
    \/ id \in RowIds /\ id > consumerOffset /\ id > dbOffset

\* Queue first, then persist the offset, and acknowledge only what was handed
\* out: whatever the order of pushes, polls, acks of several replicas, lost
\* answers and crashes, every update Telegram produced was received by a
\* replica or is safe, unless it expired, its row could not be written or was
\* damaged, the overflow policy gave it up, or a reload left it behind its cap.
NoSilentLoss ==
    \A id \in 1 .. emitted :
        id \in got \cup excused \cup corrupt \cup dropped \cup behind \/ Safe(id)

\* The ids a Pull could hand out now, whatever its limit.
OnOffer == {q[i].id : i \in Visible}

\* A committed Ack is a floor under delivery, across crashes and Telegram's
\* redeliveries, as long as no two Acks overlapped.
SettledFloorsDelivery == ~overlapped => \A id \in OnOffer : id > settled

\* Every update Telegram produces reaches a replica in the end, through lost
\* wakeups, lost answers and restarts, unless it expired, or its row could not be
\* written or was damaged.
EventuallyReceived ==
    \A id \in Ids : (id <= emitted) ~> (id \in got \cup excused \cup corrupt)

\* The bus implements the abstract stream: the cursor of the stream is the
\* acknowledged offset, and an update is given up where the code accounts for
\* it.
Stream == INSTANCE AtLeastOnce WITH
    produced <- emitted,
    received <- got,
    given    <- excused \cup corrupt \cup dropped \cup behind,
    cursor   <- consumerOffset

ImplementsStream == Stream!Spec
================================================================================
