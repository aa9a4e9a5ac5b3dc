# Formal model of tg-session-gateway

TLA+ modules, TLC configurations and TLAPS proofs for the gateway. Every
definition is translated from the Go source; `PROJECT.json` maps it to its
lines, and lists the hazards of the code with the properties that cover them.

## The system

The gateway is one process that owns Telegram sessions so that the programs
using them (consumers) can restart, scale and deploy freely. It has two planes.

*Bot API plane* (`internal/botapi`, `store/gateway.go`, `store/queue.go`,
`rateguard/rateguard.go`)

| part | state | operations | hard behaviour |
|---|---|---|---|
| poller (`session.go` poller) | local offset, `bots.telegram_offset` | deleteWebhook, getUpdates, PushAll, SaveOffset | crash between queueing and saving the offset, lost answers |
| update queue (`queue.go`) | deque, dedup set, consumer offset, two tables | PushAll, Pull, Ack, prune, reload | SQL outside the mutex, overlapping Acks, lost wakeup, cap, TTL |
| session manager (`session.go`) | map alias -> session, state, `pollCancel`, table `bots` | Attach, Pause, Resume, Drain, Delete, RestoreAll | check-then-act, states overwritten by the poller |
| send proxy (`proxy.go`) | table `idempotency_keys` | Call, CallRawWithChat, multipart | claims that are never released, retries racing a slow send |
| rate guard (`rateguard.go`) | token buckets, pauses, paid lane, table `chat_backoff` | TryAcquire, WaitTime, Report429, RestoreBackoff | a lane flag shared by all requests, pauses across restarts |
| typing indicator (`typing.go`) | active loops, callback index, settings | OnUpdates, Stop, StopAll, CancelTimeout | a finished loop removing its successor, cancellation racing a timeout |

*MTProto plane* (`internal/mtproto`, `store/mt.go`, `rateguard/mt.go`,
`internal/lock`)

| part | state | operations | hard behaviour |
|---|---|---|---|
| session manager (`sessions.go`) | sessions, supervisors, file lock, table `sessions` | Register, Unregister, Pause, Resume, startClient | a session torn down while it is connecting |
| updates (`sessions.go`, `app.go`) | counter, table `update_queue`, belt, consumers | pushUpdate, replay, getUpdates, WebSocket | a number drawn in one place and stored in another, a channel closed under a sender |
| proxy methods (`app.go`) | table `idempotency_keys`, cache | dispatchProxy | as the send proxy |
| rate guard (`mt.go`) | the same buckets, per-peer backoff | ReportFloodWait, ClearPeerBackoff | reports out of order |
| credentials (`gotd_client.go`, `cryptoutil`, `migrate`) | key, sealed tokens, blobs with auth keys | LoadSession, StoreSession, `tggw migrate` | a command beside a running sidecar, wrong keys, failing statements |

*Shared*: SQLite opening, quarantine, migration and backup (`store/db.go`),
health and the crash-loop guard (`internal/health`), configuration, encryption,
client library (`pkg/client`), commands.

What has to be right: no update is lost, and none is handed out again after its
acknowledgement; one poller per token, and an administrator can stop it; a send
with an idempotency key happens at most once and is not suppressed before it
happened; a pause learnt from Telegram is respected; one connection per auth_key;
a stored auth key is neither lost nor left in the clear; a damaged file or a
crash loop does not take the process down for good.

## Modules

| module | models | checked by | proofs |
|---|---|---|---|
| `UpdateQueue` | `store/queue.go` | `queue` | `UpdateQueueProofs` |
| `UpdateBus` | Telegram (external), poller, `UpdateQueue`, pulling replicas | `bus`, `bus_live` | `UpdateBusProofs` |
| `AtLeastOnce` | the promise of the bus, abstractly: every update is handed out at least once or given up | `bus_live` (refinement) | `UpdateBusProofs` |
| `BotLifecycle` | Manager and poller of `session.go`, admin handlers of `app.go`, table `bots` | `lifecycle` | `BotLifecycleProofs` |
| `Idempotency` | claim table of both stores, `Proxy.Call`, `CallRawWithChat`, `dispatchProxy` | `idempotency` | `StoreProofs` |
| `MTSession` | Manager and supervisor of `mtproto/sessions.go`, admin handlers, table `sessions`, the file lock, for one alias | `mt_session` | `SessionProofs` |
| `MTUpdates` | pushUpdate, replay, getUpdates, WebSocket consumers, housekeeping of one MTProto session | `mt_updates`, `mt_updates_disconnect` | `MTUpdatesProofs` |
| `RateGuard` | Guard and MTGuard, the admission loops, table `chat_backoff` | `rate_guard` | `RateGuardProofs` |
| `Typing` | `typing.go` | `typing` | `SessionProofs` |
| `Credentials` | keys, tokens and blobs at rest, their use by the client, `tggw migrate` | `credentials` | `CredentialsProofs` |
| `Storage` | boot gate, migration, backups, maintenance, crash-loop guard, readiness | `storage` | `StoreProofs` |

The `MC*` modules give the constants and the symmetry sets.

### UpdateQueue

`q`, `seen`, `consumerOffset`, `unloadedBacklog` are the fields of `Queue`;
`rows` and `dbOffset` are the tables. `push` is the PushAll in progress (the
poller is its only caller); `pc`, `acked`, `woken` are the Pulls in progress.
A call is split where the code releases `q.mu` and at each SQL statement:
`PushLock` (lock and `pruneExpiredLocked`), `PushOne` (a turn of the loop),
`PushUnlock` (signal, unlock, early return of `reject_new`), `PushPersist` (the
transaction); `AckLocked`, `AckDelete`, `AckUpsert`; `Scan`, `Subscribe`,
`Wake`, `GiveUp`. `Restart` is a crash at any point and `loadFromDB`. A write
may fail (`Fault`), and a row may stop decoding. Update bodies are abstracted to
their ids; an update without an id gets the one the code makes up. The SELECTs
of `loadFromDB` succeed, and `CheckOrQuarantine` finds a healthy file.

### UpdateBus

Adds Telegram (ids in order; `getUpdates(offset + 1)` confirms everything up to
`offset`), the poller's two variables and `telegram_offset`, and replicas that
acknowledge only ids some replica received, possibly late or twice. `got`,
`dropped`, `settled`, `overlapped` and `behind` are history variables: `dropped` is
what the overflow policy gave up, `behind` the rows that a reload left on disk
because the deque was full.

### BotLifecycle

Every single access to shared state is a step: `op[o]` is where admin request
`o` stands in Attach, Delete, Pause, Resume, Drain or RestoreAll; `poller[p]`
is a poller goroutine with its context; `session[s]` is a BotSession, whose
`cancel` is `pollCancel`. `overlaps` counts requests that began while another
was working on the same alias. The queue, guard and typing fields of a session
are not part of this module.

### Idempotency

One key: `row` is its row, `cache` its entry in `seenIdemKeys`, `stage[r]` where a
request stands: `insert` and `steal` are the statements of IdempotencyClaim,
`admit`, `send`, `finish` and `release` the handler once it holds the claim.
`path` says which handler serves the key, since they leave the claim in
different ways: a refusal releases it only in `Proxy.Call`, a 4xx of Telegram
counts as completed only in `CallRawWithChat`. The rate guard admits or refuses
at will. `ambiguous`, `robbed` and `expired` are the causes for which the code
cannot promise a single send: it never learnt or recorded that the message went
out, a request was slower than StalePendingS, the record has expired.

### MTSession

`current` is `m.sessions[alias]`, `session[s]` a Session, `sup[s]` where its
supervisor stands, `owner` the descriptor that holds the flock (and so the
`sessionLock` that is not nil), `row` the row of the table, `op[o]` where an
admin request stands in Register, Unregister, RestoreAll, Shutdown, Pause or
Resume. `Loop` is the head of the supervisor's loop; `acquireLock`,
`StartClient`, `Dial`, `ConnectSucceeds`, `ConnectFails` and `StartFailed` are
one attempt. `client` is `up` while `runCancel` is set: a connection
that breaks is noticed by `Ping` only, as in the code. `OtherProcess` is a second
gateway on the same volume. `raced` (a session was torn down between the head
of its supervisor's loop and the end of startClient) and `overlapped` (two
requests that add or remove sessions overlapped) are history variables. Retry
times are abstracted to a cooldown that ends. Not part of this module: the age of
a Python holder's timestamp, PauseSending, PersistStates.

### MTUpdates

`rows` is the table `update_queue`, `belt` the buffered channel `updateCh`, which no
mutex guards: every send on it and every receive from it is a step of its own.
`push[p]` is a pushUpdate call: it draws a number under the mutex (`Draw`), stores
the row (`QueuePush`, or `PersistFails`), goes to the belt (`Belt`, and if that is
full `DropOldest` and `BeltAgain`) and sends to a snapshot of the WebSocket consumers
(`Send`). `Connect`, `ReplayPull`, `ReplayRaise` and `ReplayPut` are startClient;
updates arrive from `Connect` on, and during `ReplayPut` the mutex keeps them out.
`mode` is how the replicas call getUpdates, with an offset (`AckBelow`, `PullRaw`) or
without (`DrainUpdateCh`, `AckDrained`). `PruneStart`, `PruneTake`, `PrunePut` and
`QueueTTLCleanup` are the housekeeping, which empties and refills the belt and then
deletes expired rows. A send on a channel that the WebSocket handler has closed
panics: the process ends. `exposed` (an update whose number was, or may have been,
used before), `evicted` (without offsets, one whose copy left the belt), `delivered`,
`lost` (an acknowledgement deleted its row before anybody received it) and `killed`
(without offsets, one of those whose last copy died with a process) are history
variables.

### RateGuard

`bucket[b]` is a token bucket with its tokens, the time since its refill and what
remains of its pause; `egress`, `peer`, `paidLane` are the other fields of the
two guards, `ledger` the table. `plane` says which guard it is: the planes share
the buckets and differ in who reports a wait and how. `req[r]` is a request in
the admission loop: `Arrive` sets the lane, `TryAcquire` or `Refused` is the first
critical section of an attempt and `AskWaitTime` the second, which ends in a nap or
a synthetic 429; `Flooded` and `Completed` are Telegram's answers, `RecordBackoff` is the write
of the ledger, `ExitPaidLane` the deferred end. The backoff base is a float in the
code and a fraction here; a wait that is no whole number of ticks ends within its last. `PollFlooded` and `PollSave` are
the poller's 429. The probes `ChatSendState` and `Snapshot` are here because they
refill. Instants are relative to now, and a bucket that nobody pauses may be
refilled by the clock at once; the ones under test are refilled lazily, as in
the code. `told` (waits reported), `credit` (what an ideal bucket would still
allow), `short` and `forgotten` (scopes whose wait the ledger or a restart cut)
are history variables.

### Typing

`active` and `cbToChat` are the maps of TypingManager, `loop[l]` a goroutine with
its record: `Check` is the head of a round, `beat`, `onTimeout` and `Select` its
rest, `cleanup` the deferred function. Every critical section of the mutex is an
action; `StopByCallbackID` has two. `batch[a]` is the OnUpdates of a poller, which
reads the settings once per batch. Deadlines are abstracted to "has passed"
(`due`). `swept` (chats whose loop a StopAll removed while it ran) and `late`
(requests of a cancelled loop) are history variables.

### Credentials

`row` and `blob` are the tables `sessions` and `gotd_sessions`; a blob is its
seal, its auth key and who serialised it. `conn[a]` is how a connection uses
them: LoadSession, the exchange of a new key, login, Resave. `run` is
`migrate.Run`, statement by statement: the key, the pass over the `.session`
files, the list of unsealed blobs (`MigrateScan`), the resealing and the report,
whose query of the registered aliases may fail, break off or skip rows.
Statements fail and the command dies (`budget`), and it may run beside the
sidecar with the same key or another. `bot` is what Telegram knows. `alone`,
`mixed`, `crossed`, `promised` and `swept` are history variables.

### Storage

`db` is the main file: its state, its commits and its idempotency tables; `wal`
whether the sidecar file belongs to it; `backups` the backup files. `pc` walks
through the boot: CheckOrQuarantine, restore, Open, schema, migration (one step
per statement), BootTracker with RestoreAll. `boots` is the boots of the window in
`boot_history.json`, each with whether it connected. `maint` is the maintenance pass with VACUUM INTO and
`rotate`. A process may die at any step, the disk may damage the file, a healthy file may fail
its check, and renames, reads, copies and the write of the boot history may fail;
that write is not atomic. `replaced` and `torn` are history variables. One file is
modelled.

## Runs

| run | expectation | shows |
|---|---|---|
| `queue` | pass | dedup set = deque, offset on disk never ahead of memory, memory backed by disk |
| `bus` | pass | `NoSilentLoss`; `SettledFloorsDelivery` |
| `bus_live` | pass | every update is eventually received; refinement of `AtLeastOnce` |
| `lifecycle` | pass | pollers stay stoppable, table = map, Pause silences |
| `idempotency` | pass | the claim is a lock, one send per key, a retried send is eventually made |
| `mt_session` | pass | one connection per auth_key, a quarantine is final, an unregistered session leaves no lock and no connection, a wanted session is connected again and again |
| `mt_updates` | pass | what an acknowledgement deletes unseen and why, numbers are unique, a stored update is pulled |
| `mt_updates_disconnect` | violation | a WebSocket consumer that disconnects during a push ends the process |
| `rate_guard` | pass | writes are paced, WaitTime and TryAcquire agree, waits are honoured and stored, the paid lane is given back |
| `typing` | pass | a loop can be stopped, ends, and sends at most one request too many; a cancelled timeout stays so |
| `credentials` | pass | what the command seals, promises and overwrites, and what the client does to an auth key |
| `storage` | pass | loss is contained and reported, old rows migrate, a crash loop stops connecting, the newest complete backup stays, the process lives |

Several passing statements are conditional, and the condition is where the code
does not promise more. `NoSilentLoss` names, per update, what the overflow policy
gave up and what a reload left on disk behind its cap; it says everything of the
others, under both policies. `SettledFloorsDelivery` holds while no two Acks
overlapped. The lifecycle invariants hold while no two requests for one alias
overlapped: Attach looks up and inserts in two steps. `AtMostOnce` names its three
causes. `OneConnection`, `UnregisterReleases` and `EventuallyConnected` name a
teardown that races startClient, the last two also overlapping registrations.
`AckedWasSeen`, `NumbersUnique` and `EventuallyPulled` except exposed numbers, and
without offsets `AckedWasSeen` also says that some of what it lists is gone for good:
dropped by the full belt, or in memory when the process died. `HonoursRetryAfter` and
`PausesPersist` except the waits a restart, the cap of the adaptive wait, a backoff
base below 1, a shorter row or a failing store cut, and the cooldown after a
PEER_FLOOD, which Telegram gives no wait for; `Paced` starts again with full buckets
after a restart; `WaitTimeExact` excepts the paid lane and the silent bucket, which
WaitTime does not ask; `OwnedUnlessSwept` a StopAll; `CrashLoopStops` the boots that
are not in the file; `NoLoginNeeded` the aliases that the report did not count; `WrongKeyNeverWrites` and `AuthKeyIsKept` a command that runs beside the
sidecar with another key, or under an open connection; `LossIsHandled` a boot
that a fault cut short. Many hazards in `PROJECT.json` are such an exception: the
property that covers one says that nothing else has that effect.

### Bounds

Two concurrent Pulls, two updates and batches of two are enough for two
Acks to overlap, for a push to fall between any two steps of a Pull, and for a
batch to overflow a deque of one; time 2 with TTL 1 separates `<` from `<=`;
two restarts let a second reload see what the first left. `bus` runs both overflow
policies, and its three pushes are one more than a crash needs to make Telegram
deliver again what was rejected or evicted. In the lifecycle two
admin requests, two sessions and two pollers give a token rotation, and a
request that overlaps another. Ages of an idempotency row up to TTL + 1 = 3, with
Stale = 1, are fresh, stale and expired; two requests, two faults and a restart
let a takeover meet a slow request. In `mt_session` two calls, of which the
first may find a row already there, give a rotation, a restore after a restart and
any pair of requests that overlap; one fault is a failing connect, ping or
statement; that more of them change nothing about safety is proved.

`mt_updates`: two pushes in progress overtake each other, a belt of one overflows
with the second update, a replay limit of one leaves a row behind, and two events
are a crash after a failing INSERT, or a consumer that connects before a crash.
`rate_guard`: two requests to one chat report waits of one and two ticks in
either order; capacity and rate are one token, so that the burst, the refill and
the token at the end of a pause are told apart; with a base of 3/2 the second offence
rounds up and reaches the cap of the adaptive wait. `typing`: two goroutines, so that one that was swept runs
beside its successor, and a private and a group chat; two batches, so that the
second extends or replaces the loop of the first; `TypingEnds` rests on that bound,
since a chat that never falls silent extends its deadline for ever. `credentials`: two aliases, two
keys, two runs and one fault, so that a second run finds what a failed or killed
first one left. `storage`: three faults cut short the boot after a boot that was
cut short; `Keep` = 2 with one or no backup reaches the short slice of `rotate`,
with three files its long one.

A process that was shut down stands still, an operator need not act, and Telegram
need not send: `mt_session`, `mt_updates` and `credentials` do not check for
deadlock. Symmetry is used over requests, tokens, aliases and keys, in runs
without liveness only.

### Fairness

`bus_live`: weak fairness of the poller and of every Pull, since goroutines
are scheduled. Strong fairness of a Pull that starts with the largest received
id: a consumer keeps asking, as `PullUpdates` of `pkg/client` does, though each
call may be interrupted by a restart. Nothing is assumed of Telegram, the clock,
faults or restarts.

`idempotency`: time passes and handlers go on; a client without an
answer tries again; strong fairness of `Admit`, since buckets refill and pauses
end, so that not every attempt is refused.

`mt_session`: goroutines in progress go on, and cooldowns end with the
clock. Nothing is assumed of administrators or of the other process.

`mt_updates`: weak fairness per replica: one that pulls with offsets keeps pulling,
and its call ends.
`typing`: a goroutine that runs goes on (its requests have a timeout of ten
seconds), and deadlines pass. `storage`: a supervisor restarts the process, as the
compose file's restart policy does, the boot goes on, the maintenance ticker fires,
and boots leave the window.

## Proofs

`UpdateQueueProofs` proves for every set of requests, maxsize, TTL, batch size,
number of restarts and faults: `TypeCorrect`, `Deduplicates`
(`SeenMatchesQueue`), `StaysBounded` (`Bounded`), `CursorSafe`
(`CursorNotAhead`), `MemoryIsRetained` (`Retained`), and `AckOnlyAdvances`
(`OffsetMonotonic`). Assumption: `QueueAssumption` (maxsize and limit positive,
the other bounds natural numbers). The argument is one inductive invariant,
`QueueInvariant`. It joins the type invariant, `PushConsistent` and the
four state invariants. They are not inductive alone: `Retained` needs
`PushConsistent`, which says that no batch is pending between two calls of
PushAll and that only `reject_new` cuts one short, and all of them need the
types. Deleting from and appending to the deque
are lemmas about sequences, applied once per action.

`UpdateBusProofs` proves for every number of replicas, maxsize, TTL, batch and
limit, both overflow policies and any number of faults and crashes: `NothingIsLost`
(`NoSilentLoss`), `CommittedAckIsFloor` (`SettledFloorsDelivery`) and
`BusImplementsStream` (`ImplementsStream`), from `QueueAssumption` alone. It builds
on `QueueInvariant`. `NoSilentLoss` looks at one update at a time and is not
inductive: an Ack or a confirmation covers every smaller id at once. `Lossless`
says it of prefixes: what is received or acknowledged has only answered updates
before it, what is in memory has only answered or queued ones before it, and what
is on disk, or confirmed to Telegram, only answered or stored ones. `Synced` ties
memory to disk but for the batch about to be committed, `InOrder` orders the deque,
so that a limit cuts off the newest updates and not one in the middle, and `Batched`
says which ids are left of a batch. The crash is the step that needs all of
them: what was only in memory is above the stored Telegram offset, and so is
delivered again. The floor adds that a settled Ack is in `dbOffset` unless its own
upsert is still to come (`Floor`). The refinement maps each action of the bus to one
of `AtLeastOnce` or to a stutter, and uses the invariant in two places: an Ack, whose
prefix `Lossless` covers, and a Pull, which hands out ids beyond the cursor only.

`BotLifecycleProofs` proves for any number of aliases, tokens, requests, sessions and
pollers: `PollersAreStoppable` (`StoppablePollers`), `TableFollowsMap`
(`TableMatchesMap`) and `PausedBotsAreQuiet` (`PauseQuiets`), from
`LifecycleAssumption`. `Types` and `Linked` (map, requests and pollers point at
sessions of their own alias) hold in every state. The rest, `Calm`, holds until two
requests for one alias overlap: no two requests touch one alias (`Excl`), so that
what a request read of its session is still so when it uses it (`Local`), a running
poller is the one its session can cancel and the session is in the map or about to
be shut (`Owned`), and the row agrees with the map unless it is being written
(`Tabled`). None of the three invariants is inductive without `Local`: Pause and
Delete act on a session they looked up some steps before.

`StoreProofs` is about what `internal/store` keeps. It proves of `Storage`, for every
number of backups kept, limit of boots, length of the window and of the boot
history, and any number of faults, failing system calls and crashes: `LossesAreHandled` (`LossIsHandled`),
`OldRowsAreMigrated` (`OldRowsMigrate`), `CrashLoopsStop` (`CrashLoopStops`) and the
action property `RotationIsSafe` (`RotationKeepsNewest`), from `StorageAssumption`
(positive limits, and a history longer than the limit of boots, as the 5 and 50 of
the code are) and `NilAssumption`. In `StorageInv`, `Working` says what a stage of
the boot or of a maintenance pass can rely on; `Handled` follows a quarantine stage
by stage to the state `LossIsHandled` speaks of; `Rows` says of every file, backups
included, that the old rows are in one layout or the other, since a restore may bring
any of them back in the middle of a migration; `Counted` says that the boots that
connected are among the first `MaxBoots` of the history, which bounds their number.
`RotationIsSafe` rests on `Working`: the file a pass works on is the newest, so
what `rotate` keeps has the newest complete file in it.

Of `Idempotency` it proves for any number of requests with one key, any path,
Stale < TTL and any number of faults and restarts: `IdempotencyTyped`,
`ClaimIsALock` (`ClaimExclusive`) and `SendsAtMostOnce` (`AtMostOnce`), from
`IdempotencyAssumption`. `AtMostOnce` is not inductive: the invariant adds
`Recorded`, that a message once sent has a completed row or a request about to
write it, unless one of the three causes applies. The step that matters is a
send: its request holds the claim, so by `ClaimExclusive` the row is pending and
nobody is about to finish, and by `Recorded` nothing was sent before.

`SessionProofs` proves of `MTSession` for any number of sessions, requests, calls, faults and
restarts: `MTTyped`, `SingleOwner` (`OneConnection`), `QuarantineHolds`
(`QuarantineFinal`) and `UnregisterLeavesNothing` (`UnregisterReleases`), from
`MTAssumption` (None and Other are no sessions or tokens, the bounds are natural
numbers). `OneConnection` is not inductive: `Locked`
says that whoever is past acquireLock or connected owns the lock, which survives
a release only because of `TornDown`: a session is stopped before it is
disconnected, and a stopped one that is not starting never starts again. `Attempt`
(a failed attempt has no client and no lock) carries `QuarantineFinal`.
`OpsSound` is what the type invariant needs: a registering request has a token.
`UnregisterReleases` needs an invariant of its own, `Removal`: until a teardown races
a start or registrations overlap, one request changes the alias at a time, a session
it took out of the map is the only one it tears down, and every other session is in
the map, gone, or was never started.

`CredentialsProofs` proves for any number of aliases, bots, keys, runs and faults:
`CredentialsTyped`, `StaysSealed` (`SealedAtRest`), `PromiseIsKept`
(`NoLoginNeeded`), `SealIsKept` (`WrongKeyNeverWrites`) and `KeyIsKept`
(`AuthKeyIsKept`), from `CredentialsAssumption` (finitely many aliases, the
special values are distinct). The invariant `Inv` has a conjunct for each thing a
step relies on: `Phases`, where the command has which locals; `Sealing`, that the
unsealed blobs of a pass without errors are on its list, without which the end of
a run would say nothing; `Connecting` and `Keeping`, which key a connection uses,
without which the client might store another one; `Opening`, that whoever is about
to write has opened what is there; `Working`, what a run alone has done so far,
and `Promising`, which turns it into the promise once the report is written and
holds through the steps of client and command that follow.

`SessionProofs` also proves of `Typing` for any number of bots, chats, callbacks, goroutines and
batches: `LoopsAreOwned` (`OwnedUnlessSwept`), `AtMostOneLate`
(`OneLateRequest`) and `TimeoutStaysCancelled` (`CancelledTimeoutStays`), from
`TypingAssumption` (private and group chats are distinct, Nil is neither a chat nor
a number). `OwnedUnlessSwept` speaks of loops that were not cancelled; it becomes
inductive once `Owned` says it of every running loop, since a cancelled loop in
the map keeps `start` from making a second one. `Leaving` says that a loop which
made its late request can only select and end, and `Armed` that only an armed
timeout falls due. That the goroutine `start` takes is free rests on the
well-foundedness of the natural numbers.

`RateGuardProofs` proves for both planes, any number of chats and requests, and
every rate, capacity and wait: `LaneIsGivenBack` (`LaneHeld`), `WaitsAreStored`
(`PausesPersist`), `WaitsAreHonoured` (`HonoursRetryAfter`), `WritesArePaced`
(`Paced`) and `GuardAgrees` (`WaitTimeExact`), from `RateAssumption`: positive rates
and capacities, distinct special values, and that the powers of the backoff base's
numerator and denominator are integers, which TLC evaluates because the provers do
not know the operator; the base may be a fraction, below 1, or not positive. `LaneHeld` becomes inductive as `Held`, where the holder is on a JSON
route: a raw request with the parameter never touches the lane, and does not close
it. `Honoured` is the reason for `HonoursRetryAfter`: a wait that was reported and
not forgotten (by a restart, the 3600 s cap or a base below 1) is still a pause, at
least as long, of the bucket of its chat or of
the egress, and neither a refill, a probe nor a later shorter wait cuts it.
`Paced` needs `Credited`: the eager bucket of the history covers the tokens, the
time not credited yet, and the token that a pause may be worth when it ends, so
that a refill at any moment pays out what was owed already. `GuardAgrees` follows
from the types alone: a refilled bucket announces zero exactly when it grants.

`MTUpdatesProofs` proves for any number of updates, pushes, replicas and consumers,
any belt, limits and number of faults and deaths: `AcksAreSound` (`AckedWasSeen`) and
`NumbersTellRowsApart` (`NumbersUnique`), from `MTUpdatesAssumption` (the belt and the
limits are positive). The invariant `FlowInv` has two halves. With offsets, `Numbered`
says that a number in flight is nobody else's and that a process which has loaded the
backlog draws above every stored one, and `Seen` that below the offset of a replica
there is nothing it was not given, but for exposed numbers; so the acknowledgement of
an offset deletes nothing else. Without offsets, `Held` says that every row is
accounted for: delivered, expired, exposed, dropped by the belt, or with a copy in
memory, on the belt or in the hands of a push, a replay or the housekeeping, which
hand it to each other one record at a time. Every step keeps such a copy in view
except the death of the process, which is what `killed` records; `Unstarted` covers a
process that has not begun to replay.

Only model-checked is what is out of the prover's reach, liveness:
`EventuallyReceived`, `EventuallySent`, `EventuallyConnected`, `EventuallyPulled`,
`TypingEnds`, `ProcessLives` and `DamageIsReported`.

## Where code and documents disagree

One disagreement has a run of its own, `mt_updates_disconnect`. The others show as
the exceptions in passing properties, or as actions of the models:

- Two overlapping Acks write their offsets in either order (`queue.go:304`); after
  a crash an acknowledged update returns, though README.md:314 says it does not.
- An Ack deletes the rows that a capped reload left on disk (`queue.go:301`), which
  the comment at `queue.go:97` says stay.
- Pause followed by Resume leaves a session without a poller (`session.go:337`, and
  the comment at 330); a failing poll overwrites paused or draining (`session.go:544`,
  and the comment at 607).
- A request that is refused after its claim leaves the claim behind (`proxy.go:232`,
  `mtproto/app.go:474`; `gateway.go:235` describes the release), and retries are
  answered as replays.
- A session that is torn down while it connects goes on without the lock
  (`sessions.go:570`, against docs/architecture.md:125).
- A consumer may acknowledge past an update whose number is drawn and not yet stored
  (`sessions.go:390`, against README.md:148).
- StopAll removes the entries of loops that still run; the loop of the next message
  then loses its entry to the cleanup of the old one (`typing.go:442`, and the
  comment at 86).
- docs/spec.md:348 says that a loop stops before the reply goes upstream; a round under
  way makes one more request after it (`typing.go:349`, 368; `OneLateRequest`).
- `rateguard.go:153` says that the paid lane is armed for one request; it is a flag of
  the guard, and every write in flight meanwhile rides it (`LaneHeld` says no more than
  that it does not outlive the request). WaitTime asks neither the paid nor the silent
  bucket (`rateguard.go:212`, `mt.go:213`): a request refused there naps zero seconds
  and tries again at once, and its naps never add up to the queue timeout.
- Without an offset "delivery = ack" (`mtproto/app.go:674`) deletes by number: rows of
  updates that are still on their way to the belt, or were dropped from it, go too, and
  a crash then leaves nothing of them (`sessions.go:388`: "persist FIRST").
- The maintenance of the Bot API plane runs the DELETE on `admin_audit` on `queue.db`
  too (`botapi/app.go:132`), which has no such table: every pass notes a failure, and
  `/readyz` of a healthy gateway turns degraded.
- README.md:296-308 says that pauses live in memory; `gateway.go:191` stores them.
  The adaptive wait is capped at 3600 s, below a longer FLOOD_WAIT (`mt.go:248`).
- A crash between the quarantine's rename and the restore comes up on an empty file
  beside valid backups (`db.go:83-85`); a crash between DROP and RENAME of the
  migration loses the old keys (`mt.go:104-105`); `rotate` slices beyond its list
  when there are fewer files than it keeps (`db.go:244`); an error of writing the boot
  history is ignored (`health.go:91`), and a crash loop with a read-only or full disk
  connects in every round.
- The key rotation of docs/runbook.md:186-189 leaves blobs that nothing opens
  (`migrate.go:133-136`); registering an alias again with another bot's token keeps
  the old blob (`gotd_client.go:199-200`); a count of the registered aliases that
  fails or breaks off may report 0 logins (`migrate.go:268-276`); a dry run writes `.fernet_key`.

## Not modelled

Reasons per part are in `PROJECT.json`. Left out of the modelled parts: push mode
and Shutdown of the Bot API plane; PauseSending and PersistStates; the age of a Python
holder's timestamp (`lock.go:130`); the offset kept across a token rotation
(`session.go:255`) and one token under two aliases (`session.go:249`); the write probe
of `/readyz`. Left out altogether:
serialization, coercion and `pyformat`, which convert strings and have golden files;
configuration, tracing, versions, HTTP routing and rendering, which have no state
that changes.
