------------------------------ MODULE UpdateQueue ------------------------------
(***************************************************************************)
(* internal/store/queue.go: the update bus between the poller of one bot   *)
(* and the consumers of its updates.  A bounded in-memory deque (q, seen,  *)
(* consumerOffset) is backed by two SQLite tables (rows, dbOffset).        *)
(*                                                                         *)
(* PushAll, Ack and Pull run in different goroutines.  The deque is        *)
(* guarded by the mutex q.mu; the SQL statements run outside of it, so a   *)
(* call is split where the code unlocks:                                   *)
(*    PushAll = PushLock, PushOne*, PushUnlock, PushPersist                *)
(*    Pull    = (AckLocked, AckDelete, AckUpsert)?, Scan, Subscribe, Wake  *)
(* The pusher holds q.mu while push.pc = "loop".  The pool of the          *)
(* database has one connection: a statement is one atomic step.            *)
(* Restart is the death of the process at any point followed by OpenQueue. *)
(* The SELECTs of loadFromDB succeed: OpenQueue has just checked the file  *)
(* and created the tables on the same connection.                          *)
(***************************************************************************)
EXTENDS Integers, Sequences, FiniteSets

CONSTANTS
    Requests,     \* getUpdates calls served at the same time
    MaxSize,      \* Queue.maxsize
    TTL,          \* Queue.ttlS, 0 when updates never expire
    Policies,     \* the values of Queue.overflow to consider
    Limit,        \* the limit argument of Pull
    MaxId,        \* bound: largest update id
    MaxBatch,     \* bound: updates per PushAll
    MaxPushes,    \* bound: calls of PushAll
    MaxTime,      \* bound: clock
    MaxFaults,    \* bound: failing SQL statements and undecodable rows
    MaxRestarts   \* bound: restarts

ASSUME QueueAssumption ==
    /\ MaxSize \in Nat \ {0}
    /\ Limit \in Nat \ {0}
    /\ TTL \in Nat
    /\ Policies \subseteq {"drop_oldest", "reject_new"}
    /\ MaxId \in Nat /\ MaxBatch \in Nat /\ MaxPushes \in Nat
    /\ MaxTime \in Nat /\ MaxFaults \in Nat /\ MaxRestarts \in Nat

VARIABLES
    q,                \* deque of [id, at], front = oldest
    seen,             \* ids for deduplication
    consumerOffset,   \* everything up to it is acknowledged
    unloadedBacklog,  \* rows the last restart left on disk only
    policy,           \* Queue.overflow
    rows,             \* table update_queue: set of [id, at]
    dbOffset,         \* table consumer_offsets
    push,             \* the PushAll in progress
    pc, acked, woken, \* the Pull in progress of every request
    now, pushes, faults, restarts,
    excused,          \* history: ids whose row expired or failed to commit
    corrupt           \* ids whose row no longer decodes

memory  == <<q, seen, consumerOffset, unloadedBacklog>>
disk    == <<rows, dbOffset>>
calls   == <<pc, acked, woken>>
budget  == <<now, pushes, faults, restarts>>
history == <<excused, corrupt>>
qvars   == <<memory, disk, calls, budget, history, push, policy>>

--------------------------------------------------------------------------------
NoId    == 0                \* an update without an update_id
Ids     == 1 .. MaxId
Item    == [id : Nat, at : Nat]
Batches == UNION {[1 .. n -> Ids \cup {NoId}] : n \in 1 .. MaxBatch}

IdsOf(s)  == {s[i].id : i \in DOMAIN s}
RowIds    == {r.id : r \in rows}
Locked    == push.pc = "loop"

\* Mutant: an Ack that takes its argument as it is.
LargerFirst(a, b) == a

Larger(a, b) == IF a > b THEN a ELSE b
Full         == Len(q) >= MaxSize

\* The loops that remove the front of the deque while it satisfies a condition
\* take the longest prefix of positions that do, and forget the ids of its k
\* items.
Prefix(k, positions) == 1 .. k \subseteq positions /\ k + 1 \notin positions

\* Mutant: the ids of the removed items are not forgotten.
PopFrontKeepSeen(k) == q' = SubSeq(q, k + 1, Len(q)) /\ UNCHANGED seen

PopFront(k) ==
    /\ q' = SubSeq(q, k + 1, Len(q))
    /\ seen' = seen \ {q[i].id : i \in 1 .. k}

Idle == [pc |-> "idle", todo |-> <<>>, batch |-> {}, overflow |-> FALSE]

\* A statement fails: a full disk, an I/O error, a lock held too long.
Fault == faults < MaxFaults /\ faults' = faults + 1

Init ==
    /\ q = <<>> /\ seen = {} /\ consumerOffset = 0 /\ unloadedBacklog = 0
    /\ policy \in Policies
    /\ rows = {} /\ dbOffset = 0
    /\ push = Idle
    /\ pc = [c \in Requests |-> "idle"]
    /\ acked = [c \in Requests |-> 0]
    /\ woken = [c \in Requests |-> FALSE]
    /\ now = 0 /\ pushes = 0 /\ faults = 0 /\ restarts = 0
    /\ excused = {} /\ corrupt = {}

--------------------------------------------------------------------------------
(* PushAll *)

Aged(at) == TTL > 0 /\ at <= now - TTL

\* Lock, then pruneExpiredLocked.  The DELETE compares with < where the deque
\* and the reload use <=.
PushLock(updates) ==
    LET stale == {r \in rows : TTL > 0 /\ r.at < now - TTL}
    IN  /\ push.pc = "idle"
        /\ pushes < MaxPushes /\ pushes' = pushes + 1
        /\ push' = [Idle EXCEPT !.pc = "loop", !.todo = updates]
        /\ \E k \in 0 .. Len(q), gone \in {stale, {}} :
              /\ Prefix(k, {i \in DOMAIN q : Aged(q[i].at)})
              /\ PopFront(k)
              /\ IF gone = stale THEN UNCHANGED faults ELSE Fault
              /\ rows' = rows \ gone
              /\ excused' = excused \cup {q[i].id : i \in 1 .. k} \cup {r.id : r \in gone}
        /\ UNCHANGED <<consumerOffset, unloadedBacklog, policy, dbOffset, calls,
                       now, restarts, corrupt>>

\* One turn of the loop over the batch, q.mu held.
PushOne ==
    LET u    == Head(push.todo)
        uid  == IF u # NoId THEN u
                ELSE IF q # <<>> THEN q[Len(q)].id + 1
                ELSE consumerOffset + 1
        rest == IF Full THEN Tail(q) ELSE q
    IN  /\ push.pc = "loop" /\ push.todo # <<>>
        /\ \/ /\ uid \in seen
              /\ push' = [push EXCEPT !.todo = Tail(@)]
              /\ UNCHANGED <<q, seen>>
           \/ /\ uid \notin seen /\ Full /\ policy = "reject_new"
              /\ push' = [push EXCEPT !.todo = <<>>, !.overflow = TRUE]
              /\ UNCHANGED <<q, seen>>
           \/ /\ uid \notin seen /\ ~(Full /\ policy = "reject_new")
              /\ q' = Append(rest, [id |-> uid, at |-> now])
              /\ seen' = (seen \ (IF Full THEN {Head(q).id} ELSE {})) \cup {uid}
              /\ push' = [push EXCEPT !.todo = Tail(@), !.batch = @ \cup {uid}]
        /\ UNCHANGED <<consumerOffset, unloadedBacklog, policy, disk, calls, budget, history>>

\* Mutant: PushAll returns without the transaction.
PushUnlockOnly ==
    /\ push.pc = "loop" /\ push.todo = <<>>
    /\ woken' = [c \in Requests |-> woken[c] \/ pc[c] = "wait"]
    /\ push' = Idle
    /\ UNCHANGED <<memory, disk, policy, pc, acked, budget, history>>

\* signalLocked wakes the requests that hold the current newData channel; a
\* batch cut short by reject_new is returned before it is persisted.
PushUnlock ==
    /\ push.pc = "loop" /\ push.todo = <<>>
    /\ woken' = [c \in Requests |-> woken[c] \/ pc[c] = "wait"]
    /\ push' = IF push.overflow \/ push.batch = {} THEN Idle
               ELSE [push EXCEPT !.pc = "persist"]
    /\ UNCHANGED <<memory, disk, policy, pc, acked, budget, history>>

\* One transaction of INSERT OR IGNORE.  A failing statement loses its row, a
\* failing BEGIN or COMMIT loses them all; PushAll reports success either way.
PushPersist ==
    /\ push.pc = "persist"
    /\ \E lost \in SUBSET push.batch :
          /\ rows' = rows \cup {[id |-> i, at |-> now] : i \in push.batch \ (RowIds \cup lost)}
          /\ excused' = excused \cup lost
          /\ IF lost = {} THEN UNCHANGED faults ELSE Fault
    /\ push' = Idle
    /\ UNCHANGED <<memory, dbOffset, policy, calls, now, pushes, restarts, corrupt>>

--------------------------------------------------------------------------------
(* Pull and Ack *)

Goto(c, l) == pc' = [pc EXCEPT ![c] = l]

PullCall(c) ==
    /\ pc[c] = "idle" /\ Goto(c, "scan")
    /\ UNCHANGED <<memory, disk, policy, push, acked, woken, budget, history>>

\* Mutant: the SQL of an Ack uses the offset of the call, one too large.
AckLockedOffByOne(c, lastSeen) ==
    /\ pc[c] = "idle" /\ ~Locked
    /\ LET offset == Larger(lastSeen, consumerOffset)
       IN  /\ consumerOffset' = offset
           /\ \E k \in 0 .. Len(q) :
                 Prefix(k, {i \in DOMAIN q : q[i].id <= offset}) /\ PopFront(k)
           /\ acked' = [acked EXCEPT ![c] = offset + 1]
    /\ Goto(c, "delete")
    /\ UNCHANGED <<unloadedBacklog, policy, disk, push, woken, budget, history>>

\* The part of Ack under q.mu, for a Pull with offset lastSeen + 1.
AckLocked(c, lastSeen) ==
    /\ pc[c] = "idle" /\ ~Locked
    /\ LET offset == Larger(lastSeen, consumerOffset)
       IN  /\ consumerOffset' = offset
           /\ \E k \in 0 .. Len(q) :
                 Prefix(k, {i \in DOMAIN q : q[i].id <= offset}) /\ PopFront(k)
           /\ acked' = [acked EXCEPT ![c] = offset]
    /\ Goto(c, "delete")
    /\ UNCHANGED <<unloadedBacklog, policy, disk, push, woken, budget, history>>

AckDelete(c) ==
    /\ pc[c] = "delete"
    /\ \/ /\ rows' = {r \in rows : r.id > acked[c]}
          /\ Goto(c, "upsert")
          /\ UNCHANGED <<faults, acked>>
       \/ /\ Fault /\ Goto(c, "scan")
          /\ acked' = [acked EXCEPT ![c] = 0]
          /\ UNCHANGED rows
    /\ UNCHANGED <<memory, dbOffset, policy, push, woken, now, pushes, restarts, history>>

AckUpsert(c) ==
    /\ pc[c] = "upsert" /\ Goto(c, "scan")
    /\ \/ dbOffset' = acked[c] /\ UNCHANGED faults
       \/ Fault /\ UNCHANGED dbOffset
    /\ acked' = [acked EXCEPT ![c] = 0]
    /\ UNCHANGED <<memory, rows, policy, push, woken, now, pushes, restarts, history>>

\* Mutant: a scan that does not compare with the acknowledged offset.
VisibleAll == DOMAIN q

\* The ids one pass over the deque collects: the first Limit unacknowledged.
Visible == {i \in DOMAIN q : q[i].id > consumerOffset}
Out     == {q[i].id : i \in {j \in Visible :
                              Cardinality({k \in Visible : k <= j}) <= Limit}}

\* Collect under q.mu.  With something to return the call returns it; with
\* nothing it goes on to wait, unless its deadline has passed.
Scan(c) ==
    /\ pc[c] = "scan" /\ ~Locked
    /\ \/ Goto(c, "idle")
       \/ Out = {} /\ Goto(c, "subscribe")
    /\ UNCHANGED <<memory, disk, policy, push, acked, woken, budget, history>>

\* Lock again to fetch the channel.  A push between Scan and Subscribe has
\* closed the previous channel, and does not wake this request.
Subscribe(c) ==
    /\ pc[c] = "subscribe" /\ ~Locked /\ Goto(c, "wait")
    /\ UNCHANGED <<memory, disk, policy, push, acked, woken, budget, history>>

Wake(c) ==
    /\ pc[c] = "wait" /\ woken[c] /\ Goto(c, "scan")
    /\ woken' = [woken EXCEPT ![c] = FALSE]
    /\ UNCHANGED <<memory, disk, policy, push, acked, budget, history>>

\* The timer fires or the client goes away.
GiveUp(c) ==
    /\ pc[c] = "wait" /\ Goto(c, "idle")
    /\ woken' = [woken EXCEPT ![c] = FALSE]
    /\ UNCHANGED <<memory, disk, policy, push, acked, budget, history>>

--------------------------------------------------------------------------------
(* Time, and the death of the process followed by OpenQueue *)

Tick ==
    /\ now < MaxTime /\ now' = now + 1
    /\ UNCHANGED <<memory, disk, policy, push, calls, pushes, faults, restarts, history>>

\* loadFromDB: the MaxSize oldest live rows come back in id order, less the
\* ones that no longer decode; acknowledged rows are deleted, expired ones are
\* left out.
Restart ==
    LET live == {r \in rows : r.id > dbOffset /\ ~Aged(r.at)}
        kept == {r \in rows : r.id > dbOffset}
    IN  /\ restarts < MaxRestarts /\ restarts' = restarts + 1
        /\ \E cap \in SUBSET live :
              /\ \A r \in cap, s \in live \ cap : r.id < s.id
              /\ Cardinality(cap) <= MaxSize
              /\ cap # live => Cardinality(cap) = MaxSize
              /\ \E bad \in SUBSET {r.id : r \in cap} :
                    LET load == {r \in cap : r.id \notin bad}
                    IN  /\ corrupt \cap {r.id : r \in cap} \subseteq bad
                        /\ faults' = faults + Cardinality(bad \ corrupt)
                        /\ faults' <= MaxFaults
                        /\ corrupt' = corrupt \cup bad
                        /\ q' \in [1 .. Cardinality(load) -> load]
                        /\ \A i, j \in DOMAIN q' : i < j => q'[i].id < q'[j].id
                        /\ seen' = {r.id : r \in load}
                        /\ unloadedBacklog' = Cardinality(kept) - Cardinality(load)
        /\ consumerOffset' = dbOffset
        /\ rows' = kept
        /\ push' = Idle
        /\ pc' = [c \in Requests |-> "idle"]
        /\ acked' = [c \in Requests |-> 0]
        /\ woken' = [c \in Requests |-> FALSE]
        /\ excused' = excused \cup {r.id : r \in kept \ live}
        /\ UNCHANGED <<policy, dbOffset, now, pushes>>

--------------------------------------------------------------------------------
\* Any poller and any consumers: every batch, every offset.  Ids made up for
\* updates without one stay within the bound.
Next ==
    \/ \E updates \in Batches :
          /\ \A i \in DOMAIN updates : updates[i] = NoId =>
                \A n \in IdsOf(q) \cup {consumerOffset} : n + Len(updates) <= MaxId
          /\ PushLock(updates)
    \/ PushOne \/ PushUnlock \/ PushPersist
    \/ \E c \in Requests :
          \/ PullCall(c)
          \/ \E lastSeen \in {-1, 0} \cup Ids : AckLocked(c, lastSeen)
          \/ AckDelete(c) \/ AckUpsert(c)
          \/ Scan(c) \/ Subscribe(c) \/ Wake(c) \/ GiveUp(c)
    \/ Tick \/ Restart

Spec == Init /\ [][Next]_qvars

--------------------------------------------------------------------------------
(* Properties *)

\* Every variable keeps its type; the tables and the batch are finite.
TypeOK ==
    /\ q \in Seq(Item) /\ seen \subseteq Nat /\ consumerOffset \in Nat
    /\ unloadedBacklog \in Nat /\ policy \in Policies
    /\ rows \subseteq Item /\ IsFiniteSet(rows) /\ dbOffset \in Nat
    /\ push \in [pc : {"idle", "loop", "persist"}, todo : Seq(Nat),
                 batch : SUBSET Nat, overflow : BOOLEAN]
    /\ IsFiniteSet(push.batch)
    /\ pc \in [Requests -> {"idle", "delete", "upsert", "scan", "subscribe", "wait"}]
    /\ acked \in [Requests -> Nat] /\ woken \in [Requests -> BOOLEAN]
    /\ now \in Nat /\ pushes \in Nat /\ faults \in Nat /\ restarts \in Nat
    /\ excused \subseteq Nat /\ corrupt \subseteq Nat

\* The dedup set of PushAll is exactly the ids in the deque, each of them
\* once, through every eviction, prune, ack and reload: no update is queued
\* twice, and none is refused as a redelivery that is no longer queued.
SeenMatchesQueue ==
    /\ seen = IdsOf(q)
    /\ \A i, j \in DOMAIN q : i # j => q[i].id # q[j].id

\* The deque never exceeds maxsize, reload included.
Bounded == Len(q) <= MaxSize

\* The offset on disk, and every one an Ack is about to write, is one the
\* memory has already reached: a restart can never skip an update that no
\* consumer acknowledged.
CursorNotAhead ==
    /\ dbOffset <= consumerOffset
    /\ \A c \in Requests : pc[c] \in {"delete", "upsert"} => acked[c] <= consumerOffset

\* Under drop_oldest an unacknowledged update in memory is also on disk, but
\* for the batch PushAll is about to commit, a row that could not be written,
\* or one the TTL removed.
Retained ==
    policy = "drop_oldest" =>
        \A i \in DOMAIN q : q[i].id > consumerOffset =>
            q[i].id \in RowIds \cup push.batch \cup excused

\* Only a restart moves the acknowledged offset back.
OffsetMonotonic == [][restarts' = restarts => consumerOffset' >= consumerOffset]_qvars
================================================================================
