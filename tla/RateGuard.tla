----------------------------- MODULE RateGuard -----------------------------
(***************************************************************************)
(* Outbound pacing: the token buckets and the pauses of Guard (Bot API     *)
(* plane, internal/rateguard/rateguard.go) and MTGuard (MTProto plane,     *)
(* internal/rateguard/mt.go), the admission loop that drives them          *)
(* (botapi/proxy.go, mtproto/app.go), and the ledger chat_backoff that     *)
(* carries the pauses of a bot across a restart.  Every critical section   *)
(* of the guard's mutex is one action; the paid lane is a flag of the      *)
(* guard that requests write and read outside that mutex.                  *)
(*                                                                         *)
(* Every instant is kept relative to now: a pause is what remains of it,   *)
(* the age of a bucket is the time since its last refill.  A chat bucket   *)
(* or a peer entry that does not exist yet behaves like a fresh one, so    *)
(* all of them exist from the start.                                       *)
(***************************************************************************)
EXTENDS Integers, FiniteSets, FiniteSetsExt

CONSTANTS
    Planes,             \* the planes to model, a subset of {"bot", "mt"}
    Policies,           \* values of on_limit
    Reqs,               \* concurrent requests
    Chats,              \* chats with a numeric id
    Calls,              \* plane -> the requests consumers make on it
    One,                \* parts of a token: a rate may be a fraction of one
    Capacity,           \* bucket -> its capacity, in tokens
    Rate,               \* bucket -> parts of a token per tick
    Waits,              \* scope -> the retry_after values Telegram answers with
    Nap,                \* longest sleep between two attempts (2 s)
    QueueWaitTimeout,   \* GW_QUEUE_WAIT_TIMEOUT
    PeerFloodCooldown,  \* GW_PEER_FLOOD_COOLDOWN
    FloodBackoffNum,    \* GW_FLOOD_BACKOFF_BASE, any float: a fraction, its
    FloodBackoffDen,    \*   numerator and its denominator
    MaxAdaptive,        \* longest adaptive wait (3600 s)
    SlowmodeRespect,    \* GW_SLOWMODE_RESPECT
    MaxOffences,        \* bound: more offences wait no longer
    Nil

Buckets == Chats \cup {"global", "paid", "reads", "silent"}
Pausable == Chats \cup {"global"}
Scopes == Chats \cup {Nil}
Kinds == {"fast", "read", "write", "silent"}

\* What the configuration and the program's tables guarantee.
Configured ==
    /\ Planes \subseteq {"bot", "mt"} /\ Policies \subseteq {"queue", "reject"}
    /\ Nil \notin Buckets \cup Nat /\ Chats \cap {"global", "paid", "reads", "silent"} = {}
    /\ One \in Nat \ {0} /\ Nap \in Nat \ {0} /\ QueueWaitTimeout \in Nat
    /\ Capacity \in [Buckets -> Nat \ {0}] /\ Rate \in [Buckets -> Nat \ {0}]
    /\ \A p \in Planes : Calls[p] \subseteq
            [kind : IF p = "mt" THEN Kinds ELSE Kinds \ {"silent"}, chat : Scopes,
             paid : BOOLEAN, raw : IF p = "mt" THEN {FALSE} ELSE BOOLEAN]
    /\ Waits \in [Scopes -> SUBSET (Nat \ {0})] /\ SlowmodeRespect \in BOOLEAN
    /\ PeerFloodCooldown \in Nat /\ MaxAdaptive \in Nat /\ MaxOffences \in Nat \ {0}
    /\ FloodBackoffNum \in Int /\ FloodBackoffDen \in Nat \ {0}
    /\ \A n \in 0 .. MaxOffences :
            FloodBackoffNum ^ n \in Int /\ FloodBackoffDen ^ n \in Nat \ {0}

ASSUME RateAssumption == Configured

VARIABLES
    plane,      \* which guard this is
    policy,     \* on_limit of the bot
    bucket,     \* bucket -> [tokens, age, pause]
    egress,     \* what remains of egressPausedUntil
    peer,       \* chat -> its peerBackoff
    paidLane,   \* Guard.paidLane
    optIn,      \* PaidEnabled, and PaidBroadcasts of the session
    ledger,     \* chat_backoff: scope -> what remains of paused_until
    poll,       \* wait of a getUpdates 429 that is not in the ledger yet, or 0
    req,        \* request -> its program counter and locals
    told,       \* history: scope -> what remains of the waits reported for it
    credit,     \* history: bucket -> what an eager bucket would still allow
    short,      \* history: scopes whose row is not the longest wait reported
    forgotten   \* history: scopes whose wait a restart dropped or the pause cuts short

guard == <<bucket, egress, peer, paidLane, optIn>>
config == <<plane, policy>>
history == <<told, credit, short, forgotten>>
vars == <<config, guard, ledger, poll, req, history>>

Min2(a, b) == IF a < b THEN a ELSE b
Max2(a, b) == IF a > b THEN a ELSE b

-----------------------------------------------------------------------------
(* One token bucket. *)

Full(b) == Capacity[b] * One

NewBucket(b) == [tokens |-> Full(b), age |-> 0, pause |-> Nil]

\* Mutant: the time of the refill is not noted.
RefillAgain(b, k) ==
    LET ended == k.pause = 0
        had == IF ended THEN Max2(k.tokens, One) ELSE k.tokens
    IN  [tokens |-> Min2(Full(b), had + k.age * Rate[b]), age |-> k.age,
         pause |-> IF ended THEN Nil ELSE k.pause]

\* The time since the last refill is credited, the time spent paused included;
\* the end of a pause is worth at least one token.
Refill(b, k) ==
    LET ended == k.pause = 0
        had == IF ended THEN Max2(k.tokens, One) ELSE k.tokens
    IN  [tokens |-> Min2(Full(b), had + k.age * Rate[b]),
         age |-> 0,
         pause |-> IF ended THEN Nil ELSE k.pause]

\* A refilled bucket that grants a token.
Has(k) == k.pause = Nil /\ k.tokens >= One

NextAvailable(b) ==
    LET k == Refill(b, bucket[b])
    IN  IF k.pause # Nil THEN k.pause
        ELSE IF k.tokens >= One THEN 0
        ELSE (One - k.tokens + Rate[b] - 1) \div Rate[b]

\* Mutant: the latest wait replaces a longer one.
PauseReplaces(k, w) == [k EXCEPT !.tokens = 0, !.pause = w]

\* The tokens go, the time of the last refill stays.
Pause(k, w) ==
    [k EXCEPT !.tokens = 0, !.pause = IF @ = Nil THEN w ELSE Max2(@, w)]

\* The buckets S are refilled, the others are not looked at.
Refilled(S) == [b \in Buckets |-> IF b \in S THEN Refill(b, bucket[b]) ELSE bucket[b]]

-----------------------------------------------------------------------------
(* The guard. *)

Known(c) == {c} \ {Nil}

\* A pause that refuses every method: of the whole egress, or of the peer.
Blocked(c) ==
    \/ egress > 0
    \/ plane = "mt" /\ c # Nil /\ peer[c].pause > 0

LaneBucket == IF paidLane THEN "paid" ELSE "global"

\* The buckets a granted request pays from.
Charged(kind, c) ==
    CASE kind = "fast" -> {}
      [] kind = "read" -> {"reads"}
      [] kind = "silent" -> {"silent"}
      [] kind = "write" -> Known(c) \cup {LaneBucket}

Granted(kind, c) ==
    /\ ~Blocked(c)
    /\ \A b \in Charged(kind, c) : Has(Refill(b, bucket[b]))

\* A chat that refuses keeps the attempt away from the other buckets.
Touched(kind, c) ==
    IF Blocked(c) THEN {}
    ELSE IF kind = "write" /\ \E b \in Known(c) : ~Has(Refill(b, bucket[b])) THEN Known(c)
    ELSE Charged(kind, c)

\* Mutant: the chat is not asked.
AskedGlobally(kind, c) ==
    CASE kind = "fast" -> {}
      [] kind = "read" -> {"reads"}
      [] OTHER -> {"global"}

\* The buckets WaitTime asks: neither the paid nor the silent one.
Asked(kind, c) ==
    CASE kind = "fast" -> {}
      [] kind = "read" -> {"reads"}
      [] OTHER -> {"global"} \cup Known(c)

WaitTime(kind, c) ==
    Max({egress}
        \cup (IF plane = "mt" THEN {peer[d].pause : d \in Known(c)} ELSE {})
        \cup {NextAvailable(b) : b \in Asked(kind, c)})

\* The bucket that the pause of a scope empties.
Place(c) == IF c = Nil THEN "global" ELSE c

\* A pause of a chat, or of the whole egress.
PauseScope(c, w) ==
    /\ bucket' = [bucket EXCEPT ![Place(c)] = Pause(@, w)]
    /\ egress' = IF c = Nil THEN Max2(egress, w) ELSE egress

\* History: one more wait for the scope; the end of the pause may be worth a token.
Learn(c, w, pause) ==
    /\ told' = [told EXCEPT ![c] = Max2(@, w)]
    /\ credit' = [b \in Pausable |-> IF b = Place(c) THEN Min2(Full(b), credit[b] + One) ELSE credit[b]]
    /\ forgotten' = IF w < told[c] THEN forgotten
                    ELSE IF pause < w THEN forgotten \cup {c} ELSE forgotten \ {c}
    /\ UNCHANGED short

Report429(c, w) ==
    /\ PauseScope(c, w)
    /\ Learn(c, w, w)
    /\ UNCHANGED peer

NoPeer == [offences |-> 0, pause |-> 0]

\* a / b as a number of ticks: a pause lasts through the tick it ends in, and
\* one that would have ended already is over.
Ticks(a, b) == Max2((a + b - 1) \div b, 0)

\* wait * base ^ (offences - 1), and its cap.
Adaptive(w, offences) ==
    Min2(Ticks(w * FloodBackoffNum ^ (offences - 1), FloodBackoffDen ^ (offences - 1)),
         MaxAdaptive)

\* What ParseFloodWait tells apart; flood_premium is treated like flood_wait.
FloodTypes == {"flood_wait", "slowmode", "peer_flood"}

\* Nothing is learned from a slow mode that the configuration ignores, nor from
\* a PEER_FLOOD of no known peer.
Ignored(c, type) ==
    \/ type = "slowmode" /\ ~SlowmodeRespect
    \/ type = "peer_flood" /\ c = Nil

\* What ParseFloodWait found in the error, for a chat or for none.
ReportFloodWait(c, type, w) ==
    LET n == Min2(peer[c].offences + 1, MaxOffences)
        pause == IF c = Nil THEN w
                 ELSE IF type = "peer_flood" THEN PeerFloodCooldown ELSE Adaptive(w, n)
    IN  /\ peer' = IF c = Nil \/ Ignored(c, type) THEN peer
                   ELSE [peer EXCEPT ![c] = [offences |-> n, pause |-> pause]]
        /\ IF type = "peer_flood" \/ Ignored(c, type)
           THEN UNCHANGED <<bucket, egress, history>>
           ELSE PauseScope(c, pause) /\ Learn(c, w, pause)

ClearPeerBackoff(c) == peer' = IF c = Nil THEN peer ELSE [peer EXCEPT ![c] = NoPeer]

-----------------------------------------------------------------------------
(* One request. *)

Idle == [pc |-> "idle", kind |-> Nil, chat |-> Nil, paid |-> FALSE, raw |-> FALSE,
         waited |-> 0, sleep |-> 0, wait |-> 0]

Goto(r, pc) == req' = [req EXCEPT ![r].pc = pc]

\* The answer is on its way.  Only the JSON routes have to leave the paid lane.
Left(q) == IF q.raw THEN Idle ELSE [Idle EXCEPT !.pc = "exit", !.paid = q.paid]

Done(r) == req' = [req EXCEPT ![r] = Left(@)]

Arrived(call) ==
    [Idle EXCEPT !.pc = IF call.paid /\ ~call.raw THEN "check" ELSE "try",
                 !.kind = call.kind, !.chat = call.chat, !.paid = call.paid, !.raw = call.raw]

\* A request arrives and, on a JSON route, sets the lane.  Its scope is the numeric
\* chat id; a name that getChat does not resolve, or a form field behind the
\* streamed prefix, leaves it without one.
Arrive(r, call) ==
    /\ req[r].pc = "idle"
    /\ paidLane' = IF call.raw THEN paidLane ELSE call.paid /\ optIn
    /\ req' = [req EXCEPT ![r] = Arrived(call)]
    /\ UNCHANGED <<config, bucket, egress, peer, optIn, ledger, poll, history>>

\* 403 without the opt-in of the gateway.
CheckOptIn(r) ==
    /\ req[r].pc = "check"
    /\ IF optIn THEN Goto(r, "try") ELSE Done(r)
    /\ UNCHANGED <<config, guard, ledger, poll, history>>

Attempts(r) == req[r].pc = "try" \/ (req[r].pc = "sleep" /\ req[r].sleep = 0)

Sent(q) == [Idle EXCEPT !.pc = "sent", !.chat = q.chat, !.paid = q.paid, !.raw = q.raw]

\* The guard lets the request through.
TryAcquire(r) ==
    LET q == req[r]
        paid == Charged(q.kind, q.chat)
    IN  /\ Attempts(r) /\ Granted(q.kind, q.chat)
        /\ bucket' = [b \in Buckets |-> IF b \in paid
                        THEN [Refill(b, bucket[b]) EXCEPT !.tokens = @ - One] ELSE bucket[b]]
        /\ credit' = [b \in Pausable |-> IF b \in paid THEN credit[b] - One ELSE credit[b]]
        /\ req' = [req EXCEPT ![r] = Sent(q)]
        /\ UNCHANGED <<config, egress, peer, paidLane, optIn, ledger, poll,
                       told, short, forgotten>>

\* A form or multipart body, a method that is no write and the policy reject do
\* not wait for the guard.
Rejects(q) ==
    q.raw \/ policy = "reject" \/ (plane = "bot" /\ q.kind # "write")

\* Only the Bot API plane counts the nap it is about to take.
Expired(q, nap) == q.waited + (IF plane = "bot" THEN nap ELSE 0) > QueueWaitTimeout

Napping(q, nap) == [q EXCEPT !.pc = "sleep", !.sleep = nap, !.waited = @ + nap]

\* It does not.
Refused(r) ==
    LET q == req[r]
    IN  /\ Attempts(r) /\ ~Granted(q.kind, q.chat)
        /\ bucket' = Refilled(Touched(q.kind, q.chat))
        /\ Goto(r, "refused")
        /\ UNCHANGED <<config, egress, peer, paidLane, optIn, ledger, poll, history>>

\* A second critical section, WaitTime: a synthetic 429, or a nap before the next
\* attempt.
AskWaitTime(r) ==
    LET q == req[r]
        nap == Min2(WaitTime(q.kind, q.chat), Nap)
    IN  /\ q.pc = "refused"
        /\ bucket' = Refilled(Asked(q.kind, q.chat))
        /\ IF Rejects(q) \/ Expired(q, nap) THEN Done(r)
           ELSE req' = [req EXCEPT ![r] = Napping(q, nap)]
        /\ UNCHANGED <<config, egress, peer, paidLane, optIn, ledger, poll, history>>

\* The consumer hangs up while its request is queued.
ClientGone(r) ==
    /\ req[r].pc = "sleep"
    /\ Done(r)
    /\ UNCHANGED <<config, guard, ledger, poll, history>>

\* Telegram's answer is no rate limit; a success clears the peer's backoff.
Completed(r, ok) ==
    /\ req[r].pc = "sent"
    /\ IF ok /\ plane = "mt" THEN ClearPeerBackoff(req[r].chat) ELSE UNCHANGED peer
    /\ Done(r)
    /\ UNCHANGED <<config, bucket, egress, paidLane, optIn, ledger, poll, history>>

\* Telegram's answer is a 429 or a FLOOD_WAIT.  On the MTProto plane AdaptiveWait
\* then makes retry_after of the answer; no state depends on it.
Flooded(r, type, w) ==
    /\ req[r].pc = "sent"
    /\ IF plane = "mt" THEN ReportFloodWait(req[r].chat, type, w)
       ELSE type = "flood_wait" /\ Report429(req[r].chat, w)
    /\ req' = [req EXCEPT ![r] = IF plane = "mt" THEN Left(@)
                                 ELSE [@ EXCEPT !.pc = "save", !.wait = w]]
    /\ UNCHANGED <<config, paidLane, optIn, ledger, poll>>

\* The row is overwritten, not raised; an error of the store is only logged.
SaveBackoff(c, w) ==
    \/ /\ ledger' = [ledger EXCEPT ![c] = w]
       /\ short' = IF w < told[c] THEN short \cup {c} ELSE short \ {c}
    \/ /\ short' = IF told[c] > ledger[c] THEN short \cup {c} ELSE short
       /\ UNCHANGED ledger

\* Mutant: nothing is saved.
RecordNothing(r) ==
    /\ req[r].pc = "save"
    /\ Done(r)
    /\ UNCHANGED <<config, guard, ledger, poll, history>>

RecordBackoff(r) ==
    /\ req[r].pc = "save"
    /\ SaveBackoff(req[r].chat, req[r].wait)
    /\ Done(r)
    /\ UNCHANGED <<config, guard, poll, told, credit, forgotten>>

\* Mutant: the lane stays armed.
ExitArmed(r) ==
    /\ req[r].pc = "exit"
    /\ req' = [req EXCEPT ![r] = Idle]
    /\ UNCHANGED <<config, guard, ledger, poll, history>>

ExitPaidLane(r) ==
    /\ req[r].pc = "exit"
    /\ paidLane' = FALSE
    /\ req' = [req EXCEPT ![r] = Idle]
    /\ UNCHANGED <<config, bucket, egress, peer, optIn, ledger, poll, history>>

-----------------------------------------------------------------------------
(* The poller, the administrator, the probes, the clock and the process. *)

PollFlooded(w) ==
    /\ plane = "bot" /\ poll = 0
    /\ Report429(Nil, w)
    /\ poll' = w
    /\ UNCHANGED <<config, paidLane, optIn, ledger, req>>

PollSave ==
    /\ poll > 0 /\ poll' = 0
    /\ SaveBackoff(Nil, poll)
    /\ UNCHANGED <<config, guard, req, told, credit, forgotten>>

\* POST /admin/bots/{alias}/paid.
SetPaid(v) ==
    /\ optIn # v /\ optIn' = v
    /\ UNCHANGED <<config, bucket, egress, peer, paidLane, ledger, poll, req, history>>

\* The read-only probes refill the buckets they look at: the typing loop's ...
ChatSendState(c) ==
    /\ plane = "bot" /\ egress = 0
    /\ bucket' = Refilled({"global"} \cup
                    {b \in Known(c) : bucket[b].pause = Nil \/ bucket[b].pause = 0})
    /\ UNCHANGED <<config, egress, peer, paidLane, optIn, ledger, poll, req, history>>

\* ... and the status page's.
Snapshot ==
    /\ bucket' = Refilled(Chats)
    /\ UNCHANGED <<config, egress, peer, paidLane, optIn, ledger, poll, req, history>>

Less(n) == IF n = Nil THEN Nil ELSE Max2(n - 1, 0)

\* A bucket as old as this is full after the next refill.
OldAge(b) == (Full(b) + Rate[b] - 1) \div Rate[b]

\* A bucket that nothing pauses may be refilled at once; another one ages.
Tick ==
    /\ bucket' = [b \in Buckets |-> IF b \in Pausable
            THEN [bucket[b] EXCEPT !.age = Min2(@ + 1, OldAge(b)), !.pause = Less(@)]
            ELSE [bucket[b] EXCEPT !.tokens = Min2(Full(b), @ + Rate[b])]]
    /\ egress' = Less(egress)
    /\ peer' = [c \in Chats |-> [peer[c] EXCEPT !.pause = Less(@)]]
    /\ ledger' = [c \in Scopes |-> Less(ledger[c])]
    /\ req' = [r \in Reqs |-> [req[r] EXCEPT !.sleep = Less(@)]]
    /\ told' = [c \in Scopes |-> Less(told[c])]
    /\ credit' = [b \in Pausable |-> Min2(Full(b), credit[b] + Rate[b])]
    /\ short' = {c \in short : told[c] > 1}
    /\ forgotten' = {c \in forgotten : told[c] > 1}
    /\ UNCHANGED <<config, paidLane, optIn, poll>>

\* The guard of a session is rebuilt; a bot takes its pauses from the ledger.
RestoreBackoffs ==
    LET left(c) == IF plane = "bot" THEN ledger[c] ELSE 0
        scope(b) == IF b = "global" THEN Nil ELSE b
    IN  /\ bucket' = [b \in Buckets |->
                IF b \in Pausable /\ left(scope(b)) > 0
                THEN Pause(NewBucket(b), left(scope(b))) ELSE NewBucket(b)]
        /\ egress' = left(Nil)
        /\ forgotten' = {c \in Scopes : told[c] > left(c)}

\* RestoreAll attaches without on_limit and without the opt-in, which the store
\* does not keep.
Restart ==
    /\ RestoreBackoffs
    /\ peer' = [c \in Chats |-> NoPeer]
    /\ paidLane' = FALSE /\ optIn' = FALSE
    /\ policy' = IF plane = "bot" THEN "queue" ELSE policy
    /\ poll' = 0
    /\ req' = [r \in Reqs |-> Idle]
    /\ credit' = [b \in Pausable |-> Full(b)]
    /\ UNCHANGED <<plane, ledger, told, short>>

-----------------------------------------------------------------------------

Init ==
    /\ plane \in Planes /\ policy \in Policies
    /\ bucket = [b \in Buckets |-> NewBucket(b)]
    /\ egress = 0
    /\ peer = [c \in Chats |-> NoPeer]
    /\ paidLane = FALSE /\ optIn \in (IF plane = "bot" THEN BOOLEAN ELSE {FALSE})
    /\ ledger = [c \in Scopes |-> 0]
    /\ poll = 0
    /\ req = [r \in Reqs |-> Idle]
    /\ told = [c \in Scopes |-> 0]
    /\ credit = [b \in Pausable |-> Full(b)]
    /\ short = {} /\ forgotten = {}

\* What a request does once it has arrived.
Proceed(r) ==
    \/ CheckOptIn(r) \/ TryAcquire(r) \/ Refused(r) \/ AskWaitTime(r)
    \/ \E ok \in BOOLEAN : Completed(r, ok)
    \/ \E type \in FloodTypes, w \in Waits[req[r].chat] : Flooded(r, type, w)
    \/ RecordBackoff(r) \/ ExitPaidLane(r)

Next ==
    \/ \E r \in Reqs :
        \/ \E call \in Calls[plane] : Arrive(r, call)
        \/ Proceed(r)
        \/ ClientGone(r)
    \/ \E w \in Waits[Nil] : PollFlooded(w)
    \/ PollSave
    \/ \E v \in BOOLEAN : SetPaid(v)
    \/ \E c \in Scopes : ChatSendState(c)
    \/ Snapshot
    \/ Tick
    \/ Restart

Spec == Init /\ [][Next]_vars

-----------------------------------------------------------------------------
(* Properties. *)

\* The paid lane is shared by the requests of a session, so a request that did
\* not ask for it may ride it; but only while one that did is in flight: the
\* flag never outlives the last paid request (EnterPaidLane, ExitPaidLane).
LaneHeld ==
    paidLane => \E r \in Reqs : req[r].paid /\ req[r].pc # "idle"

\* The two algorithms of the guard agree: off the paid lane WaitTime is zero
\* exactly when TryAcquire grants, so a refused request sleeps before it tries
\* again.  Methods on the silent bucket are the exception: WaitTime does not ask it.
WaitTimeExact ==
    \A kind \in Kinds \ {"silent"}, c \in Scopes :
        ~paidLane => (Granted(kind, c) <=> WaitTime(kind, c) = 0)

\* Over any stretch of time the writes a chat, or the free lane, lets through are
\* at most the burst, plus the rate times the time, plus one per pause: neither
\* the lazy refill, the probes nor the token at the end of a pause adds up to more.
\* A restart starts the count again: the buckets of a new process are full.
Paced == \A b \in Pausable : credit[b] >= 0

\* docs/spec.md "Never resend to the same target before the wait expires": no
\* write to a chat is granted during a wait reported for it, and nothing at all
\* during a bot-wide one.  Late successes that clear the peer entry and shorter
\* waits reported later do not break it.  It excepts the waits that a restart
\* forgot, the ones longer than the cap of the adaptive wait and the ones that a
\* backoff base below 1 shortens.  The cooldown after a PEER_FLOOD, which names no
\* wait, is not among them: the next success of the peer ends it.
HonoursRetryAfter ==
    [][\A r \in Reqs : req[r].pc # "sent" /\ req'[r].pc = "sent" =>
            /\ told[Nil] = 0 \/ Nil \in forgotten
            /\ req[r].kind = "write" /\ req[r].chat # Nil =>
                    told[req[r].chat] = 0 \/ req[r].chat \in forgotten]_vars

\* The ledger of a bot holds every wait reported, once the request that met it has
\* saved it, except for the rows that a shorter wait overwrote or that the store
\* failed to write.
PausesPersist ==
    plane = "bot" => \A c \in Scopes : told[c] > ledger[c] =>
        \/ c \in short
        \/ \E r \in Reqs : req[r].pc = "save" /\ req[r].chat = c
        \/ c = Nil /\ poll > 0
        \/ c \in forgotten
=============================================================================
