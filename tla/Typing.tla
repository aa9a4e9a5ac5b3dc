------------------------------- MODULE Typing -------------------------------
(***************************************************************************)
(* The automatic typing indicator of internal/botapi/typing.go: one        *)
(* goroutine ("loop") per chat that awaits a reply, the map that owns the  *)
(* loops, the index of callback queries, and the three layers of settings. *)
(* Every critical section of TypingManager.mu is one action.  A loop reads *)
(* its record and the settings without that mutex, so its deadline check,  *)
(* its notice and its beats are separate steps.                            *)
(*                                                                         *)
(* Time is abstracted to "the deadline of this loop has passed" (due).     *)
(* The interval of a loop is long compared with a scheduling delay: a      *)
(* select entered with a done context never sees its timer fire first.     *)
(***************************************************************************)
EXTENDS Naturals, FiniteSets

CONSTANTS
    Aliases,        \* bots
    Private,        \* chats with a positive id
    Groups,         \* chats with a negative id
    Callbacks,      \* callback query ids
    MaxLoops,       \* bound on the goroutines alive at once
    MaxBatch,       \* bound on the updates of one getUpdates answer
    MaxBatches,     \* bound on the answers that reach OnUpdates
    MaxChanges,     \* bound on the changes of settings and of the rate guard
    Boot,           \* the gateway-wide settings of the environment at boot
    GlobalPatches,  \* settings an administrator may post for the gateway
    BotPatches,     \* settings an administrator may post for one bot
    Nil

ASSUME TypingAssumption ==
    /\ Private \cap Groups = {} /\ Nil \notin Nat \cup Private \cup Groups
    /\ MaxLoops \in Nat /\ MaxBatch \in Nat /\ MaxBatches \in Nat /\ MaxChanges \in Nat
    /\ Boot \in [enabled : BOOLEAN, private_only : BOOLEAN]
    /\ GlobalPatches \cup BotPatches \subseteq
           [enabled : BOOLEAN \cup {Nil}, private_only : BOOLEAN \cup {Nil}]

VARIABLES
    global,     \* RuntimeTypingSettings
    override,   \* alias -> the typing* pointers of its BotSession
    sendState,  \* alias -> chat -> what Guard.ChatSendState answers
    active,     \* alias -> chat -> the loop in the map, or Nil
    cbToChat,   \* callback id -> the alias and chat it came from, or Nil
    closed,     \* TypingManager.closed
    loop,       \* goroutine -> its record and program counter
    batch,      \* alias -> the OnUpdates call of its poller
    answering,  \* alias -> chat a StopByCallbackID is about to stop, or Nil
    batches,    \* number of OnUpdates calls so far
    changes,    \* number of changes of settings and of the rate guard so far
    swept,      \* history: chats whose loop StopAll cancelled and still runs
    late        \* history: loop -> requests it made after it was cancelled

env == <<global, override, sendState, changes>>
pollers == <<batch, batches, answering>>
history == <<swept, late>>

vars == <<env, active, cbToChat, closed, loop, pollers, history>>

Chats == Private \cup Groups
Loops == 1 .. MaxLoops
Settings == [enabled : BOOLEAN, private_only : BOOLEAN]
TypingPatch == [enabled : BOOLEAN \cup {Nil}, private_only : BOOLEAN \cup {Nil}]

-----------------------------------------------------------------------------
(* Settings. *)

\* A layer with the non-nil fields of a patch written over it.
Patched(layer, patch) ==
    [f \in DOMAIN layer |-> IF patch[f] = Nil THEN layer[f] ELSE patch[f]]

\* The per-bot layer over the gateway-wide one.
effective(a) == Patched(global, override[a])

\* Whether the settings allow the indicator in a chat.
Allows(eff, c) == eff.enabled /\ (eff.private_only => c \in Private)

\* POST /admin/settings/typing.
Apply(patch) ==
    /\ changes < MaxChanges /\ changes' = changes + 1
    /\ global' = Patched(global, patch)
    /\ UNCHANGED <<override, sendState, active, cbToChat, closed, loop, pollers, history>>

\* POST /admin/bots/{alias}/typing: all five pointers are replaced, so a field
\* that the body leaves out loses its override.
SetBotTyping(a, patch) ==
    /\ changes < MaxChanges /\ changes' = changes + 1
    /\ override' = [override EXCEPT ![a] = patch]
    /\ UNCHANGED <<global, sendState, active, cbToChat, closed, loop, pollers, history>>

\* The rate guard's view of a chat changes under the loop's feet.
ChatSendState(a, c, st) ==
    /\ changes < MaxChanges /\ changes' = changes + 1
    /\ sendState[a][c] # st
    /\ sendState' = [sendState EXCEPT ![a][c] = st]
    /\ UNCHANGED <<global, override, active, cbToChat, closed, loop, pollers, history>>

-----------------------------------------------------------------------------
(* Starting a loop. *)

NoLoop == [pc |-> "free", alias |-> Nil, chat |-> Nil, notify |-> FALSE,
           due |-> FALSE, cancelled |-> FALSE]

NoBatch == [left |-> 0, eff |-> Nil, chat |-> Nil]

Running(l) == loop[l].pc # "free"

\* The poller hands a batch over; the settings are read once for all of it.
OnUpdates(a, n) ==
    /\ batch[a] = NoBatch /\ batches < MaxBatches
    /\ batches' = batches + 1
    /\ batch' = [batch EXCEPT ![a] =
           IF effective(a).enabled THEN [NoBatch EXCEPT !.left = n, !.eff = effective(a)]
                                   ELSE NoBatch]
    /\ UNCHANGED <<env, active, cbToChat, closed, loop, answering, history>>

\* On to the next update of a batch.
NextUpdate(b) == IF b.left = 1 THEN NoBatch ELSE [b EXCEPT !.left = @ - 1, !.chat = Nil]

\* The next update of the batch comes from no chat (chatOfUpdate), or from a
\* chat the settings leave out.
UpdateSkipped(a) ==
    /\ batch[a].left > 0 /\ batch[a].chat = Nil
    /\ batch' = [batch EXCEPT ![a] = NextUpdate(@)]
    /\ UNCHANGED <<env, active, cbToChat, closed, loop, batches, answering, history>>

\* The next update is a user action in chat c; a button press (cb # Nil) is
\* indexed first, and a rate-paused chat goes no further.
UserAction(a, c, cb) ==
    /\ batch[a].left > 0 /\ batch[a].chat = Nil
    /\ Allows(batch[a].eff, c)
    /\ cbToChat' = [k \in Callbacks |-> IF k = cb THEN <<a, c>> ELSE cbToChat[k]]
    /\ batch' = [batch EXCEPT ![a] =
           IF sendState[a][c] = "paused" THEN NextUpdate(@) ELSE [@ EXCEPT !.chat = c]]
    /\ UNCHANGED <<env, active, closed, loop, batches, answering, history>>

\* Mutant: a new user action arms a cancelled timeout again.
Rearmed(rec) == [rec EXCEPT !.due = FALSE, !.notify = TRUE]

\* The deadline pushed out, but never one the consumer cancelled.
Extended(rec) == IF rec.notify THEN [rec EXCEPT !.due = FALSE] ELSE rec

\* A record in the map is extended, whether or not its goroutine is still going
\* to look at it; otherwise a record and a goroutine are made.
start(a) ==
    LET c == batch[a].chat
        rec == active[a][c]
        new == CHOOSE l \in Loops : ~Running(l)
    IN  /\ c # Nil
        /\ batch' = [batch EXCEPT ![a] = NextUpdate(@)]
        /\ \/ closed /\ UNCHANGED <<loop, active>>
           \/ /\ ~closed /\ rec # Nil
              /\ loop' = [loop EXCEPT ![rec] = Extended(@)]
              /\ UNCHANGED active
           \/ /\ ~closed /\ rec = Nil
              /\ \E l \in Loops : ~Running(l)
              /\ loop' = [loop EXCEPT ![new] =
                     [NoLoop EXCEPT !.pc = "top", !.alias = a, !.chat = c, !.notify = TRUE]]
              /\ active' = [active EXCEPT ![a][c] = new]
        /\ UNCHANGED <<env, cbToChat, closed, batches, answering, history>>

-----------------------------------------------------------------------------
(* A loop. *)

DeadlinePasses(l) ==
    /\ Running(l) /\ loop[l].notify /\ ~loop[l].due
    /\ loop' = [loop EXCEPT ![l].due = TRUE]
    /\ UNCHANGED <<env, active, cbToChat, closed, pollers, history>>

\* Whether the settings or the rate guard end loop l.
Excluded(l) ==
    \/ ~Allows(effective(loop[l].alias), loop[l].chat)
    \/ sendState[loop[l].alias][loop[l].chat] = "paused"

\* With an empty bucket the beat is skipped.
BeatOrSkip(l) ==
    IF sendState[loop[l].alias][loop[l].chat] = "ok" THEN "beat" ELSE "select"

\* Mutant: the deadline is not looked at.
CheckNoDeadline(l) ==
    /\ loop[l].pc = "top"
    /\ loop' = [loop EXCEPT ![l].pc = IF Excluded(l) THEN "ended" ELSE BeatOrSkip(l)]
    /\ UNCHANGED <<env, active, cbToChat, closed, pollers, history>>

\* The head of the loop: settings, rate guard and deadline, in this order.
Check(l) ==
    /\ loop[l].pc = "top"
    /\ loop' = [loop EXCEPT ![l].pc =
           IF Excluded(l) THEN "ended"
           ELSE IF loop[l].due THEN "expired" ELSE BeatOrSkip(l)]
    /\ UNCHANGED <<env, active, cbToChat, closed, pollers, history>>

\* One request to Telegram by loop l; it counts as late once l is cancelled.
Requests(l) == late' = [late EXCEPT ![l] = IF loop[l].cancelled THEN @ + 1 ELSE @]

\* sendChatAction, straight upstream; a failure is only logged.
beat(l) ==
    /\ loop[l].pc = "beat"
    /\ loop' = [loop EXCEPT ![l].pc = "select"]
    /\ Requests(l)
    /\ UNCHANGED <<env, active, cbToChat, closed, pollers, swept>>

\* Mutant: a notice that fails is sent again.
onTimeoutRetries(l) ==
    /\ loop[l].pc = "expired"
    /\ loop' = [loop EXCEPT ![l].pc = "ended"]
    /\ late' = [late EXCEPT ![l] = IF loop[l].cancelled THEN @ + 2 ELSE @]
    /\ UNCHANGED <<env, active, cbToChat, closed, pollers, swept>>

\* The notice goes to private chats whose timeout was not cancelled.
onTimeout(l) ==
    /\ loop[l].pc = "expired"
    /\ loop' = [loop EXCEPT ![l].pc = "ended"]
    /\ IF loop[l].chat \in Private /\ loop[l].notify THEN Requests(l) ELSE UNCHANGED late
    /\ UNCHANGED <<env, active, cbToChat, closed, pollers, swept>>

\* A done context ends the loop; the timer starts the next round.
Select(l) ==
    /\ loop[l].pc = "select"
    /\ loop' = [loop EXCEPT ![l].pc = IF loop[l].cancelled THEN "ended" ELSE "top"]
    /\ UNCHANGED <<env, active, cbToChat, closed, pollers, history>>

Unmapped(a, c) == [active EXCEPT ![a][c] = Nil]

\* The deferred cleanup removes the entry of the chat, whichever loop owns it,
\* and every callback of the chat.
cleanup(l) ==
    LET a == loop[l].alias
        c == loop[l].chat
    IN  /\ loop[l].pc = "ended"
        /\ active' = Unmapped(a, c)
        /\ cbToChat' = [k \in Callbacks |->
               IF cbToChat[k] = <<a, c>> THEN Nil ELSE cbToChat[k]]
        /\ loop' = [loop EXCEPT ![l] = NoLoop]
        /\ swept' = IF \E k \in Loops \ {l} : loop[k].alias = a /\ loop[k].chat = c
                    THEN swept ELSE swept \ {<<a, c>>}
        /\ late' = [late EXCEPT ![l] = 0]
        /\ UNCHANGED <<env, closed, pollers>>

-----------------------------------------------------------------------------
(* Stopping loops. *)

\* The loops that a set of map entries point to, cancelled.
Cancelled(entries) ==
    [l \in Loops |-> IF \E e \in entries : active[e[1]][e[2]] = l
                     THEN [loop[l] EXCEPT !.cancelled = TRUE] ELSE loop[l]]

\* Mutant: the entry is removed while the loop still runs.
StopForgets(a, c) ==
    /\ loop' = Cancelled({<<a, c>>})
    /\ active' = [active EXCEPT ![a][c] = Nil]
    /\ UNCHANGED <<env, cbToChat, closed, pollers, history>>

\* A write to the chat (JSON, form or multipart), sendChatAction other than
\* cancel_timeout: the entry stays in the map until the loop has ended.
Stop(a, c) ==
    /\ loop' = Cancelled({<<a, c>>})
    /\ UNCHANGED <<env, active, cbToChat, closed, pollers, history>>

\* Pause, Drain, Delete and Shutdown.
StopAll(a) ==
    /\ loop' = Cancelled({a} \X Chats)
    /\ active' = [active EXCEPT ![a] = [c \in Chats |-> Nil]]
    /\ cbToChat' = [k \in Callbacks |->
           IF cbToChat[k] # Nil /\ cbToChat[k][1] = a THEN Nil ELSE cbToChat[k]]
    /\ swept' = swept \cup {<<a, c>> : c \in {d \in Chats : active[a][d] # Nil}}
    /\ UNCHANGED <<env, closed, pollers, late>>

\* answerCallbackQuery, first critical section: the callback is forgotten, and
\* its chat is to be stopped if it belongs to this bot.
TakeCallback(a, k) ==
    /\ answering[a] = Nil /\ cbToChat[k] # Nil
    /\ cbToChat' = [cbToChat EXCEPT ![k] = Nil]
    /\ answering' = [answering EXCEPT ![a] =
           IF cbToChat[k][1] = a THEN cbToChat[k][2] ELSE Nil]
    /\ UNCHANGED <<env, active, closed, loop, batch, batches, history>>

\* Second critical section: Stop.
StopByCallbackID(a) ==
    /\ answering[a] # Nil
    /\ loop' = Cancelled({<<a, answering[a]>>})
    /\ answering' = [answering EXCEPT ![a] = Nil]
    /\ UNCHANGED <<env, active, cbToChat, closed, batch, batches, history>>

\* sendChatAction cancel_timeout: the deadline becomes infinite.
CancelTimeout(a, c) ==
    /\ active[a][c] # Nil
    /\ loop' = [loop EXCEPT ![active[a][c]].notify = FALSE, ![active[a][c]].due = FALSE]
    /\ UNCHANGED <<env, active, cbToChat, closed, pollers, history>>

\* The end of Shutdown: no new loops, those in the map are cancelled.
Close ==
    /\ ~closed
    /\ closed' = TRUE
    /\ loop' = Cancelled(Aliases \X Chats)
    /\ UNCHANGED <<env, active, cbToChat, pollers, history>>

-----------------------------------------------------------------------------
TypingInit ==
    /\ global = Boot
    /\ override = [a \in Aliases |-> [enabled |-> Nil, private_only |-> Nil]]
    /\ sendState = [a \in Aliases |-> [c \in Chats |-> "ok"]]
    /\ active = [a \in Aliases |-> [c \in Chats |-> Nil]]
    /\ cbToChat = [k \in Callbacks |-> Nil]
    /\ closed = FALSE
    /\ loop = [l \in Loops |-> NoLoop]
    /\ batch = [a \in Aliases |-> NoBatch]
    /\ answering = [a \in Aliases |-> Nil]
    /\ batches = 0 /\ changes = 0
    /\ swept = {}
    /\ late = [l \in Loops |-> 0]

\* What goroutine l does by itself.
Run(l) == Check(l) \/ beat(l) \/ onTimeout(l) \/ Select(l) \/ cleanup(l)

TypingNext ==
    \/ \E p \in GlobalPatches : Apply(p)
    \/ \E a \in Aliases, p \in BotPatches : SetBotTyping(a, p)
    \/ \E a \in Aliases, c \in Chats, st \in {"ok", "empty", "paused"} :
           ChatSendState(a, c, st)
    \/ \E a \in Aliases, n \in 1 .. MaxBatch : OnUpdates(a, n)
    \/ \E a \in Aliases : UpdateSkipped(a)
    \/ \E a \in Aliases, c \in Chats, cb \in Callbacks \cup {Nil} : UserAction(a, c, cb)
    \/ \E a \in Aliases : start(a)
    \/ \E l \in Loops : DeadlinePasses(l)
    \/ \E l \in Loops : Run(l)
    \/ \E a \in Aliases, c \in Chats : Stop(a, c)
    \/ \E a \in Aliases : StopAll(a)
    \/ \E a \in Aliases, k \in Callbacks : TakeCallback(a, k)
    \/ \E a \in Aliases : StopByCallbackID(a)
    \/ \E a \in Aliases, c \in Chats : CancelTimeout(a, c)
    \/ Close

\* Goroutines run, requests end within their ten seconds, and time passes.
\* Users, consumers and administrators owe nothing.
TypingFairness == \A l \in Loops : WF_vars(Run(l)) /\ WF_vars(DeadlinePasses(l))

TypingSpec == TypingInit /\ [][TypingNext]_vars /\ TypingFairness

-----------------------------------------------------------------------------
(* Properties. *)

\* Unless a StopAll hit the chat while its loop was running, every loop that
\* was not cancelled is the one in the map: the next reply can stop it, and no
\* second indicator runs beside it (start, cleanup: typing.go:284, 442).
OwnedUnlessSwept ==
    \A l \in Loops :
        Running(l) /\ ~loop[l].cancelled =>
            \/ active[loop[l].alias][loop[l].chat] = l
            \/ <<loop[l].alias, loop[l].chat>> \in swept

\* docs/spec.md:348 promises that a reply stops the loop before it goes upstream.
\* The code cancels the loop then, but a beat and a timeout notice run on contexts
\* of their own (typing.go:349, 368), so a round that is under way still makes its
\* request, after the reply: that request is the last one of the loop, because
\* the select that ends the round sees the cancellation (loop: typing.go:340).
OneLateRequest == \A l \in Loops : late[l] <= 1

\* A timeout the consumer has cancelled is never armed again for the same loop,
\* whatever user actions extend it (start: typing.go:297, CancelTimeout: 436).
CancelledTimeoutStays ==
    [][\A l \in Loops :
           Running(l) /\ ~loop[l].notify /\ loop[l].pc # "expired" =>
               ~loop'[l].due /\ (loop'[l].pc # "free" => ~loop'[l].notify)
                             /\ loop'[l].pc # "expired"]_vars

\* Every cancelled loop ends, and so does every loop whose timeout is armed:
\* no chat shows "typing" forever unless the consumer asked for it with
\* cancel_timeout, or a user who never stops moves the deadline on and on, which
\* MaxBatches excludes (loop: typing.go:311, start: 299).
TypingEnds ==
    \A l \in Loops : []<>(Running(l) => ~loop[l].cancelled /\ ~loop[l].notify)
=============================================================================
