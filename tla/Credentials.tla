---------------------------- MODULE Credentials ----------------------------
(***************************************************************************)
(* The credentials of the MTProto plane: the fernet key of the volume and  *)
(* what it seals (internal/cryptoutil/fernet.go), the tokens of the table  *)
(* sessions (store/mt.go), the auth keys of the table gotd_sessions, which *)
(* the client of the sidecar loads, makes and stores                       *)
(* (mtproto/gotd_client.go), and the command `tggw migrate`, which fills   *)
(* that table from pyrofork's .session files (internal/migrate/migrate.go).*)
(*                                                                         *)
(* The command takes no lock: it may run beside the sidecar, and die       *)
(* between any two statements.  What Manager does around a connection is   *)
(* the subject of MTSession; here a connection is its use of credentials.  *)
(***************************************************************************)
EXTENDS Naturals, FiniteSets

CONSTANTS
    Aliases,
    Bots,
    Keys,         \* fernet keys an operator may configure
    Generated,    \* the fernet key LoadKey generates
    Plain,        \* the envelope of a blob that is not sealed
    MaxMade,      \* bound: auth keys made for an alias
    MaxRuns,      \* bound: runs of the command
    MaxFaults,    \* bound: failing statements and deaths of the command, and changes
                  \* of GW_FERNET_KEY
    Nil

VARIABLES
    envKey,     \* GW_FERNET_KEY of the sidecar
    keyFile,    \* the file .fernet_key, or Nil
    row,        \* the table sessions: the sealed token of each alias, or Nil
    file,       \* the .session file of each alias
    blob,       \* the table gotd_sessions: the blob of each alias, or Nil
    made,       \* number of auth keys made for each alias
    bot,        \* the bot Telegram has authorised each auth key for, or Nil
    up,         \* whether the sidecar runs
    conn,       \* the connection of each alias
    run,        \* where the command stands
    budget,     \* [runs, faults]
    alone,      \* history: the sidecar has been down since the command began
    mixed,      \* history: the command ran beside the sidecar with another key, or
                \* went on to write a blob that it had failed to read
    crossed,    \* history: the aliases with an open connection that has no auth
                \* key, or another than the one the command wrote meanwhile
    promised,   \* history: the registered aliases counted by a report that said that
                \* no login is required, neither registered nor written blindly since
    swept       \* history: a run that read the whole table ended without an error

disk     == <<keyFile, row, blob>>
telegram == <<made, bot>>
history  == <<alone, mixed, crossed, promised, swept>>
vars     == <<envKey, disk, file, telegram, up, conn, run, budget, history>>

\* The auth key of the .session file of an alias has number 0; the client
\* makes the others.
AuthKey == Aliases \X (0..MaxMade)

\* A blob: the fernet key it is sealed with, the auth key in it, and who
\* serialised it.  Equal blobs have equal bytes once they are opened.
Blob == [seal : Keys \cup {Generated, Plain}, auth : AuthKey, by : {"migrate", "client"}]

Token == [seal : Keys, bot : Bots]

ASSUME CredentialsAssumption ==
    /\ IsFiniteSet(Aliases)
    /\ Generated \notin Keys /\ Plain \notin Keys \cup {Generated}
    /\ Nil \notin Aliases \cup Bots \cup Keys \cup {Generated, Plain}
    /\ Nil \notin AuthKey \cup Blob \cup Token
    /\ MaxMade \in Nat /\ MaxRuns \in Nat /\ MaxFaults \in Nat

\* Mutant: a blob that does not open is taken as it is.
OpenAny(key, b) == TRUE

\* OpenBlob: a blob without the envelope is returned as it is; a sealed one
\* opens with its own key only.
OpenBlob(key, b) == b.seal \in {Plain, key}

SealBlob(key, b) == [b EXCEPT !.seal = key]

IsSealed(b) == b.seal # Plain

\* What buildGotdBlob serialises from the row of a .session file.
FromFile(a) == [seal |-> Plain, auth |-> <<a, 0>>, by |-> "migrate"]

\* What the client serialises while it uses an auth key.
FromClient(auth) == [seal |-> Plain, auth |-> auth, by |-> "client"]

NoConn == [at |-> "off", auth |-> Nil]
NoRun  == [at |-> "idle", key |-> Nil, dry |-> FALSE, todo |-> {}, write |-> Nil,
           found |-> {}, legacy |-> [a \in Aliases |-> Nil], cut |-> FALSE, errors |-> 0]

Fault == budget.faults < MaxFaults /\ budget' = [budget EXCEPT !.faults = @ + 1]

-----------------------------------------------------------------------------
(* The sidecar. *)

\* The key is required at boot; the sessions are those of the table.
Boot ==
    /\ ~up /\ up' = TRUE
    /\ alone' = FALSE
    /\ mixed' = (mixed \/ run.key \notin {Nil, envKey})
    /\ UNCHANGED <<envKey, disk, file, telegram, conn, run, budget, crossed, promised, swept>>

Stop ==
    /\ up /\ up' = FALSE
    /\ conn' = [a \in Aliases |-> NoConn] /\ crossed' = {}
    /\ UNCHANGED <<envKey, disk, file, telegram, run, budget, alone, mixed, promised, swept>>

\* A stored token comes back; at boot a session without one is not restored.
GetToken(a) == IF row[a] # Nil /\ row[a].seal = envKey THEN row[a].bot ELSE Nil

Drop(a) == conn' = [conn EXCEPT ![a] = NoConn] /\ crossed' = crossed \ {a}

\* A new token replaces the row and ends the connection; the blob stays.
Register(a, b) ==
    /\ up /\ GetToken(a) # b
    /\ row' = [row EXCEPT ![a] = [seal |-> envKey, bot |-> b]]
    /\ Drop(a)
    /\ promised' = promised \ {a}
    /\ UNCHANGED <<envKey, keyFile, blob, file, telegram, up, run, budget, alone, mixed, swept>>

Unregister(a) ==
    /\ up /\ GetToken(a) # Nil
    /\ row' = [row EXCEPT ![a] = Nil]
    /\ Drop(a)
    /\ promised' = promised \ {a}
    /\ UNCHANGED <<envKey, keyFile, blob, file, telegram, up, run, budget, alone, mixed, swept>>

\* An authorised session skips the login; a fresh one waits for it.
Status(auth) == [at |-> IF bot[auth] = Nil THEN "login" ELSE "live", auth |-> auth]

\* Mutant: a blob that does not open counts as missing.
LoadOrForget(a) ==
    /\ up /\ GetToken(a) # Nil /\ conn[a] = NoConn
    /\ conn' = [conn EXCEPT ![a] = IF blob[a] = Nil \/ ~OpenBlob(envKey, blob[a])
                                   THEN [at |-> "fresh", auth |-> Nil]
                                   ELSE Status(blob[a].auth)]
    /\ UNCHANGED <<envKey, disk, file, telegram, up, run, budget, history>>

\* LoadSession.  A blob that does not open fails the connection, which stays
\* as it is; a missing one makes the client start without a session.
LoadSession(a) ==
    /\ up /\ GetToken(a) # Nil /\ conn[a] = NoConn
    /\ blob[a] # Nil => OpenBlob(envKey, blob[a])
    /\ conn' = [conn EXCEPT ![a] = IF blob[a] = Nil THEN [at |-> "fresh", auth |-> Nil]
                                   ELSE Status(blob[a].auth)]
    /\ UNCHANGED <<envKey, disk, file, telegram, up, run, budget, history>>

StoreSession(a, auth) ==
    blob' = [blob EXCEPT ![a] = SealBlob(envKey, FromClient(auth))]

\* Without a session the client makes an auth key and stores it.
Exchange(a) ==
    /\ conn[a].at = "fresh"
    /\ made[a] < MaxMade /\ made' = [made EXCEPT ![a] = @ + 1]
    /\ StoreSession(a, <<a, made'[a]>>)
    /\ conn' = [conn EXCEPT ![a] = Status(<<a, made'[a]>>)]
    /\ UNCHANGED <<envKey, keyFile, row, file, bot, up, run, budget, history>>

\* The login with the token.
Login(a) ==
    /\ conn[a].at = "login"
    /\ bot' = [bot EXCEPT ![conn[a].auth] = GetToken(a)]
    /\ conn' = [conn EXCEPT ![a].at = "live"]
    /\ UNCHANGED <<envKey, disk, file, made, up, run, budget, history>>

\* Connecting fails or times out, the connection drops, or a supervisor cuts it.
Disconnect(a) ==
    /\ conn[a] # NoConn
    /\ Drop(a)
    /\ UNCHANGED <<envKey, disk, file, telegram, up, run, budget, alone, mixed, promised, swept>>

\* The client stores its session again, with new salts.
Resave(a) ==
    /\ conn[a].at = "live"
    /\ StoreSession(a, conn[a].auth)
    /\ UNCHANGED <<envKey, keyFile, row, file, telegram, up, conn, run, budget, history>>

\* An operator changes GW_FERNET_KEY, with neither program running.
SwitchKey(k) ==
    /\ ~up /\ run = NoRun /\ k # envKey /\ envKey' = k
    /\ Fault
    /\ promised' = {}
    /\ UNCHANGED <<disk, file, telegram, up, conn, run, alone, mixed, crossed, swept>>

-----------------------------------------------------------------------------
(* tggw migrate. *)

\* LoadKey: the configured key, or the key of the file, which is generated
\* when it is missing.
LoadKey(given) == IF given # Nil THEN given ELSE IF keyFile # Nil THEN keyFile ELSE Generated

\* The command is given the key of the sidecar, or none.
MigrateStart(given, dry) ==
    /\ run = NoRun
    /\ budget.runs < MaxRuns /\ budget' = [budget EXCEPT !.runs = @ + 1]
    /\ keyFile' = IF given # Nil THEN keyFile ELSE LoadKey(given)
    /\ run' = [NoRun EXCEPT !.at = "files", !.key = LoadKey(given), !.dry = dry,
                            !.todo = {a \in Aliases : file[a] # "none"}]
    /\ alone' = ~up
    /\ mixed' = (mixed \/ (up /\ LoadKey(given) # envKey))
    /\ UNCHANGED <<envKey, row, blob, file, telegram, up, conn, crossed, promised, swept>>

\* The files are taken in turn: one that cannot be read, or whose blob does
\* not open, is an error; one whose blob holds the same bytes is skipped.
MigrateFile(a) ==
    /\ run.at = "files" /\ run.write = Nil /\ a \in run.todo
    /\ LET refused == blob[a] # Nil /\ ~OpenBlob(run.key, blob[a])
           same    == blob[a] # Nil /\ SealBlob(Plain, blob[a]) = FromFile(a)
           usable  == file[a] = "usable"
       IN  run' = [run EXCEPT !.todo = @ \ {a},
                              !.found = IF usable THEN @ \cup {a} ELSE @,
                              !.errors = IF ~usable \/ refused THEN @ + 1 ELSE @,
                              !.write = IF usable /\ ~refused /\ ~same /\ ~run.dry THEN a ELSE Nil]
    /\ UNCHANGED <<envKey, disk, file, telegram, up, conn, budget, history>>

\* Any error of the query that reads the blob counts as no blob.
MigrateQueryFails(a) ==
    /\ run.at = "files" /\ run.write = Nil /\ a \in run.todo
    /\ file[a] = "usable" /\ Fault
    /\ run' = [run EXCEPT !.todo = @ \ {a}, !.found = @ \cup {a},
                          !.write = IF run.dry THEN Nil ELSE a]
    /\ mixed' = TRUE /\ promised' = promised \ {a}
    /\ UNCHANGED <<envKey, disk, file, telegram, up, conn, alone, crossed, swept>>

MigrateWrite ==
    /\ run.write # Nil
    /\ blob' = [blob EXCEPT ![run.write] = SealBlob(run.key, FromFile(run.write))]
    /\ crossed' = IF conn[run.write] = NoConn \/ conn[run.write].auth = <<run.write, 0>>
                  THEN crossed ELSE crossed \cup {run.write}
    /\ run' = [run EXCEPT !.write = Nil]
    /\ UNCHANGED <<envKey, keyFile, row, file, telegram, up, conn, budget, alone, mixed, promised, swept>>

MigrateWriteFails ==
    /\ run.write # Nil /\ Fault
    /\ run' = [run EXCEPT !.write = Nil, !.errors = @ + 1]
    /\ UNCHANGED <<envKey, disk, file, telegram, up, conn, history>>

\* Mutant: only the blobs of the files are looked at.
MigrateScanFound ==
    /\ run.at = "files" /\ run.write = Nil /\ run.todo = {}
    /\ run' = [run EXCEPT !.at = "reseal",
                          !.legacy = [a \in Aliases |->
                              IF a \in run.found /\ blob[a] # Nil /\ ~IsSealed(blob[a])
                              THEN blob[a] ELSE Nil]]
    /\ UNCHANGED <<envKey, disk, file, telegram, up, conn, budget, history>>

\* The blobs of the table that are not sealed are read.
MigrateScan ==
    /\ run.at = "files" /\ run.write = Nil /\ run.todo = {}
    /\ run' = [run EXCEPT !.at = "reseal",
                          !.legacy = [a \in Aliases |->
                              IF blob[a] # Nil /\ ~IsSealed(blob[a]) THEN blob[a] ELSE Nil]]
    /\ UNCHANGED <<envKey, disk, file, telegram, up, conn, budget, history>>

\* Reading breaks off, or a row does not scan: the others are all that is read.
MigrateScanCut(part) ==
    /\ run.at = "files" /\ run.write = Nil /\ run.todo = {} /\ Fault
    /\ run' = [run EXCEPT !.at = "reseal", !.cut = TRUE,
                          !.legacy = [a \in Aliases |->
                              IF a \in part /\ blob[a] # Nil /\ ~IsSealed(blob[a])
                              THEN blob[a] ELSE Nil]]
    /\ UNCHANGED <<envKey, disk, file, telegram, up, conn, history>>

\* Each is sealed and written back; a dry run only counts it.
MigrateReseal(a) ==
    /\ run.at = "reseal" /\ run.legacy[a] # Nil
    /\ blob' = IF run.dry THEN blob ELSE [blob EXCEPT ![a] = SealBlob(run.key, run.legacy[a])]
    /\ run' = [run EXCEPT !.legacy[a] = Nil]
    /\ UNCHANGED <<envKey, keyFile, row, file, telegram, up, conn, budget, history>>

MigrateResealFails(a) ==
    /\ run.at = "reseal" /\ run.legacy[a] # Nil /\ ~run.dry /\ Fault
    /\ run' = [run EXCEPT !.legacy[a] = Nil, !.errors = @ + 1]
    /\ UNCHANGED <<envKey, disk, file, telegram, up, conn, history>>

\* Mutant: the aliases without a file are not counted.
LoginsRequiredErrors(counted) == run.errors

\* LoginsRequired: the errors, and the registered aliases without a file among
\* those that were read.
LoginsRequired(counted) ==
    run.errors + Cardinality({a \in counted : row[a] # Nil /\ a \notin run.found})

\* The report; a real run that asks for no login promises none to the aliases it
\* has counted.  The query for them may fail, break off, or have rows that do not
\* scan: the others are all that is counted, and nothing says so.
MigrateReport(counted) ==
    /\ run.at = "reseal" /\ \A a \in Aliases : run.legacy[a] = Nil
    /\ IF counted = Aliases THEN UNCHANGED budget ELSE Fault
    /\ run' = NoRun
    /\ swept' = (swept \/ (~run.dry /\ ~run.cut /\ run.errors = 0))
    /\ promised' = IF LoginsRequired(counted) = 0 /\ ~run.dry /\ ~run.cut /\ alone /\ run.key = envKey
                   THEN promised \cup {a \in counted : row[a] # Nil} ELSE promised
    /\ alone' = FALSE
    /\ UNCHANGED <<envKey, disk, file, telegram, up, conn, mixed, crossed>>

\* The process is killed, or a statement fails that the command cannot do without.
MigrateDies ==
    /\ run # NoRun /\ Fault
    /\ run' = NoRun /\ alone' = FALSE
    /\ UNCHANGED <<envKey, disk, file, telegram, up, conn, mixed, crossed, promised, swept>>

-----------------------------------------------------------------------------
\* A volume of the Python sidecar, or of an earlier version with blobs that
\* are not sealed; the keys of the files are authorised.
Init ==
    /\ envKey \in Keys /\ keyFile = Nil /\ up = FALSE
    /\ file \in [Aliases -> {"none", "unreadable", "usable"}]
    /\ \E first \in Bots :
         /\ row \in [Aliases -> {Nil, [seal |-> envKey, bot |-> first]}]
         /\ bot = [k \in AuthKey |-> IF k[2] = 0 THEN first ELSE Nil]
    /\ blob \in [Aliases -> {Nil} \cup Blob]
    /\ \A a \in Aliases : blob[a] \in {Nil, FromFile(a), FromClient(<<a, 0>>)}
    /\ made = [a \in Aliases |-> 0]
    /\ conn = [a \in Aliases |-> NoConn] /\ run = NoRun
    /\ budget = [runs |-> 0, faults |-> 0]
    /\ alone = FALSE /\ mixed = FALSE /\ crossed = {} /\ promised = {} /\ swept = FALSE

Next ==
    \/ Boot \/ Stop
    \/ \E a \in Aliases :
         \/ \E b \in Bots : Register(a, b)
         \/ Unregister(a) \/ LoadSession(a) \/ Exchange(a) \/ Login(a)
         \/ Disconnect(a) \/ Resave(a)
         \/ MigrateFile(a) \/ MigrateQueryFails(a) \/ MigrateReseal(a) \/ MigrateResealFails(a)
    \/ \E k \in Keys : SwitchKey(k)
    \/ \E part \in SUBSET Aliases : MigrateScanCut(part)
    \/ \E given \in {envKey, Nil}, dry \in BOOLEAN : MigrateStart(given, dry)
    \/ \E counted \in SUBSET Aliases : MigrateReport(counted)
    \/ MigrateWrite \/ MigrateWriteFails \/ MigrateScan \/ MigrateDies

Spec == Init /\ [][Next]_vars

-----------------------------------------------------------------------------
(* Properties *)

Connection == [at : {"off", "fresh", "login", "live"}, auth : AuthKey \cup {Nil}]

Command ==
    [at : {"idle", "files", "reseal"}, key : Keys \cup {Generated, Nil}, dry : BOOLEAN,
     todo : SUBSET Aliases, write : Aliases \cup {Nil}, found : SUBSET Aliases,
     legacy : [Aliases -> {Nil} \cup Blob], cut : BOOLEAN, errors : Nat]

\* The types of the variables.
CredentialsTypeOK ==
    /\ envKey \in Keys /\ keyFile \in {Nil, Generated} /\ up \in BOOLEAN
    /\ row \in [Aliases -> {Nil} \cup Token]
    /\ file \in [Aliases -> {"none", "unreadable", "usable"}]
    /\ blob \in [Aliases -> {Nil} \cup Blob]
    /\ made \in [Aliases -> 0..MaxMade] /\ bot \in [AuthKey -> Bots \cup {Nil}]
    /\ conn \in [Aliases -> Connection] /\ run \in Command
    /\ budget \in [runs : Nat, faults : Nat]
    /\ alone \in BOOLEAN /\ mixed \in BOOLEAN /\ swept \in BOOLEAN
    /\ crossed \subseteq Aliases /\ promised \subseteq Aliases

\* Once a run of the command that read the whole table has ended without an
\* error no blob is at rest without its envelope, whatever the sidecar does
\* beside it and afterwards
\* (Run: "Every blob written or found at rest is SEALED").
SealedAtRest ==
    swept => \A a \in Aliases : blob[a] # Nil => IsSealed(blob[a])

\* What the report promises: as long as the key stays and no alias is
\* registered again, each registered session that a run beside no sidecar, which
\* read the whole table of blobs, counted when it asked for no login has an
\* authorised auth key that the sidecar can open ("Exit code 0 with
\* logins_required=0 is the 'no Telegram logins needed' gate").  A registered
\* session that the count missed is promised nothing, although the report is the
\* same.
NoLoginNeeded ==
    \A a \in promised :
        blob[a] # Nil /\ OpenBlob(envKey, blob[a]) /\ bot[blob[a].auth] # Nil

\* A sealed blob is only ever replaced under the key that sealed it: with a
\* wrong key neither the sidecar nor the command writes over it, as long as
\* the two do not run at once with different keys and the command can read
\* what it replaces (OpenBlob: "pretending otherwise corrupts sessions").
WrongKeyNeverWrites ==
    [][ \A a \in Aliases :
          (blob[a] # Nil /\ IsSealed(blob[a]) /\ ~mixed') => blob'[a].seal = blob[a].seal ]_vars

\* The auth key of an alias is replaced in one way only, by the key of its
\* .session file; the client makes a new one only when there is none, unless
\* the command wrote the blob under an open connection.
AuthKeyIsKept ==
    [][ \A a \in Aliases \ crossed :
          (blob[a] # Nil /\ blob'[a].auth # blob[a].auth) => run.write = a ]_vars
=============================================================================
