------------------------- MODULE CredentialsProofs -------------------------
(***************************************************************************)
(* Proofs about Credentials, for every number of aliases, bots and keys.   *)
(***************************************************************************)
EXTENDS Credentials, FiniteSetTheorems, TLAPS

-----------------------------------------------------------------------------
(* The inductive invariant *)

\* The phases of the command.
Phases ==
    /\ run.at = "idle" <=> run.key = Nil
    /\ run.write # Nil => run.at = "files" /\ ~run.dry
    /\ \A a \in Aliases : run.legacy[a] # Nil => run.at = "reseal"

\* What has been sealed: during the last pass the blobs that are not sealed
\* are on the list of that pass, and after a run there are none.
Sealing ==
    /\ run.at = "reseal" /\ ~run.dry /\ ~run.cut /\ run.errors = 0 =>
         \A a \in Aliases : blob[a] # Nil /\ ~IsSealed(blob[a]) => run.legacy[a] # Nil
    /\ swept => \A a \in Aliases : blob[a] # Nil => IsSealed(blob[a])

\* A connection belongs to a registered session, and a live one uses an
\* authorised key.
Connecting ==
    \A a \in Aliases :
        /\ conn[a] # NoConn => up /\ row[a] # Nil /\ row[a].seal = envKey
        /\ conn[a].auth # Nil <=> conn[a].at \in {"login", "live"}
        /\ conn[a].at = "live" => bot[conn[a].auth] # Nil
        /\ bot[<<a, 0>>] # Nil

\* A connection uses the stored auth key unless the command crossed it; a blob
\* that is not sealed has never been written, so it holds the first key.
Keeping ==
    \A a \in Aliases :
        /\ conn[a].at = "fresh" /\ a \notin crossed => blob[a] = Nil
        /\ conn[a].auth # Nil /\ a \notin crossed =>
             blob[a] # Nil /\ blob[a].auth = conn[a].auth
        /\ blob[a] # Nil /\ ~IsSealed(blob[a]) =>
             blob[a].auth = <<a, 0>> /\ conn[a].at # "fresh" /\ conn[a].auth \in {Nil, <<a, 0>>}
        /\ run.legacy[a] # Nil =>
             /\ run.legacy[a].auth = <<a, 0>> /\ blob[a] # Nil /\ blob[a].auth = <<a, 0>>
             /\ conn[a].at # "fresh" /\ conn[a].auth \in {Nil, <<a, 0>>}

\* Unless two keys were mixed, whoever is about to write has opened what is
\* there.
Opening ==
    /\ ~mixed /\ up /\ run.at # "idle" => run.key = envKey
    /\ \A a \in Aliases :
         /\ ~mixed /\ conn[a] # NoConn /\ blob[a] # Nil => OpenBlob(envKey, blob[a])
         /\ ~mixed /\ run.write = a /\ blob[a] # Nil => OpenBlob(run.key, blob[a])
         /\ ~mixed /\ run.legacy[a] # Nil => OpenBlob(run.key, blob[a])

\* What a run beside no sidecar has done so far.
Working ==
    /\ alone => ~up /\ run.at # "idle"
    /\ run.at # "idle" /\ alone /\ ~run.dry /\ run.errors = 0 =>
         \A a \in run.found \ {run.write} :
             blob[a] # Nil /\ OpenBlob(run.key, blob[a]) /\ bot[blob[a].auth] # Nil

\* A promised session has a sealed, authorised key, which every writer keeps.
Promising ==
    \A a \in promised :
        /\ blob[a] # Nil /\ blob[a].seal = envKey /\ bot[blob[a].auth] # Nil
        /\ conn[a].at # "fresh" /\ (conn[a].auth # Nil => bot[conn[a].auth] # Nil)
        /\ run.write = a => run.key = envKey
        /\ run.legacy[a] = Nil

Inv ==
    /\ CredentialsTypeOK /\ Phases /\ Sealing /\ Connecting /\ Keeping /\ Opening
    /\ Working /\ Promising

-----------------------------------------------------------------------------
(* Types *)

\* The records of the model have the types of the state.
LEMMA Records ==
    /\ NoConn \in Connection /\ NoRun \in Command
    /\ \A a \in Aliases : FromFile(a) \in Blob
    /\ \A auth \in AuthKey : FromClient(auth) \in Blob /\ Status(auth) \in Connection
    /\ \A k \in Keys \cup {Generated, Plain}, b \in Blob : SealBlob(k, b) \in Blob
<1> USE CredentialsAssumption
<1>1. NoConn \in Connection
  BY DEF NoConn, Connection
<1>2. NoRun \in Command
  BY DEF NoRun, Command
<1>3. \A a \in Aliases : <<a, 0>> \in AuthKey
  BY DEF AuthKey
<1>4. \A a \in Aliases : FromFile(a) \in Blob
  BY <1>3, Zenon DEF FromFile, Blob
<1>5. \A auth \in AuthKey : FromClient(auth) \in Blob /\ Status(auth) \in Connection
  BY DEF FromClient, Status, Blob, Connection
<1>6. \A k \in Keys \cup {Generated, Plain}, b \in Blob : SealBlob(k, b) \in Blob
  BY DEF SealBlob, Blob
<1> QED
  BY <1>1, <1>2, <1>4, <1>5, <1>6

\* Every step keeps the type of the table of blobs.
LEMMA BlobStep ==
    ASSUME Inv, Next
    PROVE  blob' \in [Aliases -> {Nil} \cup Blob]
<1> USE CredentialsAssumption, Records DEF Inv, CredentialsTypeOK
<1>1. \A a \in Aliases, auth \in AuthKey : StoreSession(a, auth) => blob' \in [Aliases -> {Nil} \cup Blob]
  BY DEF StoreSession
<1>2. ASSUME NEW a \in Aliases, Exchange(a) PROVE blob' \in [Aliases -> {Nil} \cup Blob]
  <2>1. <<a, made'[a]>> \in AuthKey
    BY <1>2 DEF Exchange, AuthKey
  <2> QED
    BY <1>1, <1>2, <2>1 DEF Exchange
<1>3. ASSUME NEW a \in Aliases, Resave(a) PROVE blob' \in [Aliases -> {Nil} \cup Blob]
  <2>1. conn[a].auth \in AuthKey
    BY <1>3, Zenon DEF Resave, Connecting, Connection
  <2> QED
    BY <1>1, <1>3, <2>1 DEF Resave
<1>4. CASE MigrateWrite
  <2>1. run.write \in Aliases /\ run.key \in Keys \cup {Generated}
    BY <1>4 DEF MigrateWrite, Phases, Command
  <2> QED
    BY <1>4, <2>1 DEF MigrateWrite
<1>5. ASSUME NEW a \in Aliases, MigrateReseal(a) PROVE blob' \in [Aliases -> {Nil} \cup Blob]
  <2>1. run.legacy[a] \in Blob /\ run.key \in Keys \cup {Generated}
    BY <1>5 DEF MigrateReseal, Phases, Command
  <2> QED
    BY <1>5, <2>1 DEF MigrateReseal
<1>6. CASE UNCHANGED blob
  BY <1>6
<1> QED
  BY <1>2, <1>3, <1>4, <1>5, <1>6, Zenon DEF Next, Boot, Stop, Register, Unregister, LoadSession, Login,
     Disconnect, SwitchKey, MigrateStart, MigrateFile, MigrateQueryFails, MigrateWriteFails,
     MigrateScan, MigrateScanCut, MigrateResealFails, MigrateReport,
     MigrateDies, disk

\* Every step keeps the type of the connections.
LEMMA ConnStep ==
    ASSUME Inv, Next
    PROVE  conn' \in [Aliases -> Connection]
<1> USE CredentialsAssumption, Records DEF Inv, CredentialsTypeOK
<1>1. CASE Stop
  BY <1>1 DEF Stop
<1>2. ASSUME NEW a \in Aliases, Drop(a) PROVE conn' \in [Aliases -> Connection]
  BY <1>2 DEF Drop
<1>3. ASSUME NEW a \in Aliases, LoadSession(a) PROVE conn' \in [Aliases -> Connection]
  <2>1. [at |-> "fresh", auth |-> Nil] \in Connection
    BY DEF Connection
  <2>2. blob[a] # Nil => Status(blob[a].auth) \in Connection
    BY DEF Blob
  <2> QED
    BY <1>3, <2>1, <2>2 DEF LoadSession
<1>4. ASSUME NEW a \in Aliases, Exchange(a) PROVE conn' \in [Aliases -> Connection]
  <2>1. <<a, made'[a]>> \in AuthKey
    BY <1>4 DEF Exchange, AuthKey
  <2> QED
    BY <1>4, <2>1 DEF Exchange
<1>5. ASSUME NEW a \in Aliases, Login(a) PROVE conn' \in [Aliases -> Connection]
  BY <1>5 DEF Login, Connection
<1>6. CASE UNCHANGED conn
  BY <1>6
<1> QED
  BY <1>1, <1>2, <1>3, <1>4, <1>5, <1>6, Zenon DEF Next, Boot, Register, Unregister, Resave,
     Disconnect, SwitchKey, MigrateStart, MigrateFile, MigrateQueryFails, MigrateWrite,
     MigrateWriteFails, MigrateScan, MigrateScanCut, MigrateReseal, MigrateResealFails,
     MigrateReport, MigrateDies

\* Every step keeps the type of the command.
LEMMA RunStep ==
    ASSUME Inv, Next
    PROVE  run' \in Command
<1>1. run \in Command /\ NoRun \in Command /\ run.errors + 1 \in Nat
  BY Records DEF Inv, CredentialsTypeOK, Command
<1>2. \A a \in Aliases : blob[a] \in {Nil} \cup Blob /\ a # Nil
  BY CredentialsAssumption DEF Inv, CredentialsTypeOK
<1>3. ASSUME NEW given \in {envKey, Nil}, NEW dry \in BOOLEAN, MigrateStart(given, dry)
      PROVE  run' \in Command
  <2>1. LoadKey(given) \in Keys \cup {Generated}
    BY DEF LoadKey, Inv, CredentialsTypeOK
  <2>2. {a \in Aliases : file[a] # "none"} \in SUBSET Aliases
    OBVIOUS
  <2> QED
    BY <1>1, <1>3, <2>1, <2>2, Zenon DEF MigrateStart, Command
<1>4. ASSUME NEW a \in Aliases, MigrateFile(a) PROVE run' \in Command
  <2> DEFINE refused == blob[a] # Nil /\ ~OpenBlob(run.key, blob[a])
             same    == blob[a] # Nil /\ SealBlob(Plain, blob[a]) = FromFile(a)
             usable  == file[a] = "usable"
             left    == run.todo \ {a}
             found   == IF usable THEN run.found \cup {a} ELSE run.found
             errors  == IF ~usable \/ refused THEN run.errors + 1 ELSE run.errors
             write   == IF usable /\ ~refused /\ ~same /\ ~run.dry THEN a ELSE Nil
  <2>1. run' = [run EXCEPT !.todo = left, !.found = found, !.errors = errors, !.write = write]
    BY <1>4 DEF MigrateFile
  <2>2. left \in SUBSET Aliases /\ found \in SUBSET Aliases
    BY <1>1 DEF Command
  <2>3. errors \in Nat /\ write \in Aliases \cup {Nil}
    BY <1>1 DEF Command
  <2> HIDE DEF left, found, errors, write
  <2> QED
    BY <1>1, <2>1, <2>2, <2>3, Zenon DEF Command
<1>5. ASSUME NEW a \in Aliases, MigrateQueryFails(a) PROVE run' \in Command
  BY <1>1, <1>5, Zenon DEF MigrateQueryFails, Command
<1>6. CASE MigrateWrite
  BY <1>1, <1>6 DEF MigrateWrite, Command
<1>7. CASE MigrateWriteFails
  BY <1>1, <1>7, Zenon DEF MigrateWriteFails, Command
<1>8. CASE MigrateScan
  BY <1>1, <1>2, <1>8, Zenon DEF MigrateScan, Command
<1>9. ASSUME NEW part \in SUBSET Aliases, MigrateScanCut(part) PROVE run' \in Command
  BY <1>1, <1>2, <1>9, Zenon DEF MigrateScanCut, Command
<1>10. ASSUME NEW a \in Aliases, MigrateReseal(a) PROVE run' \in Command
  BY <1>1, <1>10 DEF MigrateReseal, Command
<1>11. ASSUME NEW a \in Aliases, MigrateResealFails(a) PROVE run' \in Command
  BY <1>1, <1>11, Zenon DEF MigrateResealFails, Command
<1>12. CASE run' = NoRun
  BY <1>1, <1>12
<1>13. CASE UNCHANGED run
  BY <1>1, <1>13
<1> QED
  BY <1>3, <1>4, <1>5, <1>6, <1>7, <1>8, <1>9, <1>10, <1>11, <1>12, <1>13, Zenon DEF Next, Boot, Stop,
     Register, Unregister, LoadSession, Exchange, Login, Disconnect, Resave, SwitchKey,
     MigrateReport, MigrateDies

\* Every step keeps the types of the Boolean histories.
LEMMA FlagStep ==
    ASSUME Inv, Next
    PROVE  up' \in BOOLEAN /\ alone' \in BOOLEAN /\ mixed' \in BOOLEAN /\ swept' \in BOOLEAN
<1>1. up \in BOOLEAN /\ alone \in BOOLEAN /\ mixed \in BOOLEAN /\ swept \in BOOLEAN
  BY DEF Inv, CredentialsTypeOK
<1> DEFINE P == up' \in BOOLEAN /\ alone' \in BOOLEAN /\ mixed' \in BOOLEAN /\ swept' \in BOOLEAN
<1>2. Boot \/ Stop => P
  BY <1>1, Zenon DEF Boot, Stop
<1>3. ASSUME NEW a \in Aliases
      PROVE  /\ \A b \in Bots : Register(a, b) => P
             /\ Unregister(a) \/ LoadSession(a) \/ Exchange(a) \/ Login(a) \/ Disconnect(a)
                  \/ Resave(a) => P
  BY <1>1, Zenon DEF Register, Unregister, LoadSession, Exchange, Login, Disconnect, Resave, history
<1>4. ASSUME NEW a \in Aliases
      PROVE  MigrateFile(a) \/ MigrateQueryFails(a) \/ MigrateReseal(a) \/ MigrateResealFails(a) => P
  BY <1>1, Zenon DEF MigrateFile, MigrateQueryFails, MigrateReseal, MigrateResealFails, history
<1>5. \A k \in Keys : SwitchKey(k) => P
  BY <1>1, Zenon DEF SwitchKey
<1>6. \A given \in {envKey, Nil}, dry \in BOOLEAN : MigrateStart(given, dry) => P
  BY <1>1, Zenon DEF MigrateStart
<1>7. \A part \in SUBSET Aliases : MigrateScanCut(part) => P
  BY <1>1, Zenon DEF MigrateScanCut, history
<1>8. MigrateWrite \/ MigrateWriteFails \/ MigrateScan => P
  BY <1>1, Zenon DEF MigrateWrite, MigrateWriteFails, MigrateScan, history
<1>9. MigrateDies \/ (\E counted \in SUBSET Aliases : MigrateReport(counted)) => P
  BY <1>1, Zenon DEF MigrateReport, MigrateDies
<1> QED
  BY <1>2, <1>3, <1>4, <1>5, <1>6, <1>7, <1>8, <1>9, Zenon DEF Next

\* Every step keeps the types of the other variables.
LEMMA RestStep ==
    ASSUME Inv, Next
    PROVE  /\ envKey' \in Keys /\ keyFile' \in {Nil, Generated}
           /\ row' \in [Aliases -> {Nil} \cup Token]
           /\ file' \in [Aliases -> {"none", "unreadable", "usable"}]
           /\ made' \in [Aliases -> 0..MaxMade] /\ bot' \in [AuthKey -> Bots \cup {Nil}]
           /\ budget' \in [runs : Nat, faults : Nat]
           /\ crossed' \subseteq Aliases /\ promised' \subseteq Aliases
<1> DEFINE P ==
           /\ envKey' \in Keys /\ keyFile' \in {Nil, Generated}
           /\ row' \in [Aliases -> {Nil} \cup Token]
           /\ file' \in [Aliases -> {"none", "unreadable", "usable"}]
           /\ made' \in [Aliases -> 0..MaxMade] /\ bot' \in [AuthKey -> Bots \cup {Nil}]
           /\ budget' \in [runs : Nat, faults : Nat]
           /\ crossed' \subseteq Aliases /\ promised' \subseteq Aliases
<1> SUFFICES P
  OBVIOUS
<1>1. /\ envKey \in Keys /\ keyFile \in {Nil, Generated}
      /\ row \in [Aliases -> {Nil} \cup Token]
      /\ file \in [Aliases -> {"none", "unreadable", "usable"}]
      /\ made \in [Aliases -> 0..MaxMade] /\ bot \in [AuthKey -> Bots \cup {Nil}]
      /\ budget \in [runs : Nat, faults : Nat]
      /\ crossed \subseteq Aliases /\ promised \subseteq Aliases
  BY DEF Inv, CredentialsTypeOK
<1>2. Fault => budget' \in [runs : Nat, faults : Nat]
  BY <1>1 DEF Fault
<1>3. Boot \/ Stop => P
  BY <1>1 DEF Boot, Stop, disk, telegram
<1>4. ASSUME NEW a \in Aliases, NEW b \in Bots, Register(a, b) PROVE P
  BY <1>1, <1>4 DEF Register, Drop, Token, telegram
<1>5. ASSUME NEW a \in Aliases, Unregister(a) PROVE P
  BY <1>1, <1>5 DEF Unregister, Drop, telegram
<1>6. ASSUME NEW a \in Aliases, LoadSession(a) \/ Disconnect(a) \/ Resave(a) PROVE P
  BY <1>1, <1>6 DEF LoadSession, Disconnect, Resave, Drop, disk, telegram, history
<1>7. ASSUME NEW a \in Aliases, Exchange(a) PROVE P
  BY CredentialsAssumption, <1>1, <1>7 DEF Exchange, history
<1>8. ASSUME NEW a \in Aliases, Login(a) PROVE P
  <2>1. GetToken(a) \in Bots \cup {Nil}
    BY <1>1 DEF GetToken, Token
  <2> QED
    BY <1>1, <1>8, <2>1, Zenon DEF Login, disk, history
<1>9. ASSUME NEW k \in Keys, SwitchKey(k) PROVE P
  BY <1>1, <1>2, <1>9 DEF SwitchKey, disk, telegram
<1>10. ASSUME NEW given \in {envKey, Nil}, NEW dry \in BOOLEAN, MigrateStart(given, dry) PROVE P
  <2>1. keyFile' \in {Nil, Generated}
    BY <1>1, <1>10 DEF MigrateStart, LoadKey
  <2>2. budget' \in [runs : Nat, faults : Nat]
    BY <1>1, <1>10 DEF MigrateStart
  <2> QED
    BY <1>1, <1>10, <2>1, <2>2 DEF MigrateStart, telegram
<1>11. ASSUME NEW a \in Aliases, MigrateFile(a) \/ MigrateReseal(a) PROVE P
  BY <1>1, <1>11 DEF MigrateFile, MigrateReseal, disk, telegram, history
<1>12. ASSUME NEW a \in Aliases, MigrateQueryFails(a) \/ MigrateResealFails(a) PROVE P
  BY <1>1, <1>2, <1>12 DEF MigrateQueryFails, MigrateResealFails, disk, telegram, history
<1>13. CASE MigrateWrite
  <2>1. run.write \in Aliases
    BY <1>13 DEF MigrateWrite, Inv, CredentialsTypeOK, Command
  <2> QED
    BY <1>1, <1>13, <2>1 DEF MigrateWrite, telegram
<1>14. ASSUME NEW part \in SUBSET Aliases, MigrateScanCut(part) PROVE P
  BY <1>1, <1>2, <1>14 DEF MigrateScanCut, disk, telegram, history
<1>15. CASE MigrateWriteFails \/ MigrateDies
  BY <1>1, <1>2, <1>15 DEF MigrateWriteFails, MigrateDies, disk, telegram, history
<1>16. CASE MigrateScan
  BY <1>1, <1>16 DEF MigrateScan, disk, telegram, history
<1>17. ASSUME NEW counted \in SUBSET Aliases, MigrateReport(counted) PROVE P
  BY <1>1, <1>2, <1>17 DEF MigrateReport, disk, telegram
<1> HIDE DEF P
<1> QED
  BY <1>3, <1>4, <1>5, <1>6, <1>7, <1>8, <1>9, <1>10, <1>11, <1>12, <1>13, <1>14, <1>15, <1>16,
     <1>17 DEF Next

\* Every step keeps the type invariant.
LEMMA TypeStep == Inv /\ Next => CredentialsTypeOK'
  BY BlobStep, ConnStep, RunStep, FlagStep, RestStep DEF CredentialsTypeOK

-----------------------------------------------------------------------------
(* The phases *)

\* No run is under way in NoRun, and it is the only such value of run.
LEMMA Idle ==
    Inv => /\ NoRun.at = "idle" /\ NoRun.key = Nil /\ NoRun.write = Nil
           /\ \A a \in Aliases : NoRun.legacy[a] = Nil
           /\ run = NoRun => run.at = "idle"
  BY DEF NoRun

\* Every step keeps the phases.
LEMMA PhasesStep ==
    ASSUME Inv, Next
    PROVE  Phases'
<1>1. Phases /\ run \in Command
  BY DEF Inv, CredentialsTypeOK
<1>2. Nil \notin Keys \cup {Generated}
  BY CredentialsAssumption
<1>3. ASSUME UNCHANGED run PROVE Phases'
  BY <1>1, <1>3 DEF Phases
<1>4. ASSUME run' = NoRun PROVE Phases'
  BY <1>4, Idle DEF Phases
<1>5. ASSUME NEW given \in {envKey, Nil}, NEW dry \in BOOLEAN, MigrateStart(given, dry)
      PROVE  Phases'
  <2>1. LoadKey(given) \in Keys \cup {Generated}
    BY <1>5 DEF LoadKey, Inv, CredentialsTypeOK
  <2>2. run' = [NoRun EXCEPT !.at = "files", !.key = LoadKey(given), !.dry = dry,
                             !.todo = {a \in Aliases : file[a] # "none"}]
    BY <1>5 DEF MigrateStart
  <2>3. run'.at = "files" /\ run'.key # Nil /\ run'.write = Nil
        /\ \A a \in Aliases : run'.legacy[a] = Nil
    BY <1>2, <2>1, <2>2 DEF NoRun
  <2> QED
    BY <2>3 DEF Phases
<1>6. ASSUME NEW a \in Aliases, MigrateFile(a) \/ MigrateQueryFails(a)
      PROVE  Phases'
  <2>1. run'.at = run.at /\ run'.key = run.key /\ run'.dry = run.dry /\ run'.legacy = run.legacy
    BY <1>1, <1>6, Zenon DEF MigrateFile, MigrateQueryFails, Command
  <2>2. run.at = "files" /\ (run'.write # Nil => ~run.dry)
    BY <1>1, <1>6, Zenon DEF MigrateFile, MigrateQueryFails, Command
  <2> QED
    BY <1>1, <2>1, <2>2 DEF Phases
<1>7. ASSUME MigrateWrite \/ MigrateWriteFails
      PROVE  Phases'
  <2>1. run'.at = run.at /\ run'.key = run.key /\ run'.write = Nil /\ run'.legacy = run.legacy
    BY <1>1, <1>7, Zenon DEF MigrateWrite, MigrateWriteFails, Command
  <2> QED
    BY <1>1, <2>1 DEF Phases
<1>8. ASSUME MigrateScan \/ \E part \in SUBSET Aliases : MigrateScanCut(part)
      PROVE  Phases'
  <2>1. /\ run.at = "files" /\ run'.at = "reseal" /\ run'.key = run.key
        /\ run.write = Nil /\ run'.write = run.write
    BY <1>1, <1>8, Zenon DEF MigrateScan, MigrateScanCut, Command
  <2> QED
    BY <1>1, <2>1 DEF Phases
<1>9. ASSUME NEW a \in Aliases, MigrateReseal(a) \/ MigrateResealFails(a)
      PROVE  Phases'
  <2>1. run'.at = run.at /\ run'.key = run.key /\ run'.write = run.write /\ run.at = "reseal"
    BY <1>1, <1>9, Zenon DEF MigrateReseal, MigrateResealFails, Command
  <2> QED
    BY <1>1, <2>1 DEF Phases
<1> QED
  BY <1>3, <1>4, <1>5, <1>6, <1>7, <1>8, <1>9, Zenon
     DEF Next, Boot, Stop, Register, Unregister, LoadSession, Exchange, Login, Disconnect, Resave,
         SwitchKey, MigrateReport, MigrateDies

-----------------------------------------------------------------------------
(* What is written into the table of blobs *)

\* The keys that seal are not the empty envelope, and the values of the
\* tables are told apart from Nil.
LEMMA Values ==
    Inv => /\ envKey \in Keys /\ envKey # Plain /\ envKey # Nil
           /\ run.key # Plain
           /\ \A b \in Blob : b # Nil
           /\ \A auth \in AuthKey : auth # Nil
           /\ \A t \in Token : t # Nil /\ t.bot # Nil
           /\ \A a \in Aliases : a # Nil /\ <<a, 0>> \in AuthKey
  BY CredentialsAssumption DEF Inv, CredentialsTypeOK, Command, Token, AuthKey

\* The client writes the key of its connection, sealed with GW_FERNET_KEY.
LEMMA ClientWrites ==
    ASSUME Inv, NEW a \in Aliases, Exchange(a) \/ Resave(a)
    PROVE  /\ \A c \in Aliases \ {a} : blob'[c] = blob[c]
           /\ blob'[a] # Nil /\ blob'[a].seal = envKey
           /\ conn'[a].auth # Nil /\ blob'[a].auth = conn'[a].auth
<1>1. /\ blob \in [Aliases -> {Nil} \cup Blob] /\ conn \in [Aliases -> Connection]
      /\ made \in [Aliases -> 0..MaxMade]
  BY DEF Inv, CredentialsTypeOK
<1>2. CASE Exchange(a)
  <2> DEFINE k == <<a, made'[a]>>
  <2>1. k \in AuthKey
    BY CredentialsAssumption, <1>1, <1>2 DEF Exchange, AuthKey
  <2> HIDE DEF k
  <2>2. /\ blob' = [blob EXCEPT ![a] = SealBlob(envKey, FromClient(k))]
        /\ conn' = [conn EXCEPT ![a] = Status(k)]
    BY <1>2 DEF Exchange, StoreSession, k
  <2>3. blob'[a] = SealBlob(envKey, FromClient(k)) /\ conn'[a] = Status(k)
    BY <1>1, <2>2
  <2>4. SealBlob(envKey, FromClient(k)) \in Blob
    BY <2>1, Records, Values
  <2> QED
    BY <1>1, <2>1, <2>2, <2>3, <2>4, Values DEF SealBlob, FromClient, Status
<1>3. CASE Resave(a)
  <2> DEFINE k == conn[a].auth
  <2>1. k \in AuthKey
    BY <1>1, <1>3, Zenon DEF Resave, Inv, Connecting, Connection
  <2> HIDE DEF k
  <2>2. blob' = [blob EXCEPT ![a] = SealBlob(envKey, FromClient(k))] /\ conn' = conn
    BY <1>3 DEF Resave, StoreSession, k
  <2>3. blob'[a] = SealBlob(envKey, FromClient(k)) /\ conn'[a].auth = k
    BY <1>1, <2>2 DEF k
  <2>4. SealBlob(envKey, FromClient(k)) \in Blob
    BY <2>1, Records, Values
  <2> QED
    BY <1>1, <2>1, <2>2, <2>3, <2>4, Values DEF SealBlob, FromClient
<1> QED
  BY <1>2, <1>3

\* The command writes the key of the file, sealed with its own key.
LEMMA CommandWrites ==
    ASSUME Inv, NEW a \in Aliases, (MigrateWrite /\ run.write = a) \/ (MigrateReseal(a) /\ ~run.dry)
    PROVE  /\ \A c \in Aliases \ {a} : blob'[c] = blob[c]
           /\ blob'[a] # Nil /\ blob'[a].seal = run.key /\ blob'[a].auth = <<a, 0>>
<1>1. blob \in [Aliases -> {Nil} \cup Blob] /\ run \in Command
  BY DEF Inv, CredentialsTypeOK
<1>2. run.key \in Keys \cup {Generated}
  BY <1>1 DEF Inv, Phases, MigrateWrite, MigrateReseal, Command
<1>3. CASE MigrateWrite /\ run.write = a
  <2>1. blob' = [blob EXCEPT ![a] = SealBlob(run.key, FromFile(a))]
    BY <1>3 DEF MigrateWrite
  <2>2. SealBlob(run.key, FromFile(a)) \in Blob
    BY <1>2, Records
  <2> QED
    BY <1>1, <2>1, <2>2, Values DEF SealBlob, FromFile
<1>4. CASE MigrateReseal(a) /\ ~run.dry
  <2> DEFINE b == run.legacy[a]
  <2>1. b \in Blob /\ b.auth = <<a, 0>>
    BY <1>1, <1>4 DEF MigrateReseal, Inv, Keeping, Command
  <2> HIDE DEF b
  <2>2. blob' = [blob EXCEPT ![a] = SealBlob(run.key, b)]
    BY <1>4 DEF MigrateReseal, b
  <2>3. SealBlob(run.key, b) \in Blob
    BY <1>2, <2>1, Records
  <2> QED
    BY <1>1, <2>1, <2>2, <2>3, Values DEF SealBlob, Blob
<1> QED
  BY <1>3, <1>4

\* No other step changes the table.
LEMMA OtherSteps ==
    ASSUME Inv, Next
    PROVE  \/ blob' = blob
           \/ \E a \in Aliases : Exchange(a) \/ Resave(a)
           \/ \E a \in Aliases : (MigrateWrite /\ run.write = a) \/ (MigrateReseal(a) /\ ~run.dry)
<1>1. run.write \in Aliases \cup {Nil} /\ run.dry \in BOOLEAN
  BY DEF Inv, CredentialsTypeOK, Command
<1>2. MigrateWrite => run.write # Nil
  BY DEF MigrateWrite
<1>3. \A a \in Aliases : MigrateReseal(a) /\ run.dry => blob' = blob
  BY DEF MigrateReseal
<1> QED
  BY <1>1, <1>2, <1>3, Zenon
     DEF Next, disk, Boot, Stop, Register, Unregister, LoadSession, Login, Disconnect,
         SwitchKey, MigrateStart, MigrateFile, MigrateQueryFails, MigrateWriteFails, MigrateScan,
         MigrateScanCut, MigrateResealFails, MigrateReport, MigrateDies

\* Whatever is written is sealed.
LEMMA SealedWrites ==
    ASSUME Inv, Next, NEW a \in Aliases
    PROVE  blob'[a] = blob[a] \/ (blob'[a] # Nil /\ IsSealed(blob'[a]))
<1>1. ASSUME NEW c \in Aliases, Exchange(c) \/ Resave(c)
      PROVE  blob'[a] = blob[a] \/ (blob'[a] # Nil /\ IsSealed(blob'[a]))
  BY <1>1, ClientWrites, Values DEF IsSealed
<1>2. ASSUME NEW c \in Aliases, (MigrateWrite /\ run.write = c) \/ (MigrateReseal(c) /\ ~run.dry)
      PROVE  blob'[a] = blob[a] \/ (blob'[a] # Nil /\ IsSealed(blob'[a]))
  BY <1>2, CommandWrites, Values DEF IsSealed
<1> QED
  BY <1>1, <1>2, OtherSteps

-----------------------------------------------------------------------------
(* Sealing *)

\* During the last pass the blobs that are not sealed stay on its list.
LEMMA ListStep ==
    ASSUME Inv, Next, NEW a \in Aliases,
           run'.at = "reseal", ~run'.dry, ~run'.cut, run'.errors = 0,
           blob'[a] # Nil, ~IsSealed(blob'[a])
    PROVE  run'.legacy[a] # Nil
<1>1. Sealing /\ run \in Command
  BY DEF Inv, CredentialsTypeOK
<1>2. blob'[a] = blob[a]
  BY SealedWrites
<1>3. ASSUME UNCHANGED run PROVE run'.legacy[a] # Nil
  BY <1>1, <1>2, <1>3 DEF Sealing
<1>4. run' # NoRun
  BY Idle DEF NoRun
<1>5. ASSUME NEW given \in {envKey, Nil}, NEW dry \in BOOLEAN, MigrateStart(given, dry)
      PROVE  FALSE
  BY <1>5 DEF MigrateStart, NoRun
<1>6. ASSUME NEW c \in Aliases, MigrateFile(c) \/ MigrateQueryFails(c)
      PROVE  FALSE
  BY <1>1, <1>6, Zenon DEF MigrateFile, MigrateQueryFails, Command
<1>7. ASSUME MigrateWrite \/ MigrateWriteFails
      PROVE  FALSE
  BY <1>1, <1>7, Zenon DEF MigrateWrite, MigrateWriteFails, Command, Inv, Phases
<1>8. ASSUME MigrateScan PROVE run'.legacy[a] # Nil
  BY <1>1, <1>2, <1>8 DEF MigrateScan, Command
<1>9. ASSUME NEW part \in SUBSET Aliases, MigrateScanCut(part) PROVE FALSE
  BY <1>1, <1>9 DEF MigrateScanCut, Command
<1>10. ASSUME NEW c \in Aliases, MigrateResealFails(c) PROVE FALSE
  <2>1. run.errors \in Nat /\ run'.errors = run.errors + 1
    BY <1>1, <1>10 DEF MigrateResealFails, Command
  <2> QED
    BY <2>1
<1>11. ASSUME NEW c \in Aliases, MigrateReseal(c) PROVE run'.legacy[a] # Nil
  <2>1. /\ run'.at = run.at /\ run'.dry = run.dry /\ run'.cut = run.cut
        /\ run'.errors = run.errors /\ (c # a => run'.legacy[a] = run.legacy[a])
    BY <1>1, <1>11 DEF MigrateReseal, Command
  <2>2. c # a
    BY <1>11, <2>1, CommandWrites, Values DEF IsSealed
  <2> QED
    BY <1>1, <1>2, <2>1, <2>2 DEF Sealing
<1> QED
  BY <1>3, <1>4, <1>5, <1>6, <1>7, <1>8, <1>9, <1>10, <1>11, Zenon
     DEF Next, Boot, Stop, Register, Unregister, LoadSession, Exchange, Login, Disconnect, Resave,
         SwitchKey, MigrateReport, MigrateDies

\* Every step keeps what has been sealed.
LEMMA SealingStep ==
    ASSUME Inv, Next
    PROVE  Sealing'
<1>1. ASSUME swept', NEW a \in Aliases, blob'[a] # Nil PROVE IsSealed(blob'[a])
  <2>1. CASE swept
    BY <1>1, <2>1, SealedWrites DEF Inv, Sealing
  <2>2. CASE ~swept
    <3>1. \E counted \in SUBSET Aliases : MigrateReport(counted)
      BY <1>1, <2>2, Zenon
         DEF Next, history, Boot, Stop, Register, Unregister, LoadSession, Exchange, Login,
             Disconnect, Resave, SwitchKey, MigrateStart, MigrateFile, MigrateQueryFails,
             MigrateWrite, MigrateWriteFails, MigrateScan, MigrateScanCut, MigrateReseal,
             MigrateResealFails, MigrateDies
    <3>2. /\ run.at = "reseal" /\ ~run.dry /\ ~run.cut /\ run.errors = 0
          /\ run.legacy[a] = Nil /\ blob' = blob
      BY <1>1, <2>2, <3>1, Zenon DEF MigrateReport, disk
    <3> QED
      BY <1>1, <3>2 DEF Inv, Sealing
  <2> QED
    BY <2>1, <2>2
<1> QED
  BY <1>1, ListStep DEF Sealing, IsSealed

-----------------------------------------------------------------------------
(* The connections *)

\* A connection that is not NoConn has a registered session behind it, whose
\* token opens.
LEMMA Connected ==
    ASSUME Inv, NEW a \in Aliases, conn[a] # NoConn
    PROVE  up /\ GetToken(a) # Nil
<1>1. up /\ row[a] # Nil /\ row[a].seal = envKey /\ row \in [Aliases -> {Nil} \cup Token]
  BY Zenon DEF Inv, Connecting, CredentialsTypeOK
<1> QED
  BY <1>1, Values DEF GetToken

\* An auth key stays authorised.
LEMMA Authorised ==
    ASSUME Inv, Next, NEW k \in AuthKey, bot[k] # Nil
    PROVE  bot'[k] # Nil
<1>1. bot \in [AuthKey -> Bots \cup {Nil}]
  BY DEF Inv, CredentialsTypeOK
<1>2. ASSUME NEW a \in Aliases, Login(a) PROVE bot'[k] # Nil
  <2>1. GetToken(a) # Nil
    BY <1>2, Connected DEF Login, NoConn
  <2> QED
    BY <1>1, <1>2, <2>1 DEF Login
<1> QED
  BY <1>2, Zenon
     DEF Next, telegram, Boot, Stop, Register, Unregister, LoadSession, Exchange, Disconnect,
         Resave, SwitchKey, MigrateStart, MigrateFile, MigrateQueryFails, MigrateWrite,
         MigrateWriteFails, MigrateScan, MigrateScanCut, MigrateReseal, MigrateResealFails,
         MigrateReport, MigrateDies

\* How a step changes a connection.
LEMMA ConnChange ==
    ASSUME Inv, Next, NEW c \in Aliases
    PROVE  \/ conn'[c] = conn[c]
           \/ conn'[c] = NoConn /\ blob' = blob
           \/ LoadSession(c) /\ blob[c] = Nil /\ conn'[c] = [at |-> "fresh", auth |-> Nil]
           \/ LoadSession(c) /\ blob[c] # Nil /\ conn'[c] = Status(blob[c].auth)
           \/ Exchange(c)
           \/ Login(c) /\ conn'[c] = [at |-> "live", auth |-> conn[c].auth]
<1>1. conn \in [Aliases -> Connection]
  BY DEF Inv, CredentialsTypeOK
<1> DEFINE P == \/ conn'[c] = conn[c]
                \/ conn'[c] = NoConn /\ blob' = blob
                \/ LoadSession(c) /\ blob[c] = Nil /\ conn'[c] = [at |-> "fresh", auth |-> Nil]
                \/ LoadSession(c) /\ blob[c] # Nil /\ conn'[c] = Status(blob[c].auth)
                \/ Exchange(c)
                \/ Login(c) /\ conn'[c] = [at |-> "live", auth |-> conn[c].auth]
<1> SUFFICES P
  OBVIOUS
<1>2. ASSUME NEW a \in Aliases, LoadSession(a) PROVE P
  BY <1>1, <1>2, Zenon DEF LoadSession
<1>3. ASSUME NEW a \in Aliases, Exchange(a) PROVE P
  BY <1>1, <1>3, Zenon DEF Exchange
<1>4. ASSUME NEW a \in Aliases, Login(a) PROVE P
  <2>1. conn' = [conn EXCEPT ![a].at = "live"]
    BY <1>4 DEF Login
  <2>2. CASE c = a
    <3>1. conn'[c] = [conn[c] EXCEPT !.at = "live"] /\ conn[c] \in Connection
      BY <1>1, <2>1, <2>2
    <3>2. conn'[c] = [at |-> "live", auth |-> conn[c].auth]
      BY <3>1 DEF Connection
    <3> QED
      BY <1>4, <2>2, <3>2
  <2>3. CASE c # a
    BY <1>1, <2>1, <2>3
  <2> QED
    BY <2>2, <2>3
<1>5. ASSUME NEW a \in Aliases, Unregister(a) \/ Disconnect(a) \/ \E b \in Bots : Register(a, b)
      PROVE  P
  BY <1>1, <1>5 DEF Unregister, Disconnect, Register, Drop, disk
<1>6. ASSUME Stop PROVE P
  BY <1>6, Zenon DEF Stop, disk
<1> HIDE DEF P
<1>7. ASSUME conn' = conn PROVE P
  BY <1>7 DEF P
<1> QED
  BY <1>2, <1>3, <1>4, <1>5, <1>6, <1>7, Zenon
     DEF Next, Boot, Resave, SwitchKey, MigrateStart, MigrateFile, MigrateQueryFails, MigrateWrite,
         MigrateWriteFails, MigrateScan, MigrateScanCut, MigrateReseal, MigrateResealFails,
         MigrateReport, MigrateDies

\* Every step keeps what the connections stand on.
LEMMA ConnectingStep ==
    ASSUME Inv, Next
    PROVE  Connecting'
<1>1. Connecting
  BY DEF Inv
<1>2. /\ conn \in [Aliases -> Connection] /\ row \in [Aliases -> {Nil} \cup Token]
      /\ blob \in [Aliases -> {Nil} \cup Blob] /\ bot \in [AuthKey -> Bots \cup {Nil}]
  BY DEF Inv, CredentialsTypeOK
<1> SUFFICES ASSUME NEW c \in Aliases
             PROVE  /\ conn'[c] # NoConn => up' /\ row'[c] # Nil /\ row'[c].seal = envKey'
                    /\ conn'[c].auth # Nil <=> conn'[c].at \in {"login", "live"}
                    /\ conn'[c].at = "live" => bot'[conn'[c].auth] # Nil
                    /\ bot'[<<c, 0>>] # Nil
  BY Zenon DEF Connecting, NoConn
<1>3. bot'[<<c, 0>>] # Nil
  BY <1>1, Authorised, Values DEF Connecting
<1>4. conn'[c] # NoConn => up' /\ row'[c] # Nil /\ row'[c].seal = envKey'
  <2> SUFFICES ASSUME conn'[c] # NoConn
               PROVE  up' /\ row'[c] # Nil /\ row'[c].seal = envKey'
    OBVIOUS
  <2>1. GetToken(c) # Nil /\ up
    <3>1. LoadSession(c) => GetToken(c) # Nil /\ up
      BY DEF LoadSession
    <3>2. Exchange(c) \/ Login(c) => conn[c] # NoConn
      BY DEF Exchange, Login, NoConn
    <3>3. conn[c] # NoConn \/ LoadSession(c)
      BY <3>2, ConnChange, Zenon
    <3> QED
      BY <3>1, <3>3, Connected
  <2>2. up /\ row[c] # Nil /\ row[c].seal = envKey
    BY <2>1 DEF GetToken
  <2>3. ASSUME NEW a \in Aliases, Unregister(a) \/ \E b \in Bots : Register(a, b)
        PROVE  up' /\ envKey' = envKey /\ row'[c] = row[c]
    BY <1>2, <2>3 DEF Unregister, Register, Drop
  <2>4. ~Stop
    BY DEF Stop
  <2>5. ~Boot /\ \A k \in Keys : ~SwitchKey(k)
    BY <2>2, Zenon DEF Boot, SwitchKey
  <2>6. UNCHANGED <<up, row, envKey>> \/ \E a \in Aliases : Unregister(a) \/ \E b \in Bots : Register(a, b)
    BY <2>4, <2>5, Zenon
       DEF Next, disk, LoadSession, Exchange, Login, Disconnect, Resave, MigrateStart,
           MigrateFile, MigrateQueryFails, MigrateWrite, MigrateWriteFails, MigrateScan,
           MigrateScanCut, MigrateReseal, MigrateResealFails, MigrateReport,
           MigrateDies
  <2> QED
    BY <2>2, <2>3, <2>6, Zenon
<1>5. /\ conn'[c].auth # Nil <=> conn'[c].at \in {"login", "live"}
      /\ conn'[c].at = "live" => bot'[conn'[c].auth] # Nil
  <2>1. CASE conn'[c] = conn[c]
    BY <1>1, <1>2, <2>1, Authorised, Zenon DEF Connecting, Connection
  <2>2. CASE conn'[c] = NoConn \/ conn'[c] = [at |-> "fresh", auth |-> Nil]
    BY <2>2 DEF NoConn
  <2>3. ASSUME NEW k \in AuthKey, conn'[c] = Status(k), UNCHANGED bot
        PROVE  /\ conn'[c].auth # Nil <=> conn'[c].at \in {"login", "live"}
               /\ conn'[c].at = "live" => bot'[conn'[c].auth] # Nil
    BY <2>3, Values DEF Status
  <2>4. CASE LoadSession(c) /\ blob[c] # Nil /\ conn'[c] = Status(blob[c].auth)
    BY <1>2, <2>3, <2>4 DEF LoadSession, telegram, Blob
  <2>5. CASE Exchange(c)
    <3>1. <<c, made'[c]>> \in AuthKey
      BY CredentialsAssumption, <2>5 DEF Exchange, AuthKey, Inv, CredentialsTypeOK
    <3> QED
      BY <1>2, <2>3, <2>5, <3>1 DEF Exchange
  <2>6. CASE Login(c) /\ conn'[c] = [at |-> "live", auth |-> conn[c].auth]
    <3>1. conn[c].auth \in AuthKey
      BY <1>1, <1>2, <2>6, Zenon DEF Login, Connecting, Connection
    <3>2. GetToken(c) # Nil
      BY <2>6, Connected DEF Login, NoConn
    <3> QED
      BY <1>2, <2>6, <3>1, <3>2, Values DEF Login
  <2> QED
    BY <2>1, <2>2, <2>4, <2>5, <2>6, ConnChange, Zenon
<1> QED
  BY <1>3, <1>4, <1>5

-----------------------------------------------------------------------------
(* The auth keys *)

\* An alias leaves the set of crossed ones with its connection.
LEMMA CrossedChange ==
    ASSUME Inv, Next, NEW c \in Aliases, c \notin crossed', conn'[c] # NoConn
    PROVE  c \notin crossed
<1>1. conn \in [Aliases -> Connection]
  BY DEF Inv, CredentialsTypeOK
<1>2. ASSUME NEW a \in Aliases, Drop(a) PROVE c \notin crossed
  BY <1>1, <1>2 DEF Drop
<1>3. ~Stop
  BY DEF Stop
<1>4. MigrateWrite => c \notin crossed
  BY DEF MigrateWrite
<1> QED
  BY <1>2, <1>3, <1>4, Zenon
     DEF Next, history, Boot, Register, Unregister, LoadSession, Exchange, Login, Disconnect,
         Resave, SwitchKey, MigrateStart, MigrateFile, MigrateQueryFails,
         MigrateWriteFails, MigrateScan, MigrateScanCut, MigrateReseal, MigrateResealFails,
         MigrateReport, MigrateDies

\* What is on the list of the last pass was there before, or has been read
\* from the table by this step.
LEMMA ListChange ==
    ASSUME Inv, Next, NEW c \in Aliases, run'.legacy[c] # Nil
    PROVE  \/ run'.legacy[c] = run.legacy[c] /\ run'.at = run.at /\ run'.key = run.key
           \/ /\ run'.legacy[c] = blob[c] /\ ~IsSealed(blob[c])
              /\ MigrateScan \/ \E part \in SUBSET Aliases : MigrateScanCut(part)
<1>1. run \in Command
  BY DEF Inv, CredentialsTypeOK
<1> DEFINE P == \/ run'.legacy[c] = run.legacy[c] /\ run'.at = run.at /\ run'.key = run.key
                \/ /\ run'.legacy[c] = blob[c] /\ ~IsSealed(blob[c])
                   /\ MigrateScan \/ \E part \in SUBSET Aliases : MigrateScanCut(part)
<1> SUFFICES P
  OBVIOUS
<1>2. run' # NoRun
  BY DEF NoRun
<1>3. ASSUME NEW given \in {envKey, Nil}, NEW dry \in BOOLEAN, MigrateStart(given, dry)
      PROVE  FALSE
  BY <1>3 DEF MigrateStart, NoRun
<1>4. ASSUME NEW a \in Aliases, MigrateFile(a) \/ MigrateQueryFails(a) PROVE P
  BY <1>1, <1>4, Zenon DEF MigrateFile, MigrateQueryFails, Command
<1>5. ASSUME MigrateWrite \/ MigrateWriteFails PROVE P
  BY <1>1, <1>5, Zenon DEF MigrateWrite, MigrateWriteFails, Command
<1>6. ASSUME MigrateScan PROVE P
  BY <1>1, <1>6 DEF MigrateScan, Command
<1>7. ASSUME NEW part \in SUBSET Aliases, MigrateScanCut(part) PROVE P
  <2>1. run'.legacy[c] = IF c \in part /\ blob[c] # Nil /\ ~IsSealed(blob[c]) THEN blob[c] ELSE Nil
    BY <1>1, <1>7 DEF MigrateScanCut, Command
  <2> QED
    BY <1>7, <2>1
<1>8. ASSUME NEW a \in Aliases, MigrateReseal(a) \/ MigrateResealFails(a) PROVE P
  <2>1. run' = [run EXCEPT !.legacy[a] = Nil] \/ run' = [run EXCEPT !.legacy[a] = Nil, !.errors = @ + 1]
    BY <1>8 DEF MigrateReseal, MigrateResealFails
  <2>2. run'.at = run.at /\ run'.key = run.key
    BY <1>1, <2>1, Zenon DEF Command
  <2>3. run'.legacy = [run.legacy EXCEPT ![a] = Nil] /\ run.legacy \in [Aliases -> {Nil} \cup Blob]
    BY <1>1, <2>1, Zenon DEF Command
  <2> QED
    BY <2>2, <2>3
<1>9. ASSUME UNCHANGED run PROVE P
  BY <1>9
<1> HIDE DEF P
<1> QED
  BY <1>2, <1>3, <1>4, <1>5, <1>6, <1>7, <1>8, <1>9, Zenon
     DEF Next, Boot, Stop, Register, Unregister, LoadSession, Exchange, Login, Disconnect, Resave,
         SwitchKey, MigrateReport, MigrateDies

\* A connection on the first key of its alias stays on it, and is not made
\* without a key, as long as that key is in the table.
LEMMA FirstKey ==
    ASSUME Inv, Next, NEW c \in Aliases, blob[c] # Nil, blob[c].auth = <<c, 0>>,
           conn[c].at # "fresh", conn[c].auth \in {Nil, <<c, 0>>}
    PROVE  conn'[c].at # "fresh" /\ conn'[c].auth \in {Nil, <<c, 0>>}
<1>1. ~Exchange(c)
  BY Zenon DEF Exchange
<1>2. CASE conn'[c] = conn[c] \/ conn'[c] = NoConn
  BY <1>2 DEF NoConn
<1>3. CASE conn'[c] = Status(blob[c].auth)
  BY <1>3 DEF Status
<1>4. CASE conn'[c] = [at |-> "live", auth |-> conn[c].auth]
  BY <1>4
<1> QED
  BY <1>1, <1>2, <1>3, <1>4, ConnChange

\* How a step changes the blob of an alias.
LEMMA BlobChange ==
    ASSUME Inv, Next, NEW c \in Aliases
    PROVE  \/ blob'[c] = blob[c]
           \/ /\ Exchange(c) \/ Resave(c)
              /\ blob'[c] # Nil /\ blob'[c].seal = envKey
              /\ conn'[c].auth # Nil /\ blob'[c].auth = conn'[c].auth
           \/ /\ (MigrateWrite /\ run.write = c) \/ (MigrateReseal(c) /\ ~run.dry)
              /\ blob'[c] # Nil /\ blob'[c].seal = run.key /\ blob'[c].auth = <<c, 0>>
<1>1. ASSUME NEW a \in Aliases, Exchange(a) \/ Resave(a), blob'[c] # blob[c]
      PROVE  /\ Exchange(c) \/ Resave(c)
             /\ blob'[c] # Nil /\ blob'[c].seal = envKey
             /\ conn'[c].auth # Nil /\ blob'[c].auth = conn'[c].auth
  <2>1. a = c
    BY <1>1, ClientWrites
  <2> QED
    BY <1>1, <2>1, ClientWrites
<1>2. ASSUME NEW a \in Aliases, blob'[c] # blob[c],
             (MigrateWrite /\ run.write = a) \/ (MigrateReseal(a) /\ ~run.dry)
      PROVE  /\ (MigrateWrite /\ run.write = c) \/ (MigrateReseal(c) /\ ~run.dry)
             /\ blob'[c] # Nil /\ blob'[c].seal = run.key /\ blob'[c].auth = <<c, 0>>
  <2>1. a = c
    BY <1>2, CommandWrites
  <2> QED
    BY <1>2, <2>1, CommandWrites
<1> QED
  BY <1>1, <1>2, OtherSteps

\* Every step keeps what is known of the auth keys.
LEMMA KeepingStep ==
    ASSUME Inv, Next
    PROVE  Keeping'
<1>1. Keeping /\ Connecting /\ Connecting'
  BY ConnectingStep DEF Inv
<1> SUFFICES ASSUME NEW c \in Aliases
             PROVE  /\ conn'[c].at = "fresh" /\ c \notin crossed' => blob'[c] = Nil
                    /\ conn'[c].auth # Nil /\ c \notin crossed' =>
                         blob'[c] # Nil /\ blob'[c].auth = conn'[c].auth
                    /\ blob'[c] # Nil /\ ~IsSealed(blob'[c]) =>
                         /\ blob'[c].auth = <<c, 0>>
                         /\ conn'[c].at # "fresh" /\ conn'[c].auth \in {Nil, <<c, 0>>}
                    /\ run'.legacy[c] # Nil =>
                         /\ run'.legacy[c].auth = <<c, 0>>
                         /\ blob'[c] # Nil /\ blob'[c].auth = <<c, 0>>
                         /\ conn'[c].at # "fresh" /\ conn'[c].auth \in {Nil, <<c, 0>>}
  BY DEF Keeping, IsSealed
<1>2. conn'[c].at = "fresh" => conn'[c].auth = Nil
  BY <1>1, Zenon DEF Connecting
<1>3. ASSUME conn'[c].at = "fresh" \/ conn'[c].auth # Nil, c \notin crossed'
      PROVE  IF conn'[c].at = "fresh" THEN blob'[c] = Nil
             ELSE blob'[c] # Nil /\ blob'[c].auth = conn'[c].auth
  <2>1. conn'[c] # NoConn /\ c \notin crossed
    BY <1>3, CrossedChange DEF NoConn
  <2>2. CASE blob'[c] = blob[c]
    <3>1. CASE conn'[c] = conn[c]
      BY <1>1, <1>2, <1>3, <2>1, <2>2, <3>1, Zenon DEF Keeping
    <3>2. CASE blob[c] = Nil /\ conn'[c] = [at |-> "fresh", auth |-> Nil]
      BY <2>2, <3>2
    <3>3. CASE blob[c] # Nil /\ conn'[c] = Status(blob[c].auth)
      BY <2>2, <3>3 DEF Status
    <3>4. CASE Exchange(c)
      BY <1>2, <3>4, ClientWrites
    <3>5. CASE Login(c) /\ conn'[c] = [at |-> "live", auth |-> conn[c].auth]
      BY <1>1, <1>3, <2>1, <2>2, <3>5 DEF Keeping
    <3> QED
      BY <2>1, <3>1, <3>2, <3>3, <3>4, <3>5, ConnChange, Zenon
  <2>3. CASE blob'[c] # Nil /\ conn'[c].auth # Nil /\ blob'[c].auth = conn'[c].auth
    BY <1>2, <2>3
  <2>4. CASE /\ (MigrateWrite /\ run.write = c) \/ (MigrateReseal(c) /\ ~run.dry)
             /\ blob'[c] # Nil /\ blob'[c].seal = run.key /\ blob'[c].auth = <<c, 0>>
    <3>1. conn' = conn
      BY <2>4 DEF MigrateWrite, MigrateReseal
    <3>2. CASE MigrateWrite /\ run.write = c
      <4>1. conn[c] = NoConn \/ conn[c].auth = <<c, 0>>
        BY <1>3, <3>2 DEF MigrateWrite
      <4> QED
        BY <1>2, <2>1, <2>4, <3>1, <4>1, Values, Zenon
    <3>3. CASE MigrateReseal(c)
      <4>1. conn[c].at # "fresh" /\ conn[c].auth \in {Nil, <<c, 0>>}
        BY <1>1, <3>3 DEF Keeping, MigrateReseal
      <4> QED
        BY <1>3, <2>4, <3>1, <4>1
    <3> QED
      BY <2>4, <3>2, <3>3
  <2> QED
    BY <2>2, <2>3, <2>4, BlobChange
<1>4. ASSUME blob'[c] # Nil, ~IsSealed(blob'[c])
      PROVE  /\ blob'[c].auth = <<c, 0>>
             /\ conn'[c].at # "fresh" /\ conn'[c].auth \in {Nil, <<c, 0>>}
  <2>1. blob'[c] = blob[c]
    BY <1>4, SealedWrites
  <2> QED
    BY <1>1, <1>4, <2>1, FirstKey, Zenon DEF Keeping
<1>5. ASSUME run'.legacy[c] # Nil
      PROVE  /\ run'.legacy[c].auth = <<c, 0>>
             /\ blob'[c] # Nil /\ blob'[c].auth = <<c, 0>>
             /\ conn'[c].at # "fresh" /\ conn'[c].auth \in {Nil, <<c, 0>>}
  <2>1. /\ run'.legacy[c].auth = <<c, 0>> /\ blob[c] # Nil /\ blob[c].auth = <<c, 0>>
        /\ conn[c].at # "fresh" /\ conn[c].auth \in {Nil, <<c, 0>>}
    BY <1>1, <1>5, ListChange DEF Keeping
  <2>2. conn'[c].at # "fresh" /\ conn'[c].auth \in {Nil, <<c, 0>>}
    BY <2>1, FirstKey
  <2>3. blob'[c] # Nil /\ blob'[c].auth = <<c, 0>>
    BY <2>1, <2>2, BlobChange
  <2> QED
    BY <2>1, <2>2, <2>3
<1> QED
  BY <1>2, <1>3, <1>4, <1>5

-----------------------------------------------------------------------------
(* The keys that seal *)

\* The command keeps its key from its start to its end.
LEMMA KeyChange ==
    ASSUME Inv, Next, run'.at # "idle"
    PROVE  \/ run.at # "idle" /\ run'.key = run.key
           \/ \E given \in {envKey, Nil}, dry \in BOOLEAN : MigrateStart(given, dry)
<1>1. run \in Command
  BY DEF Inv, CredentialsTypeOK
<1>2. run' # NoRun
  BY DEF NoRun
<1>3. ASSUME NEW a \in Aliases, MigrateFile(a) \/ MigrateQueryFails(a)
      PROVE  run.at # "idle" /\ run'.key = run.key
  BY <1>1, <1>3, Zenon DEF MigrateFile, MigrateQueryFails, Command
<1>4. ASSUME MigrateWrite \/ MigrateWriteFails
      PROVE  run.at # "idle" /\ run'.key = run.key
  BY <1>1, <1>4, Zenon DEF MigrateWrite, MigrateWriteFails, Command, Inv, Phases
<1>5. ASSUME MigrateScan \/ \E part \in SUBSET Aliases : MigrateScanCut(part)
      PROVE  run.at # "idle" /\ run'.key = run.key
  BY <1>1, <1>5, Zenon DEF MigrateScan, MigrateScanCut, Command
<1>6. ASSUME NEW a \in Aliases, MigrateReseal(a) \/ MigrateResealFails(a)
      PROVE  run.at # "idle" /\ run'.key = run.key
  BY <1>1, <1>6, Zenon DEF MigrateReseal, MigrateResealFails, Command
<1>7. ASSUME UNCHANGED run PROVE run.at # "idle" /\ run'.key = run.key
  BY <1>7
<1> QED
  BY <1>2, <1>3, <1>4, <1>5, <1>6, <1>7, Zenon
     DEF Next, Boot, Stop, Register, Unregister, LoadSession, Exchange, Login, Disconnect, Resave,
         SwitchKey, MigrateReport, MigrateDies

\* A blob is about to be replaced by that of a file: it was so before, or
\* the file has just been compared with it, or it could not be read.
LEMMA WriteChange ==
    ASSUME Inv, Next, NEW c \in Aliases, run'.write = c
    PROVE  /\ run'.key = run.key /\ run.at = "files"
           /\ \/ run.write = c /\ ~MigrateWrite
              \/ MigrateFile(c) /\ (blob[c] # Nil => OpenBlob(run.key, blob[c]))
              \/ MigrateQueryFails(c)
<1>1. run \in Command /\ c # Nil
  BY Values, Zenon DEF Inv, CredentialsTypeOK
<1> DEFINE P == /\ run'.key = run.key /\ run.at = "files"
                /\ \/ run.write = c /\ ~MigrateWrite
                   \/ MigrateFile(c) /\ (blob[c] # Nil => OpenBlob(run.key, blob[c]))
                   \/ MigrateQueryFails(c)
<1> SUFFICES P
  BY Zenon
<1>2. run' # NoRun
  BY <1>1 DEF NoRun
<1>3. ASSUME NEW given \in {envKey, Nil}, NEW dry \in BOOLEAN, MigrateStart(given, dry)
      PROVE  FALSE
  BY <1>1, <1>3 DEF MigrateStart, NoRun
<1>4. ASSUME NEW a \in Aliases, MigrateFile(a) PROVE P
  BY <1>1, <1>4, Zenon DEF MigrateFile, Command
<1>5. ASSUME NEW a \in Aliases, MigrateQueryFails(a) PROVE P
  BY <1>1, <1>5, Zenon DEF MigrateQueryFails, Command
<1>6. ASSUME MigrateWrite \/ MigrateWriteFails PROVE FALSE
  BY <1>1, <1>6, Zenon DEF MigrateWrite, MigrateWriteFails, Command
<1>7. ASSUME MigrateScan \/ \E part \in SUBSET Aliases : MigrateScanCut(part) PROVE FALSE
  BY <1>1, <1>7, Zenon DEF MigrateScan, MigrateScanCut, Command
<1>8. ASSUME NEW a \in Aliases, MigrateReseal(a) \/ MigrateResealFails(a) PROVE FALSE
  <2>1. run.at = "reseal" /\ run'.write = run.write
    BY <1>1, <1>8, Zenon DEF MigrateReseal, MigrateResealFails, Command
  <2> QED
    BY <1>1, <2>1 DEF Inv, Phases
<1>9. ASSUME UNCHANGED run PROVE P
  BY <1>1, <1>6, <1>9 DEF Inv, Phases
<1> HIDE DEF P
<1> QED
  BY <1>2, <1>3, <1>4, <1>5, <1>6, <1>7, <1>8, <1>9, Zenon
     DEF Next, Boot, Stop, Register, Unregister, LoadSession, Exchange, Login, Disconnect, Resave,
         SwitchKey, MigrateReport, MigrateDies

\* The environment of a connection, and whether two keys were mixed.
LEMMA Environment ==
    ASSUME Inv, Next
    PROVE  /\ mixed => mixed'
           /\ up => envKey' = envKey
           /\ (\E c \in Aliases : conn'[c] # NoConn) => envKey' = envKey
<1>1. mixed => mixed'
  BY Zenon
     DEF Next, history, Boot, Stop, Register, Unregister, LoadSession, Exchange, Login, Disconnect,
         Resave, SwitchKey, MigrateStart, MigrateFile, MigrateQueryFails, MigrateWrite,
         MigrateWriteFails, MigrateScan, MigrateScanCut, MigrateReseal, MigrateResealFails,
         MigrateReport, MigrateDies
<1>2. ASSUME NEW k \in Keys, SwitchKey(k) PROVE ~up /\ \A c \in Aliases : conn'[c] = NoConn
  BY <1>2, Zenon DEF SwitchKey, Inv, Connecting
<1>3. envKey' = envKey \/ \E k \in Keys : SwitchKey(k)
  BY Zenon DEF Next, Boot, Stop, Register, Unregister, LoadSession, Exchange, Login, Disconnect,
         Resave, MigrateStart, MigrateFile, MigrateQueryFails, MigrateWrite,
         MigrateWriteFails, MigrateScan, MigrateScanCut, MigrateReseal, MigrateResealFails,
         MigrateReport, MigrateDies
<1> QED
  BY <1>1, <1>2, <1>3

\* Unless two keys were mixed, a command beside the sidecar has its key.
LEMMA OneKey ==
    ASSUME Inv, Next, ~mixed', up', run'.at # "idle"
    PROVE  run'.key = envKey'
<1>1. ~mixed
  BY Environment
<1>2. ASSUME Boot PROVE run'.key = envKey'
  <2>1. run.key \in {Nil, envKey} /\ run' = run /\ envKey' = envKey
    BY <1>2, Zenon DEF Boot
  <2> QED
    BY <2>1 DEF Inv, Phases
<1>3. ASSUME NEW given \in {envKey, Nil}, NEW dry \in BOOLEAN, MigrateStart(given, dry)
      PROVE  run'.key = envKey'
  BY <1>3, Zenon DEF MigrateStart, NoRun
<1>4. up \/ Boot
  BY Zenon DEF Next, Stop, Register, Unregister, LoadSession, Exchange, Login, Disconnect,
         Resave, SwitchKey, MigrateStart, MigrateFile, MigrateQueryFails, MigrateWrite,
         MigrateWriteFails, MigrateScan, MigrateScanCut, MigrateReseal, MigrateResealFails,
         MigrateReport, MigrateDies
<1>5. CASE up /\ run.at # "idle" /\ run'.key = run.key
  BY <1>1, <1>5, Environment DEF Inv, Opening
<1> QED
  BY <1>2, <1>3, <1>4, <1>5, KeyChange

\* Every step keeps who can open what.
LEMMA OpeningStep ==
    ASSUME Inv, Next
    PROVE  Opening'
<1>1. Opening
  BY DEF Inv
<1> SUFFICES ASSUME ~mixed', NEW c \in Aliases
             PROVE  /\ conn'[c] # NoConn /\ blob'[c] # Nil => OpenBlob(envKey', blob'[c])
                    /\ run'.write = c /\ blob'[c] # Nil => OpenBlob(run'.key, blob'[c])
                    /\ run'.legacy[c] # Nil => OpenBlob(run'.key, blob'[c])
  BY OneKey DEF Opening, OpenBlob, NoConn
<1>2. ~mixed
  BY Environment
<1>3. ASSUME Exchange(c) \/ Resave(c)
      PROVE  up /\ run' = run /\ (run.at # "idle" => run.key = envKey)
  <2>1. up
    BY <1>3, Connected DEF Exchange, Resave, NoConn
  <2> QED
    BY <1>1, <1>2, <1>3, <2>1, Zenon DEF Exchange, Resave, Opening
<1>4. ASSUME conn'[c] # NoConn, blob'[c] # Nil PROVE OpenBlob(envKey', blob'[c])
  <2>1. envKey' = envKey
    BY <1>4, Environment
  <2>2. CASE blob'[c] = blob[c]
    <3>1. LoadSession(c) => OpenBlob(envKey, blob[c])
      BY <1>4, <2>2 DEF LoadSession
    <3>2. Exchange(c) \/ Login(c) => conn[c] # NoConn
      BY DEF Exchange, Login, NoConn
    <3>3. conn[c] # NoConn \/ LoadSession(c)
      BY <1>4, <3>2, ConnChange, Zenon
    <3> QED
      BY <1>1, <1>2, <1>4, <2>1, <2>2, <3>1, <3>3 DEF Opening
  <2>3. CASE blob'[c].seal = envKey
    BY <2>1, <2>3 DEF OpenBlob
  <2>4. CASE /\ (MigrateWrite /\ run.write = c) \/ (MigrateReseal(c) /\ ~run.dry)
             /\ blob'[c].seal = run.key
    <3>1. conn' = conn
      BY <2>4 DEF MigrateWrite, MigrateReseal
    <3>2. up
      BY <1>4, <3>1, Connected
    <3>3. run.at # "idle"
      BY <2>4, Values DEF MigrateWrite, MigrateReseal, Inv, Phases
    <3> QED
      BY <1>1, <1>2, <2>1, <2>4, <3>2, <3>3 DEF Opening, OpenBlob
  <2> QED
    BY <2>2, <2>3, <2>4, BlobChange
<1>5. ASSUME run'.write = c, blob'[c] # Nil PROVE OpenBlob(run'.key, blob'[c])
  <2>1. run'.key = run.key /\ run.at = "files" /\ ~MigrateQueryFails(c)
    BY <1>5, WriteChange, Zenon DEF MigrateQueryFails
  <2>2. CASE run.write = c /\ ~MigrateWrite
    <3>1. ~MigrateReseal(c)
      BY <2>1 DEF MigrateReseal
    <3>2. CASE blob'[c] = blob[c]
      BY <1>1, <1>2, <1>5, <2>1, <2>2, <3>2 DEF Opening
    <3>3. CASE (Exchange(c) \/ Resave(c)) /\ blob'[c].seal = envKey
      BY <1>3, <2>1, <3>3 DEF OpenBlob
    <3> QED
      BY <2>2, <3>1, <3>2, <3>3, BlobChange
  <2>3. CASE MigrateFile(c) /\ (blob[c] # Nil => OpenBlob(run.key, blob[c]))
    <3>1. blob' = blob
      BY <2>3 DEF MigrateFile, disk
    <3> QED
      BY <1>5, <2>1, <2>3, <3>1
  <2> QED
    BY <1>5, <2>1, <2>2, <2>3, WriteChange
<1>6. ASSUME run'.legacy[c] # Nil PROVE OpenBlob(run'.key, blob'[c])
  <2>1. CASE run'.legacy[c] = run.legacy[c] /\ run'.key = run.key
    <3>1. run.at = "reseal"
      BY <1>6, <2>1 DEF Inv, Phases
    <3>2. CASE blob'[c] = blob[c]
      BY <1>1, <1>2, <1>6, <2>1, <3>2 DEF Opening
    <3>3. CASE (Exchange(c) \/ Resave(c)) /\ blob'[c].seal = envKey
      BY <1>3, <2>1, <3>1, <3>3 DEF OpenBlob
    <3>4. CASE blob'[c].seal = run.key
      BY <2>1, <3>4 DEF OpenBlob
    <3> QED
      BY <3>2, <3>3, <3>4, BlobChange
  <2>2. CASE /\ ~IsSealed(blob[c])
             /\ MigrateScan \/ \E part \in SUBSET Aliases : MigrateScanCut(part)
    BY <2>2, Zenon DEF MigrateScan, MigrateScanCut, disk, IsSealed, OpenBlob
  <2> QED
    BY <1>6, <2>1, <2>2, ListChange
<1> QED
  BY <1>4, <1>5, <1>6

-----------------------------------------------------------------------------
(* A run beside no sidecar *)

\* Beside no sidecar only the command takes steps.
LEMMA AloneSteps ==
    ASSUME Inv, Next, alone'
    PROVE  \/ ~up /\ \E given \in {envKey, Nil}, dry \in BOOLEAN : MigrateStart(given, dry)
           \/ /\ alone /\ ~up
              /\ \/ \E a \in Aliases : \/ MigrateFile(a) \/ MigrateQueryFails(a)
                                       \/ MigrateReseal(a) \/ MigrateResealFails(a)
                 \/ \E part \in SUBSET Aliases : MigrateScanCut(part)
                 \/ MigrateWrite \/ MigrateWriteFails \/ MigrateScan
<1>1. alone => ~up /\ run # NoRun
  BY Idle DEF Inv, Working
<1>2. ~up => \A a \in Aliases : conn[a] = NoConn
  BY Zenon DEF Inv, Connecting
<1>3. ASSUME NEW a \in Aliases
      PROVE  /\ \A b \in Bots : ~Register(a, b)
             /\ ~Unregister(a) /\ ~LoadSession(a) /\ ~Exchange(a) /\ ~Login(a)
             /\ ~Disconnect(a) /\ ~Resave(a)
  <2>1. (\E b \in Bots : Register(a, b)) \/ Unregister(a) \/ LoadSession(a) => up /\ alone
    BY Zenon DEF history, Register, Unregister, LoadSession
  <2>2. Exchange(a) \/ Login(a) \/ Disconnect(a) \/ Resave(a) => UNCHANGED alone
    BY Zenon DEF history, Exchange, Login, Disconnect, Resave
  <2>3. Exchange(a) \/ Login(a) \/ Disconnect(a) \/ Resave(a) => conn[a] # NoConn
    <3>1. conn[a].at \in {"fresh", "login", "live"} => conn[a] # NoConn
      BY DEF NoConn
    <3> QED
      BY <3>1, Zenon DEF Exchange, Login, Disconnect, Resave
  <2> QED
    BY <1>1, <1>2, <2>1, <2>2, <2>3, Zenon
<1>4. ~Boot /\ ~Stop /\ ~MigrateDies /\ \A counted \in SUBSET Aliases : ~MigrateReport(counted)
  BY <1>1, Zenon DEF Boot, Stop, MigrateReport, MigrateDies
<1>5. \A k \in Keys : ~SwitchKey(k)
  BY <1>1, Zenon DEF SwitchKey
<1>6. ASSUME NEW given \in {envKey, Nil}, NEW dry \in BOOLEAN, MigrateStart(given, dry)
      PROVE  ~up
  BY <1>6, Zenon DEF MigrateStart
<1>7. \/ \E given \in {envKey, Nil}, dry \in BOOLEAN : MigrateStart(given, dry)
      \/ \E a \in Aliases : \/ MigrateFile(a) \/ MigrateQueryFails(a)
                            \/ MigrateReseal(a) \/ MigrateResealFails(a)
      \/ \E part \in SUBSET Aliases : MigrateScanCut(part)
      \/ MigrateWrite \/ MigrateWriteFails \/ MigrateScan
  BY <1>3, <1>4, <1>5 DEF Next
<1>8. alone \/ \E given \in {envKey, Nil}, dry \in BOOLEAN : MigrateStart(given, dry)
  BY <1>7, Zenon
     DEF history, MigrateFile, MigrateQueryFails, MigrateReseal, MigrateResealFails,
         MigrateScanCut, MigrateWrite, MigrateWriteFails, MigrateScan
<1> QED
  BY <1>1, <1>6, <1>7, <1>8

\* A run that is alone is under way.
LEMMA AloneStep ==
    ASSUME Inv, Next, alone'
    PROVE  ~up' /\ run'.at # "idle"
<1>1. run \in Command
  BY DEF Inv, CredentialsTypeOK
<1>2. ASSUME NEW given \in {envKey, Nil}, NEW dry \in BOOLEAN, MigrateStart(given, dry)
      PROVE  run'.at # "idle"
  BY <1>2 DEF MigrateStart, NoRun
<1>3. ASSUME NEW a \in Aliases, MigrateFile(a) \/ MigrateQueryFails(a) PROVE run'.at # "idle"
  BY <1>1, <1>3, Zenon DEF MigrateFile, MigrateQueryFails, Command
<1>4. ASSUME NEW a \in Aliases, MigrateReseal(a) \/ MigrateResealFails(a) PROVE run'.at # "idle"
  BY <1>1, <1>4, Zenon DEF MigrateReseal, MigrateResealFails, Command
<1>5. ASSUME MigrateScan \/ \E part \in SUBSET Aliases : MigrateScanCut(part) PROVE run'.at # "idle"
  BY <1>1, <1>5, Zenon DEF MigrateScan, MigrateScanCut, Command
<1>6. ASSUME MigrateWrite \/ MigrateWriteFails PROVE run'.at # "idle"
  <2>1. run.at = "files"
    BY <1>6, Zenon DEF MigrateWrite, MigrateWriteFails, Inv, Phases
  <2> QED
    BY <1>1, <1>6, <2>1, Zenon DEF MigrateWrite, MigrateWriteFails, Command
<1>7. ~up'
  BY AloneSteps, Zenon
     DEF MigrateStart, MigrateFile, MigrateQueryFails, MigrateReseal, MigrateResealFails,
         MigrateScan, MigrateScanCut, MigrateWrite, MigrateWriteFails
<1> QED
  BY <1>2, <1>3, <1>4, <1>5, <1>6, <1>7, AloneSteps

\* Every step keeps what a run beside no sidecar has done.
LEMMA WorkingStep ==
    ASSUME Inv, Next
    PROVE  Working'
<1> SUFFICES ASSUME alone', ~run'.dry, run'.errors = 0,
                    NEW c \in run'.found \ {run'.write}
             PROVE  /\ blob'[c] # Nil /\ OpenBlob(run'.key, blob'[c])
                    /\ bot'[blob'[c].auth] # Nil
  BY AloneStep DEF Working, OpenBlob
<1> DEFINE Done  == blob[c] # Nil /\ OpenBlob(run.key, blob[c]) /\ bot[blob[c].auth] # Nil
           Done1 == blob'[c] # Nil /\ OpenBlob(run'.key, blob'[c]) /\ bot'[blob'[c].auth] # Nil
<1>1. /\ run \in Command /\ blob \in [Aliases -> {Nil} \cup Blob]
      /\ run' \in Command
  BY RunStep, Zenon DEF Inv, CredentialsTypeOK
<1>2. c \in Aliases /\ run.errors \in Nat /\ bot[<<c, 0>>] # Nil
  BY <1>1 DEF Command, Inv, Connecting
<1>3. ASSUME run.at # "idle", alone, ~run.dry, run.errors = 0, c \in run.found \ {run.write}
      PROVE  Done
  BY <1>3, Zenon DEF Inv, Working
<1>4. ASSUME NEW given \in {envKey, Nil}, NEW dry \in BOOLEAN, MigrateStart(given, dry)
      PROVE  FALSE
  BY <1>4 DEF MigrateStart, NoRun
<1>5. ASSUME alone, MigrateFile(c) PROVE Done1
  <2>1. /\ run.at = "files" /\ run'.key = run.key /\ blob' = blob /\ bot' = bot
        /\ run'.dry = run.dry
    BY <1>1, <1>5 DEF MigrateFile, Command, disk, telegram
  <2>2. blob[c] # Nil => OpenBlob(run.key, blob[c])
    BY <1>1, <1>2, <1>5 DEF MigrateFile, Command
  <2>3. CASE c \in run.found
    BY <1>1, <1>2, <1>3, <1>5, <2>1, <2>3, Values DEF MigrateFile, Command
  <2>4. CASE c \notin run.found
    <3>1. file[c] = "usable" /\ blob[c] # Nil /\ SealBlob(Plain, blob[c]) = FromFile(c)
      BY <1>1, <1>2, <1>5, <2>1, <2>4 DEF MigrateFile, Command
    <3>2. blob[c].auth = <<c, 0>>
      BY <1>1, <1>2, <3>1 DEF SealBlob, FromFile, Blob
    <3> QED
      BY <1>2, <2>1, <2>2, <3>1, <3>2
  <2> QED
    BY <2>3, <2>4
<1>6. ASSUME NEW a \in Aliases \ {c}, alone, MigrateFile(a) PROVE Done1
  <2>1. /\ run.at # "idle" /\ run'.key = run.key /\ blob' = blob /\ bot' = bot
        /\ run'.dry = run.dry /\ run.errors = 0 /\ c \in run.found /\ run.write = Nil
    BY <1>1, <1>2, <1>6 DEF MigrateFile, Command, disk, telegram
  <2> QED
    BY <1>2, <1>3, <1>6, <2>1, Values
<1>7. ASSUME NEW a \in Aliases, alone, MigrateQueryFails(a) PROVE Done1
  <2>1. /\ run.at # "idle" /\ run'.key = run.key /\ blob' = blob /\ bot' = bot
        /\ run'.dry = run.dry /\ run'.errors = run.errors /\ run'.write = a
        /\ run'.found = run.found \cup {a} /\ run.write = Nil
    BY <1>1, <1>7 DEF MigrateQueryFails, Command, disk, telegram
  <2> QED
    BY <1>2, <1>3, <1>7, <2>1, Values, Zenon
<1>8. ASSUME alone, MigrateScan \/ \E part \in SUBSET Aliases : MigrateScanCut(part) PROVE Done1
  <2>1. /\ run.at # "idle" /\ run'.key = run.key /\ blob' = blob /\ bot' = bot
        /\ run'.dry = run.dry /\ run'.errors = run.errors /\ run'.write = run.write
        /\ run'.found = run.found
    <3>1. CASE MigrateScan
      BY <1>1, <3>1, Zenon DEF MigrateScan, Command, disk, telegram
    <3>2. ASSUME NEW part \in SUBSET Aliases, MigrateScanCut(part)
          PROVE  /\ run.at # "idle" /\ run'.key = run.key /\ blob' = blob /\ bot' = bot
                 /\ run'.dry = run.dry /\ run'.errors = run.errors /\ run'.write = run.write
                 /\ run'.found = run.found
      BY <1>1, <3>2, Zenon DEF MigrateScanCut, Command, disk, telegram
    <3> QED
      BY <1>8, <3>1, <3>2
  <2> QED
    BY <1>3, <1>8, <2>1, Zenon
<1>9. ASSUME NEW a \in Aliases, MigrateWriteFails \/ MigrateResealFails(a) PROVE FALSE
  <2>1. run'.errors = run.errors + 1
    BY <1>1, <1>9, Zenon DEF MigrateWriteFails, MigrateResealFails, Command
  <2> QED
    BY <1>2, <2>1
<1>10. ASSUME alone, MigrateWrite PROVE Done1
  <2>1. /\ run.at # "idle" /\ run'.key = run.key /\ bot' = bot
        /\ run'.dry = run.dry /\ run'.errors = run.errors /\ run'.found = run.found
    BY <1>1, <1>10 DEF MigrateWrite, Command, telegram, Inv, Phases
  <2>2. CASE c = run.write
    BY <1>2, <1>10, <2>1, <2>2, CommandWrites DEF OpenBlob
  <2>3. CASE c # run.write
    <3>1. blob'[c] = blob[c]
      BY <1>1, <1>2, <1>10, <2>3 DEF MigrateWrite
    <3> QED
      BY <1>3, <1>10, <2>1, <2>3, <3>1
  <2> QED
    BY <2>2, <2>3
<1>11. ASSUME NEW a \in Aliases, alone, MigrateReseal(a) PROVE Done1
  <2>1. /\ run.at # "idle" /\ run'.key = run.key /\ bot' = bot /\ ~run.dry
        /\ run'.errors = run.errors /\ run'.found = run.found /\ run'.write = run.write
    BY <1>1, <1>11 DEF MigrateReseal, Command, telegram
  <2>2. CASE c = a
    BY <1>2, <1>11, <2>1, <2>2, CommandWrites DEF OpenBlob
  <2>3. CASE c # a
    <3>1. blob'[c] = blob[c]
      BY <1>2, <1>11, <2>1, <2>3, CommandWrites
    <3> QED
      BY <1>3, <1>11, <2>1, <3>1
  <2> QED
    BY <2>2, <2>3
<1> HIDE DEF Done, Done1
<1>12. Done1
  <2>1. CASE MigrateWriteFails
    BY <1>2, <1>9, <2>1
  <2> QED
    BY <1>4, <1>5, <1>6, <1>7, <1>8, <1>9, <1>10, <1>11, <2>1, AloneSteps
<1> QED
  BY <1>12 DEF Done1

-----------------------------------------------------------------------------
(* The promise of the report *)

\* A report without required logins has found a file for every registered
\* alias that it has counted.
LEMMA NoneRequired ==
    ASSUME Inv, NEW counted \in SUBSET Aliases, LoginsRequired(counted) = 0
    PROVE  run.errors = 0 /\ \A a \in counted : row[a] # Nil => a \in run.found
<1> DEFINE S == {a \in counted : row[a] # Nil /\ a \notin run.found}
<1>1. IsFiniteSet(S)
  BY CredentialsAssumption, FS_Subset
<1>2. Cardinality(S) \in Nat
  BY <1>1, FS_CardinalityType
<1>3. run.errors \in Nat /\ run.errors + Cardinality(S) = 0
  BY DEF LoginsRequired, Inv, CredentialsTypeOK, Command
<1> HIDE DEF S
<1>4. run.errors = 0 /\ Cardinality(S) = 0
  BY <1>2, <1>3
<1>5. S = {}
  BY <1>1, <1>4, FS_EmptySet
<1> QED
  BY <1>4, <1>5 DEF S

\* What a run that keeps its promise leaves behind.
LEMMA ReportKeeps ==
    ASSUME Inv, NEW counted \in SUBSET Aliases, MigrateReport(counted), NEW c \in counted,
           row[c] # Nil, LoginsRequired(counted) = 0, ~run.dry, ~run.cut, alone, run.key = envKey
    PROVE  /\ blob[c] # Nil /\ blob[c].seal = envKey /\ bot[blob[c].auth] # Nil
           /\ conn[c] = NoConn
<1>1. run.at = "reseal" /\ run.errors = 0 /\ run.legacy[c] = Nil /\ c \in run.found
  BY NoneRequired DEF MigrateReport
<1>2. run.write # c
  BY <1>1, Values, Zenon DEF Inv, Phases
<1>3. blob[c] # Nil /\ OpenBlob(envKey, blob[c]) /\ bot[blob[c].auth] # Nil
  BY <1>1, <1>2 DEF Inv, Working
<1>4. IsSealed(blob[c])
  BY <1>1, <1>3 DEF Inv, Sealing
<1>5. conn[c] = NoConn
  BY Zenon DEF Inv, Working, Connecting
<1> QED
  BY <1>3, <1>4, <1>5 DEF OpenBlob, IsSealed

\* A promise is made by a report only, and ends when the key changes or the
\* blob is written blindly.
LEMMA PromisedChange ==
    ASSUME Inv, Next, NEW c \in promised'
    PROVE  \/ c \in promised /\ envKey' = envKey /\ ~MigrateQueryFails(c)
           \/ \E counted \in SUBSET Aliases :
                /\ MigrateReport(counted) /\ c \in counted /\ row[c] # Nil
                /\ LoginsRequired(counted) = 0 /\ ~run.dry /\ ~run.cut /\ alone /\ run.key = envKey
<1>1. ~MigrateQueryFails(c) /\ \A k \in Keys : ~SwitchKey(k)
  BY DEF MigrateQueryFails, SwitchKey
<1>2. ASSUME NEW counted \in SUBSET Aliases, MigrateReport(counted), c \notin promised
      PROVE  /\ c \in counted /\ row[c] # Nil
             /\ LoginsRequired(counted) = 0 /\ ~run.dry /\ ~run.cut /\ alone /\ run.key = envKey
  BY <1>2 DEF MigrateReport
<1>3. \A counted \in SUBSET Aliases : MigrateReport(counted) => envKey' = envKey
  BY DEF MigrateReport
<1>4. ASSUME \A counted \in SUBSET Aliases : ~MigrateReport(counted)
      PROVE  c \in promised /\ envKey' = envKey
  BY <1>1, <1>4, Zenon
     DEF Next, history, Boot, Stop, Register, Unregister, LoadSession, Exchange, Login, Disconnect,
         Resave, MigrateStart, MigrateFile, MigrateQueryFails, MigrateWrite,
         MigrateWriteFails, MigrateScan, MigrateScanCut, MigrateReseal, MigrateResealFails,
         MigrateDies
<1> QED
  BY <1>1, <1>2, <1>3, <1>4, Zenon

\* Every step keeps what was promised.
LEMMA PromisingStep ==
    ASSUME Inv, Next
    PROVE  Promising'
<1> SUFFICES ASSUME NEW c \in promised'
             PROVE  /\ blob'[c] # Nil /\ blob'[c].seal = envKey' /\ bot'[blob'[c].auth] # Nil
                    /\ conn'[c].at # "fresh" /\ (conn'[c].auth # Nil => bot'[conn'[c].auth] # Nil)
                    /\ run'.write = c => run'.key = envKey'
                    /\ run'.legacy[c] = Nil
  BY Zenon DEF Promising
<1>1. c \in Aliases
  BY RestStep
<1>2. ASSUME NEW counted \in SUBSET Aliases, MigrateReport(counted), c \in counted, row[c] # Nil,
             LoginsRequired(counted) = 0, ~run.dry, ~run.cut, alone, run.key = envKey
      PROVE  /\ blob'[c] # Nil /\ blob'[c].seal = envKey' /\ bot'[blob'[c].auth] # Nil
             /\ conn'[c].at # "fresh" /\ (conn'[c].auth # Nil => bot'[conn'[c].auth] # Nil)
             /\ run'.write = c => run'.key = envKey'
             /\ run'.legacy[c] = Nil
  <2>1. /\ blob[c] # Nil /\ blob[c].seal = envKey /\ bot[blob[c].auth] # Nil
        /\ conn[c] = NoConn
    BY <1>1, <1>2, ReportKeeps
  <2>2. run' = NoRun /\ UNCHANGED <<envKey, blob, bot, conn>>
    BY <1>2 DEF MigrateReport, disk, telegram
  <2>3. run'.write # c /\ run'.legacy[c] = Nil
    BY <1>1, <2>2, Idle, Values, Zenon
  <2>4. conn'[c].at # "fresh" /\ conn'[c].auth = Nil
    BY <2>1, <2>2 DEF NoConn
  <2> QED
    BY <2>1, <2>2, <2>3, <2>4
<1>3. CASE c \in promised /\ envKey' = envKey /\ ~MigrateQueryFails(c)
  <2>1. /\ blob[c] # Nil /\ blob[c].seal = envKey /\ bot[blob[c].auth] # Nil
        /\ conn[c].at # "fresh" /\ (conn[c].auth # Nil => bot[conn[c].auth] # Nil)
        /\ run.write = c => run.key = envKey
        /\ run.legacy[c] = Nil
    BY <1>3 DEF Inv, Promising
  <2>2. blob[c].auth \in AuthKey /\ <<c, 0>> \in AuthKey /\ bot[<<c, 0>>] # Nil
    BY <1>1, <2>1, Values, Zenon DEF Inv, CredentialsTypeOK, Blob, Connecting
  <2>3. bot'[blob[c].auth] # Nil /\ bot'[<<c, 0>>] # Nil
    BY <2>1, <2>2, Authorised, Zenon
  <2>4. conn'[c].at # "fresh" /\ (conn'[c].auth # Nil => bot'[conn'[c].auth] # Nil)
    <3>1. ~Exchange(c)
      BY <2>1, Zenon DEF Exchange
    <3>2. CASE conn'[c] = conn[c]
      <4>1. conn[c].auth \in AuthKey \cup {Nil}
        BY <1>1 DEF Inv, CredentialsTypeOK, Connection
      <4> QED
        BY <2>1, <3>2, <4>1, Authorised
    <3>3. CASE conn'[c] = NoConn
      BY <3>3 DEF NoConn
    <3>4. CASE conn'[c] = Status(blob[c].auth)
      BY <2>1, <2>3, <3>4 DEF Status
    <3>5. CASE conn'[c] = [at |-> "live", auth |-> conn[c].auth]
      <4>1. conn'[c].at = "live" => bot'[conn'[c].auth] # Nil
        BY <1>1, ConnectingStep, Zenon DEF Connecting
      <4> QED
        BY <3>5, <4>1
    <3> QED
      BY <1>1, <2>1, <3>1, <3>2, <3>3, <3>4, <3>5, ConnChange, Zenon
  <2>5. blob'[c] # Nil /\ blob'[c].seal = envKey /\ bot'[blob'[c].auth] # Nil
    <3>1. ~MigrateReseal(c)
      BY <2>1 DEF MigrateReseal
    <3>2. CASE blob'[c] = blob[c]
      BY <2>1, <2>3, <3>2, Zenon
    <3>3. CASE /\ blob'[c] # Nil /\ blob'[c].seal = envKey
               /\ conn'[c].auth # Nil /\ blob'[c].auth = conn'[c].auth
      BY <2>4, <3>3
    <3>4. CASE /\ run.write = c
               /\ blob'[c] # Nil /\ blob'[c].seal = run.key /\ blob'[c].auth = <<c, 0>>
      BY <2>1, <2>3, <3>4
    <3> QED
      BY <1>1, <3>1, <3>2, <3>3, <3>4, BlobChange, Zenon
  <2>6. run'.write = c => run'.key = envKey
    BY <1>1, <1>3, <2>1, WriteChange, Values DEF OpenBlob
  <2>7. run'.legacy[c] = Nil
    BY <1>1, <2>1, ListChange, Values, Zenon DEF IsSealed
  <2> QED
    BY <1>3, <2>4, <2>5, <2>6, <2>7
<1> QED
  BY <1>2, <1>3, PromisedChange

-----------------------------------------------------------------------------
(* The theorems *)

\* The invariant holds initially.
LEMMA InitInv == Init => Inv
<1> SUFFICES ASSUME Init PROVE Inv
  OBVIOUS
<1>1. PICK first \in Bots :
        /\ row \in [Aliases -> {Nil, [seal |-> envKey, bot |-> first]}]
        /\ bot = [k \in AuthKey |-> IF k[2] = 0 THEN first ELSE Nil]
  BY DEF Init
<1>2. bot \in [AuthKey -> Bots \cup {Nil}] /\ \A a \in Aliases : bot[<<a, 0>>] # Nil
  <2>1. \A a \in Aliases : <<a, 0>> \in AuthKey /\ <<a, 0>>[2] = 0
    BY CredentialsAssumption DEF AuthKey
  <2> QED
    BY CredentialsAssumption, <1>1, <2>1
<1>3. row \in [Aliases -> {Nil} \cup Token]
  <2>1. envKey \in Keys
    BY DEF Init
  <2> QED
    BY <1>1, <2>1 DEF Token
<1>4. conn = [a \in Aliases |-> NoConn] /\ run = NoRun
  BY DEF Init
<1>5. conn \in [Aliases -> Connection] /\ run \in Command
  BY <1>4, Records
<1>6. CredentialsTypeOK
  <2>1. made \in [Aliases -> 0..MaxMade]
    <3>1. made = [a \in Aliases |-> 0]
      BY Zenon DEF Init
    <3> QED
      BY CredentialsAssumption, <3>1
  <2>2. budget \in [runs : Nat, faults : Nat]
    <3>1. budget = [runs |-> 0, faults |-> 0]
      BY Zenon DEF Init
    <3> QED
      BY <3>1
  <2>3. up \in BOOLEAN /\ alone \in BOOLEAN /\ mixed \in BOOLEAN /\ swept \in BOOLEAN
    BY Zenon DEF Init
  <2> QED
    BY <1>2, <1>3, <1>5, <2>1, <2>2, <2>3, Zenon DEF Init, CredentialsTypeOK
<1>7. Phases
  BY <1>4 DEF Phases, NoRun
<1>8. Sealing
  <2>1. run.at = "idle"
    BY <1>4 DEF NoRun
  <2>2. swept = FALSE
    BY Zenon DEF Init
  <2> QED
    BY <2>1, <2>2 DEF Sealing
<1>9. Connecting
  BY <1>2, <1>4, Zenon DEF Connecting, NoConn
<1>10. Keeping
  <2>1. \A a \in Aliases : blob[a] \in {Nil, FromFile(a), FromClient(<<a, 0>>)}
    BY Zenon DEF Init
  <2> SUFFICES ASSUME NEW a \in Aliases
               PROVE  /\ conn[a].at = "off" /\ conn[a].auth = Nil /\ run.legacy[a] = Nil
                      /\ blob[a] # Nil => blob[a].auth = <<a, 0>>
    BY DEF Keeping
  <2>2. conn[a].at = "off" /\ conn[a].auth = Nil /\ run.legacy[a] = Nil
    BY <1>4 DEF NoConn, NoRun
  <2> QED
    BY <2>1, <2>2 DEF FromFile, FromClient
<1>11. Opening
  <2>1. \A a \in Aliases : conn[a] = NoConn /\ run.write # a /\ run.legacy[a] = Nil
    BY CredentialsAssumption, <1>4 DEF NoRun
  <2> QED
    BY <2>1, Zenon DEF Init, Opening
<1>12. Working /\ Promising
  BY Zenon DEF Init, Working, Promising
<1> QED
  BY <1>6, <1>7, <1>8, <1>9, <1>10, <1>11, <1>12 DEF Inv

\* A step that changes nothing keeps the invariant.
LEMMA Stutter == Inv /\ UNCHANGED vars => Inv'
<1> SUFFICES ASSUME Inv, UNCHANGED vars PROVE Inv'
  OBVIOUS
<1>1. UNCHANGED <<envKey, keyFile, row, file, blob, made, bot, up, conn, run, budget, alone, mixed,
                  crossed, promised, swept>>
  BY DEF vars, disk, telegram, history
<1>2. CredentialsTypeOK'
  BY <1>1 DEF Inv, CredentialsTypeOK
<1>3. Phases' /\ Sealing' /\ Connecting' /\ Keeping'
  BY <1>1, Zenon DEF Inv, Phases, Sealing, Connecting, Keeping
<1>4. Opening' /\ Working' /\ Promising'
  BY <1>1, Zenon DEF Inv, Opening, Working, Promising
<1> QED
  BY <1>2, <1>3, <1>4 DEF Inv

\* The inductive invariant of the module.
THEOREM CredentialsInvariant == Spec => []Inv
<1>1. Inv /\ [Next]_vars => Inv'
  BY TypeStep, PhasesStep, SealingStep, ConnectingStep, KeepingStep, OpeningStep, WorkingStep,
     PromisingStep, Stutter DEF Inv
<1> QED
  BY InitInv, <1>1, PTL DEF Spec

\* The variables keep their types.
THEOREM CredentialsTyped == Spec => []CredentialsTypeOK
<1>1. Inv => CredentialsTypeOK
  BY DEF Inv
<1> QED
  BY <1>1, CredentialsInvariant, PTL

\* After a run without an error nothing is at rest without its envelope.
THEOREM StaysSealed == Spec => []SealedAtRest
<1>1. Inv => SealedAtRest
  BY DEF Inv, Sealing, SealedAtRest
<1> QED
  BY <1>1, CredentialsInvariant, PTL

\* The report's "no login required" holds until the key changes.
THEOREM PromiseIsKept == Spec => []NoLoginNeeded
<1>1. Inv => NoLoginNeeded
  BY DEF Inv, Promising, NoLoginNeeded, OpenBlob
<1> QED
  BY <1>1, CredentialsInvariant, PTL

\* A sealed blob is replaced under its own key only.
THEOREM SealIsKept == Spec => WrongKeyNeverWrites
<1> DEFINE A == \A a \in Aliases :
          (blob[a] # Nil /\ IsSealed(blob[a]) /\ ~mixed') => blob'[a].seal = blob[a].seal
<1>1. ASSUME Inv, Next PROVE A
  <2> SUFFICES ASSUME NEW a \in Aliases, blob[a] # Nil, IsSealed(blob[a]), ~mixed'
               PROVE  blob'[a].seal = blob[a].seal
    OBVIOUS
  <2>1. ~mixed /\ Opening
    BY <1>1, Environment DEF Inv
  <2>2. Exchange(a) \/ Resave(a) => OpenBlob(envKey, blob[a])
    <3>0. NoConn.at = "off"
      BY DEF NoConn
    <3>1. conn[a].at \in {"fresh", "live"} => conn[a] # NoConn
      BY <3>0
    <3>2. Exchange(a) \/ Resave(a) => conn[a] # NoConn
      BY <3>1, Zenon DEF Exchange, Resave
    <3> QED
      BY <2>1, <3>2, Zenon DEF Opening
  <2>3. (MigrateWrite /\ run.write = a) \/ MigrateReseal(a) => OpenBlob(run.key, blob[a])
    BY <2>1 DEF Opening, MigrateReseal
  <2> QED
    BY <1>1, <2>2, <2>3, BlobChange, Zenon DEF OpenBlob, IsSealed
<1>2. Inv /\ [Next]_vars => [A]_vars
  BY <1>1
<1> QED
  BY <1>2, CredentialsInvariant, PTL DEF Spec, WrongKeyNeverWrites

\* The auth key of an alias is replaced by that of its file only.
THEOREM KeyIsKept == Spec => AuthKeyIsKept
<1> DEFINE A == \A a \in Aliases \ crossed :
          (blob[a] # Nil /\ blob'[a].auth # blob[a].auth) => run.write = a
<1>1. ASSUME Inv, Next PROVE A
  <2> SUFFICES ASSUME NEW a \in Aliases \ crossed, blob[a] # Nil, blob'[a].auth # blob[a].auth,
                      run.write # a
               PROVE  FALSE
    OBVIOUS
  <2>1. Keeping
    BY <1>1 DEF Inv
  <2>2. ~Exchange(a)
    BY <2>1, Zenon DEF Keeping, Exchange
  <2>3. Resave(a) => conn' = conn
    BY DEF Resave
  <2>4. MigrateReseal(a) => blob[a].auth = <<a, 0>>
    BY <2>1 DEF Keeping, MigrateReseal
  <2> QED
    BY <1>1, <2>1, <2>2, <2>3, <2>4, BlobChange, Zenon DEF Keeping
<1>2. Inv /\ [Next]_vars => [A]_vars
  BY <1>1
<1> QED
  BY <1>2, CredentialsInvariant, PTL DEF Spec, AuthKeyIsKept

=============================================================================
