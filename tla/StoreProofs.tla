------------------------------ MODULE StoreProofs ------------------------------
(***************************************************************************)
(* Proofs about what internal/store keeps: the data directory (Storage),   *)
(* for every limit of boots, backups, commits and faults, and the claims   *)
(* of idempotency keys (Idempotency), for any number of requests, any      *)
(* limits of age, and any number of failures and restarts.                 *)
(***************************************************************************)
EXTENDS Storage, Idempotency, FiniteSetTheorems, TLAPS

--------------------------------------------------------------------------------
(* The data directory: the inductive invariant *)

Opened == {"schema", "copy", "drop", "rename", "record", "up"}

StorageTypes ==
    /\ db \in File \cup {Nil} /\ backups \in Seq(File)
    /\ wal \in {"none", "own", "stale"} /\ boots \in Seq(BOOLEAN)
    /\ pc \in {"down", "check", "sidecars", "restore", "written", "open"} \cup Opened
    /\ maint \in {"idle", "backup", "vacuum", "rotate"}
    /\ safeMode \in BOOLEAN /\ replaced \in BOOLEAN /\ torn \in BOOLEAN

\* There is a file from Open on, and while a backup is written back; a
\* maintenance pass runs in a process that is up, and the newest backup is the
\* one it works on.
Working ==
    /\ pc \in Opened \cup {"written"} => db # Nil
    /\ maint # "idle" => Up
    /\ maint = "vacuum" => backups # <<>> /\ backups[1].state = "unreadable"
    /\ maint = "rotate" => backups # <<>> /\ backups[1].state = "ok"

\* The boots that connected are among the first MaxBoots of the history.
Counted == \A i \in DOMAIN boots : boots[i] => i <= MaxBoots

\* What the newest valid backup holds is back.
Restored == NewestValid # Nil => db # Nil /\ db.commits = NewestValid.commits

\* A quarantine that nothing has cut short, step by step.
Handled ==
    replaced /\ ~torn =>
      /\ pc \notin {"down", "check"}
      /\ pc \in {"restore", "written", "open"} => wal = "none"
      /\ pc \notin {"down", "check", "sidecars"} => "quarantined" \in reasons
      /\ pc \in {"written", "open", "schema"} => Restored

\* The old rows are in the table, in one layout or the other.
Kept(f) == f.old /\ ~f.cut => f.keys \in {"v1", "migrated"}

\* No file loses the old rows, and the migration has them where it left off.
Rows ==
    /\ \A i \in DOMAIN backups : Kept(backups[i])
    /\ db # Nil /\ pc # "rename" => Kept(db)
    /\ pc \in {"drop", "rename"} /\ db.old /\ ~db.cut => db.copy = "migrated"
    /\ pc \in {"record", "up"} /\ db.old /\ ~db.cut => db.keys = "migrated"

StorageInv == StorageTypes /\ Working /\ Counted /\ Handled /\ Rows

--------------------------------------------------------------------------------
(* Files *)

\* A file has its fields, and Nil is not one.
LEMMA FileFields ==
    ASSUME NEW f \in File
    PROVE  /\ f.state \in {"ok", "damaged", "unreadable"} /\ f.commits \in 0 .. MaxCommits
           /\ f.old \in BOOLEAN /\ f.cut \in BOOLEAN /\ f.keys \in Tables /\ f.copy \in Tables
           /\ f # Nil
<1>1. /\ f.state \in {"ok", "damaged", "unreadable"} /\ f.commits \in 0 .. MaxCommits
      /\ f.old \in BOOLEAN /\ f.cut \in BOOLEAN /\ f.keys \in Tables /\ f.copy \in Tables
  BY DEF File
<1>2. f # Nil
  BY NilAssumption, Zenon
<1> QED
  BY <1>1, <1>2, Zenon

\* A change of its state leaves what it holds.
LEMMA SetState ==
    ASSUME NEW f \in File, NEW s \in {"ok", "damaged", "unreadable"},
           NEW g, g = [f EXCEPT !.state = s]
    PROVE  /\ g \in File /\ g.state = s /\ g.commits = f.commits
           /\ g.old = f.old /\ g.cut = f.cut /\ g.keys = f.keys /\ g.copy = f.copy
BY DEF File

\* A change of the table leaves the rest.
LEMMA SetKeys ==
    ASSUME NEW f \in File, NEW k \in Tables, NEW g, g = [f EXCEPT !.keys = k]
    PROVE  /\ g \in File /\ g.state = f.state /\ g.commits = f.commits
           /\ g.old = f.old /\ g.cut = f.cut /\ g.keys = k /\ g.copy = f.copy
BY DEF File

\* A change of the copy leaves the rest.
LEMMA SetCopy ==
    ASSUME NEW f \in File, NEW k \in Tables, NEW g, g = [f EXCEPT !.copy = k]
    PROVE  /\ g \in File /\ g.state = f.state /\ g.commits = f.commits
           /\ g.old = f.old /\ g.cut = f.cut /\ g.keys = f.keys /\ g.copy = k
BY DEF File

\* A new file is empty, and one of an old install holds the old rows.
LEMMA NewFiles ==
    /\ Fresh \in File /\ ~Fresh.old
    /\ FromOldInstall \in File /\ FromOldInstall.keys = "v1"
    /\ \A f : f = [Fresh EXCEPT !.state = "unreadable"] =>
                f \in File /\ ~f.old /\ f.state = "unreadable"
<1>1. MaxCommits \in Nat
  BY StorageAssumption
<1>2. Fresh \in File /\ ~Fresh.old
  BY <1>1 DEF Fresh, File, Tables
<1>3. FromOldInstall \in File /\ FromOldInstall.keys = "v1"
  <2> DEFINE f == [Fresh EXCEPT !.old = TRUE]
  <2>1. f \in File
    BY <1>2, Zenon DEF File
  <2>2. FromOldInstall = [f EXCEPT !.keys = "v1"]
    BY DEF FromOldInstall
  <2> HIDE DEF f
  <2> QED
    BY <2>1, <2>2, SetKeys DEF Tables
<1>4. ASSUME NEW f, f = [Fresh EXCEPT !.state = "unreadable"]
      PROVE  f \in File /\ ~f.old /\ f.state = "unreadable"
  BY <1>2, <1>4, SetState
<1> QED
  BY <1>2, <1>3, <1>4, Zenon

\* A set of positions has a least one.
LEMMA LeastPosition ==
    ASSUME NEW S \in SUBSET Nat, S # {}
    PROVE  Min(S) \in S /\ \A y \in S : Min(S) <= y
<1>1. \E x \in S : \A y \in S : ~ (<<y, x>> \in OpToRel(<, Nat))
  BY NatLessThanWellFounded, WFMin, Zenon
<1>2. \E x \in S : \A y \in S : ~ (y < x)
  BY <1>1, Zenon DEF OpToRel
<1>3. \E x \in S : \A y \in S : x <= y
  BY <1>2
<1> QED
  BY <1>3, Zenon DEF Min

\* The newest valid backup is one of the backups, and it is valid.
LEMMA NewestIsBackup ==
    ASSUME StorageTypes, NewestValid # Nil
    PROVE  \E i \in DOMAIN backups : NewestValid = backups[i] /\ backups[i].state = "ok"
<1> DEFINE valid == {i \in DOMAIN backups : backups[i].state = "ok"}
<1>1. NewestValid = IF valid = {} THEN Nil ELSE backups[Min(valid)]
  BY Zenon DEF NewestValid
<1>2. valid # {} /\ NewestValid = backups[Min(valid)]
  BY <1>1, Zenon
<1>3. valid \in SUBSET Nat
  BY DEF StorageTypes
<1>4. Min(valid) \in valid
  BY <1>2, <1>3, LeastPosition
<1> QED
  BY <1>2, <1>4, Zenon

\* A restore starts to write a copy of some backup, or nothing.
LEMMA RestoredFile ==
    ASSUME StorageTypes, RestoreNewestBackup \/ RestoreOlder
    PROVE  /\ pc = "restore"
           /\ UNCHANGED <<wal, backups, boots, maint, reasons, safeMode, replaced>>
           /\ \/ pc' = "open" /\ db' = db
              \/ /\ pc' = "written"
                 /\ \E i \in DOMAIN backups : db' = [backups[i] EXCEPT !.state = "unreadable"]
<1>1. PICK file : /\ RestoreFrom(file)
                  /\ file = Nil \/ \E i \in DOMAIN backups : file = backups[i]
  <2>1. CASE RestoreNewestBackup
    BY <2>1, NewestIsBackup, Zenon DEF RestoreNewestBackup
  <2>2. CASE RestoreOlder
    BY <2>2, Zenon DEF RestoreOlder
  <2> QED
    BY <2>1, <2>2, Zenon
<1>2. CASE file = Nil
  BY <1>1, <1>2, Zenon DEF RestoreFrom
<1>3. ASSUME NEW i \in DOMAIN backups, file = backups[i]
      PROVE  file # Nil
  <2>1. file \in File
    BY <1>3 DEF StorageTypes
  <2> QED
    BY <2>1, NilAssumption, Zenon
<1> QED
  BY <1>1, <1>2, <1>3, Zenon DEF RestoreFrom

\* A copy that fails leaves a table behind it, and is recorded.
LEMMA CopyCut ==
    ASSUME db \in File, CopyFails
    PROVE  /\ db' \in File /\ db'.commits = db.commits /\ db'.old = db.old /\ db'.cut
           /\ db'.keys = db.keys
<1> DEFINE k == IF db.copy = "none" THEN "empty" ELSE db.copy
           f == [db EXCEPT !.copy = k]
<1>1. db' = [f EXCEPT !.cut = TRUE]
  BY DEF CopyFails
<1>2. k \in Tables
  BY FileFields DEF Tables
<1> HIDE DEF k
<1>3. f \in File /\ f.commits = db.commits /\ f.old = db.old /\ f.keys = db.keys
  BY <1>2, SetCopy
<1> HIDE DEF f
<1>4. /\ db' \in File /\ db'.commits = f.commits /\ db'.old = f.old /\ db'.cut = TRUE
      /\ db'.keys = f.keys
  BY <1>1, <1>3, Zenon DEF File
<1> QED
  BY <1>3, <1>4

\* The rename puts the copy in the place of the table.
LEMMA RenamedKeys ==
    ASSUME db \in File, RenameNew
    PROVE  /\ db' \in File /\ db'.commits = db.commits /\ db'.old = db.old /\ db'.cut = db.cut
           /\ db'.keys = db.copy
<1> DEFINE f == [db EXCEPT !.keys = db.copy]
<1>1. db' = [f EXCEPT !.copy = "none"]
  BY DEF RenameNew
<1>2. db.copy \in Tables /\ "none" \in Tables
  BY FileFields DEF Tables
<1>3. /\ f \in File /\ f.commits = db.commits /\ f.old = db.old /\ f.cut = db.cut
      /\ f.keys = db.copy
  BY <1>2, SetKeys
<1> HIDE DEF f
<1> QED
  BY <1>1, <1>2, <1>3, SetCopy

--------------------------------------------------------------------------------
(* Every step keeps the types *)

\* The boot gate keeps the types.
LEMMA GateTypes ==
    ASSUME StorageInv, Gate
    PROVE  StorageTypes'
<1>1. StorageTypes /\ Working
  BY Zenon DEF StorageInv
<1> USE DEF StorageTypes, disk, process, history
<1>2. CASE CheckPasses
  BY <1>1, <1>2 DEF CheckPasses
<1>3. CASE Quarantine
  BY <1>1, <1>3, Zenon DEF Quarantine
<1>4. CASE QuarantineFails
  BY <1>1, <1>4 DEF QuarantineFails
<1>5. CASE MoveSidecars
  BY <1>1, <1>5 DEF MoveSidecars
<1>6. CASE SidecarsStay
  BY <1>1, <1>6 DEF SidecarsStay
<1>7. CASE RestoreNewestBackup \/ RestoreOlder
  <2>1. /\ pc' \in {"open", "written"}
        /\ db' = db \/ \E i \in DOMAIN backups : db' = [backups[i] EXCEPT !.state = "unreadable"]
        /\ UNCHANGED <<wal, backups, boots, maint, reasons, safeMode, replaced>>
    BY <1>1, <1>7, RestoredFile, Zenon
  <2>2. db' \in File \cup {Nil}
    BY <1>1, <2>1, SetState
  <2>3. torn' \in BOOLEAN
    BY <1>1, <1>7 DEF RestoreNewestBackup, RestoreOlder
  <2> QED
    BY <1>1, <2>1, <2>2, <2>3
<1>8. CASE RestoreWritten
  <2>1. /\ pc = "written" /\ pc' = "open" /\ db' = [db EXCEPT !.state = "ok"]
        /\ UNCHANGED <<wal, backups, boots, maint, reasons, safeMode, faults, history>>
    BY <1>8 DEF RestoreWritten
  <2>2. db \in File
    BY <1>1, <2>1 DEF Working
  <2>3. db' \in File
    BY <2>1, <2>2, SetState
  <2> QED
    BY <1>1, <2>1, <2>3
<1>9. CASE RestoreFails
  BY <1>1, <1>9 DEF RestoreFails
<1>10. CASE Open
  <2> DEFINE file == IF db = Nil THEN Fresh ELSE db
  <2>1. /\ pc' = "schema" /\ wal' = "own"
        /\ db' = file \/ db' = [file EXCEPT !.state = "damaged"]
        /\ UNCHANGED <<backups, boots, maint, reasons, safeMode, faults, history>>
    BY <1>10 DEF Open
  <2>2. file \in File
    BY <1>1, NewFiles
  <2> HIDE DEF file
  <2>3. db' \in File
    BY <2>1, <2>2, SetState
  <2> QED
    BY <1>1, <2>1, <2>3 DEF Opened
<1>11. CASE OpenFails
  BY <1>1, <1>11, Zenon DEF OpenFails, Exit
<1> QED
  BY <1>2, <1>3, <1>4, <1>5, <1>6, <1>7, <1>8, <1>9, <1>10, <1>11 DEF Gate

\* The migration changes the tables of the file only.
LEMMA MigratedFile ==
    ASSUME StorageInv, Migrate
    PROVE  db \in File /\ db' \in File /\ db'.old = db.old /\ (db.cut => db'.cut)
<1>1. db \in File
  BY DEF StorageInv, StorageTypes, Working, Opened, Migrate, Schema, CopyKeys, CopyFails, DropOld,
         RenameNew
<1>2. db.keys \in Tables /\ db.copy \in Tables
  BY <1>1, FileFields
<1>3. CASE Schema
  <2> DEFINE keys == IF db.keys = "none" THEN "empty" ELSE db.keys
  <2>1. keys \in Tables /\ db' = [db EXCEPT !.keys = keys]
    BY <1>2, <1>3 DEF Schema, Tables
  <2> QED
    BY <1>1, <2>1, SetKeys
<1>4. CASE CopyKeys
  BY <1>1, <1>4, SetCopy DEF CopyKeys, Tables
<1>5. CASE CopyFails
  BY <1>1, <1>5, CopyCut
<1>6. CASE DropOld
  BY <1>1, <1>6, SetKeys DEF DropOld, Tables
<1>7. CASE RenameNew
  BY <1>1, <1>7, RenamedKeys
<1> QED
  BY <1>3, <1>4, <1>5, <1>6, <1>7 DEF Migrate

\* The migration keeps the types.
LEMMA MigrateTypes ==
    ASSUME StorageInv, Migrate
    PROVE  StorageTypes'
<1>1. /\ StorageTypes
      /\ UNCHANGED <<wal, backups, boots, maint, reasons, safeMode, history>>
      /\ pc' \in {"copy", "drop", "rename", "record"}
  BY DEF StorageInv, Migrate, Schema, CopyKeys, CopyFails, DropOld, RenameNew
<1> QED
  BY <1>1, MigratedFile DEF StorageTypes, Opened, history

\* Damage changes the state of the file only.
LEMMA DamagedFile ==
    ASSUME StorageTypes, Damage
    PROVE  /\ db \in File /\ db' \in File /\ db'.commits = db.commits
           /\ db'.old = db.old /\ db'.cut = db.cut /\ db'.keys = db.keys /\ db'.copy = db.copy
<1>1. PICK state \in {"damaged", "unreadable"} : db # Nil /\ db' = [db EXCEPT !.state = state]
  BY DEF Damage
<1>2. db \in File
  BY <1>1 DEF StorageTypes
<1> QED
  BY <1>1, <1>2, SetState

\* A commit changes the number of commits only.
LEMMA Committed ==
    ASSUME StorageTypes, Working, Up, db.commits < MaxCommits,
           NEW g, g = [db EXCEPT !.commits = @ + 1]
    PROVE  /\ db \in File /\ g \in File /\ g.state = db.state /\ g.old = db.old
           /\ g.cut = db.cut /\ g.keys = db.keys /\ g.copy = db.copy
<1>1. db \in File
  BY DEF StorageTypes, Working, Up, Opened
<1>2. db.commits + 1 \in 0 .. MaxCommits
  BY <1>1, FileFields, StorageAssumption
<1>3. g = [db EXCEPT !.commits = db.commits + 1]
  OBVIOUS
<1> QED
  BY <1>1, <1>2, <1>3 DEF File

\* A crash leaves the file, with a migration it cut short marked.
LEMMA CrashedFile ==
    ASSUME StorageTypes, Working, Crash
    PROVE  /\ db' \in File \cup {Nil}
           /\ db' # Nil => /\ db # Nil /\ db'.commits = db.commits /\ db'.old = db.old
                           /\ db'.cut = (db.cut \/ pc = "rename")
                           /\ db'.keys = db.keys /\ db'.copy = db.copy
<1>1. CASE pc = "rename"
  <2>1. db \in File /\ db' = [db EXCEPT !.cut = TRUE]
    BY <1>1 DEF StorageTypes, Working, Opened, Crash
  <2>2. /\ db' \in File /\ db'.commits = db.commits /\ db'.old = db.old /\ db'.cut = TRUE
        /\ db'.keys = db.keys /\ db'.copy = db.copy
    BY <2>1, Zenon DEF File
  <2> QED
    BY <1>1, <2>1, <2>2, FileFields, Zenon
<1>2. CASE pc # "rename"
  <2>1. db' = db
    BY <1>2 DEF Crash
  <2>2. db # Nil => db.cut \in BOOLEAN
    BY FileFields DEF StorageTypes
  <2> QED
    BY <1>2, <2>1, <2>2 DEF StorageTypes
<1> QED
  BY <1>1, <1>2

\* A maintenance pass keeps the types.
LEMMA MaintainTypes ==
    ASSUME StorageInv, Maintain
    PROVE  StorageTypes'
<1>1. StorageTypes /\ Working
  BY Zenon DEF StorageInv
<1>2. /\ maint # "idle" \/ Up
      /\ db' = db
  BY DEF Maintain, MaintenancePass, BackupStarts, BackupDone, BackupFails, Rotate, RotatePanics,
         disk
<1>3. db \in File /\ backups \in Seq(File)
  BY <1>1, <1>2 DEF Working, StorageTypes, Up, Opened
<1> USE DEF StorageTypes, disk, process, history
<1>4. CASE MaintenancePass
  <2>1. maint' \in {"backup", "idle"}
    BY <1>4 DEF MaintenancePass
  <2>2. /\ wal' = "none" \/ wal' = wal
        /\ UNCHANGED <<db, backups, boots, pc, safeMode, faults, history>>
    BY <1>4 DEF MaintenancePass
  <2> QED
    BY <1>1, <2>1, <2>2
<1>5. CASE BackupStarts
  <2> DEFINE new == [Fresh EXCEPT !.state = "unreadable"]
  <2>1. new \in File
    BY NewFiles
  <2> HIDE DEF new
  <2>2. <<new>> \o backups \in Seq(File)
    BY <1>3, <2>1
  <2>3. /\ backups' = <<new>> \o backups /\ maint' = "vacuum"
        /\ UNCHANGED <<db, wal, boots, pc, reasons, safeMode, faults, history>>
    BY <1>5 DEF BackupStarts, new
  <2> QED
    BY <1>1, <2>2, <2>3
<1>6. CASE BackupDone
  <2>1. /\ backups' = <<db>> \o Tail(backups) /\ maint = "vacuum" /\ maint' = "rotate"
        /\ UNCHANGED <<db, wal, boots, pc, reasons, safeMode, faults, history>>
    BY <1>6 DEF BackupDone
  <2>2. backups # <<>>
    BY <1>1, <2>1 DEF Working
  <2>3. Tail(backups) \in Seq(File)
    BY <1>3, <2>2
  <2>4. <<db>> \o Tail(backups) \in Seq(File)
    BY <1>3, <2>3
  <2> QED
    BY <1>1, <2>1, <2>4
<1>7. CASE BackupFails
  <2>1. /\ backups' = Tail(backups) /\ maint = "vacuum" /\ maint' = "idle"
        /\ UNCHANGED <<db, wal, boots, pc, reasons, safeMode, history>>
    BY <1>7 DEF BackupFails
  <2>2. backups # <<>>
    BY <1>1, <2>1 DEF Working
  <2>3. Tail(backups) \in Seq(File)
    BY <1>3, <2>2
  <2> QED
    BY <1>1, <2>1, <2>3
<1>8. CASE Rotate
  <2>1. /\ backups' = SubSeq(backups, 1, Keep) /\ maint' = "idle" /\ Len(backups) >= Keep
        /\ UNCHANGED <<db, wal, boots, pc, reasons, safeMode, faults, history>>
    BY <1>8 DEF Rotate
  <2>2. SubSeq(backups, 1, Keep) \in Seq(File)
    BY <1>3, <2>1, StorageAssumption
  <2> QED
    BY <1>1, <2>1, <2>2
<1>9. CASE RotatePanics
  BY <1>1, <1>9, Zenon DEF RotatePanics, Exit
<1> QED
  BY <1>4, <1>5, <1>6, <1>7, <1>8, <1>9 DEF Maintain

\* The history with one more boot.
LEMMA BootAdded ==
    ASSUME boots \in Seq(BOOLEAN), NEW b \in BOOLEAN
    PROVE  /\ WithBoot(b) \in Seq(BOOLEAN)
           /\ Len(WithBoot(b)) > MaxBoots <=> Len(boots) + 1 > MaxBoots
           /\ Counted /\ (b => Len(boots) + 1 <= MaxBoots) =>
                \A i \in DOMAIN WithBoot(b) : WithBoot(b)[i] => i <= MaxBoots
<1> DEFINE n == Len(boots)
           s == Append(boots, b)
<1>1. History \in Nat /\ MaxBoots \in Nat /\ History > MaxBoots
  BY StorageAssumption
<1>2. /\ s \in Seq(BOOLEAN) /\ n \in Nat /\ Len(s) = n + 1 /\ s # <<>>
      /\ DOMAIN boots = 1 .. n /\ DOMAIN s = 1 .. n + 1
      /\ s[n + 1] = b /\ \A i \in 1 .. n : s[i] = boots[i]
  OBVIOUS
<1>3. WithBoot(b) = IF n + 1 > History THEN Tail(s) ELSE s
  BY <1>2 DEF WithBoot
<1> HIDE DEF s, n
<1>4. /\ Tail(s) \in Seq(BOOLEAN) /\ Len(Tail(s)) = n /\ DOMAIN Tail(s) = 1 .. n
      /\ \A i \in 1 .. n : Tail(s)[i] = s[i + 1]
  BY <1>2
<1>5. WithBoot(b) \in Seq(BOOLEAN)
  BY <1>2, <1>3, <1>4, Zenon
<1>6. Len(WithBoot(b)) > MaxBoots <=> n + 1 > MaxBoots
  BY <1>1, <1>2, <1>3, <1>4
<1>7. ASSUME Counted, b => n + 1 <= MaxBoots PROVE \A i \in 1 .. n + 1 : s[i] => i <= MaxBoots
  <2>1. ASSUME NEW i \in 1 .. n + 1, s[i] PROVE i <= MaxBoots
    <3>1. CASE i = n + 1
      BY <1>2, <1>7, <2>1, <3>1, Zenon
    <3>2. CASE i # n + 1
      <4>1. i \in 1 .. n
        BY <1>2, <3>2
      <4> QED
        BY <1>2, <1>7, <2>1, <4>1, Zenon DEF Counted
    <3> QED
      BY <3>1, <3>2
  <2> QED
    BY <2>1
<1>8. ASSUME Counted, b => n + 1 <= MaxBoots PROVE \A i \in 1 .. n : Tail(s)[i] => i <= MaxBoots
  <2>1. ASSUME NEW i \in 1 .. n, Tail(s)[i] PROVE i <= MaxBoots
    <3>1. i + 1 \in 1 .. n + 1 /\ s[i + 1]
      BY <1>2, <1>4, <2>1
    <3>2. i + 1 <= MaxBoots
      BY <1>7, <1>8, <3>1, Zenon
    <3> QED
      BY <1>1, <2>1, <3>2
  <2> QED
    BY <2>1
<1> QED
  BY <1>2, <1>3, <1>4, <1>5, <1>6, <1>7, <1>8, Zenon DEF n

\* What one step makes of the boot history.
LEMMA BootsStep ==
    ASSUME StorageTypes, Counted, RecordBoot \/ RecordBootFails \/ SafeModeAck \/ BootExpires \/ Crash
    PROVE  boots' \in Seq(BOOLEAN) /\ Counted'
<1> DEFINE n == Len(boots)
<1>1. boots \in Seq(BOOLEAN) /\ n \in Nat /\ DOMAIN boots = 1 .. n /\ MaxBoots \in Nat
  BY StorageAssumption DEF StorageTypes
<1>2. CASE boots' = boots
  BY <1>1, <1>2, Zenon DEF Counted
<1>3. CASE boots' = <<>>
  <2>1. boots' \in Seq(BOOLEAN) /\ DOMAIN boots' = {}
    BY <1>3
  <2> QED
    BY <2>1, Zenon DEF Counted
<1>4. ASSUME NEW b \in BOOLEAN, boots' = WithBoot(b), b => n + 1 <= MaxBoots
      PROVE  boots' \in Seq(BOOLEAN) /\ Counted'
  BY <1>1, <1>4, BootAdded, Zenon DEF Counted
<1>5. CASE RecordBoot
  <2>1. n + 1 > MaxBoots => safeMode'
    <3>1. Len(WithBoot(TRUE)) > MaxBoots <=> n + 1 > MaxBoots
      BY <1>1, BootAdded
    <3> QED
      BY <1>5, <3>1, Zenon DEF RecordBoot
  <2>2. PICK b \in BOOLEAN : boots' = WithBoot(b) /\ b = ~safeMode'
    BY <1>5, Zenon DEF RecordBoot
  <2>3. b => ~(n + 1 > MaxBoots)
    BY <2>1, <2>2, Zenon
  <2>4. b => n + 1 <= MaxBoots
    BY <1>1, <2>3
  <2> QED
    BY <1>4, <2>2, <2>4, Zenon
<1>6. CASE RecordBootFails
  BY <1>2, <1>3, <1>6, Zenon DEF RecordBootFails
<1>7. CASE SafeModeAck
  <2>1. CASE boots' = [i \in DOMAIN boots |-> FALSE]
    <3>1. boots' \in Seq(BOOLEAN) /\ DOMAIN boots' = 1 .. n /\ \A i \in 1 .. n : ~boots'[i]
      BY <1>1, <2>1
    <3> QED
      BY <3>1, Zenon DEF Counted
  <2> QED
    BY <1>3, <1>7, <2>1, Zenon DEF SafeModeAck
<1>8. CASE BootExpires
  <2>1. boots # <<>> /\ boots' = Tail(boots)
    BY <1>8, Zenon DEF BootExpires
  <2>2. /\ n > 0 /\ boots' \in Seq(BOOLEAN) /\ DOMAIN boots' = 1 .. n - 1
        /\ \A i \in 1 .. n - 1 : boots'[i] = boots[i + 1]
    BY <1>1, <2>1
  <2> HIDE DEF n
  <2>3. ASSUME NEW i \in DOMAIN boots', boots'[i] PROVE i <= MaxBoots
    <3>1. i \in Nat /\ i \in 1 .. n - 1 /\ i + 1 \in 1 .. n
      BY <1>1, <2>2
    <3>2. boots[i + 1]
      BY <2>2, <2>3, <3>1, Zenon
    <3>3. i + 1 <= MaxBoots
      BY <1>1, <3>1, <3>2, Zenon DEF Counted
    <3> QED
      BY <1>1, <3>1, <3>3
  <2> QED
    BY <2>2, <2>3, Zenon DEF Counted
<1>9. CASE Crash
  <2>1. boots' = boots \/ boots' = <<>> \/ boots' = WithBoot(FALSE)
    BY <1>9, Zenon DEF Crash
  <2> QED
    BY <1>2, <1>3, <1>4, <2>1, Zenon
<1> QED
  BY <1>5, <1>6, <1>7, <1>8, <1>9, Zenon

\* Every step keeps the types.
LEMMA StorageTypesStep ==
    ASSUME StorageInv, [Next]_vars
    PROVE  StorageTypes'
<1>1. StorageTypes /\ Working /\ Counted
  BY Zenon DEF StorageInv
<1>2. CASE Gate
  BY <1>2, GateTypes
<1>3. CASE Migrate
  BY <1>3, MigrateTypes
<1>4. CASE Maintain
  BY <1>4, MaintainTypes
<1> USE DEF StorageTypes, disk, process, history
<1>5. CASE Start
  BY <1>1, <1>5 DEF Start
<1>6. CASE RecordBoot \/ RecordBootFails
  <2>1. pc' = "up" /\ UNCHANGED <<db, wal, backups, maint, replaced, torn>>
    BY <1>6, Zenon DEF RecordBoot, RecordBootFails
  <2>2. boots' \in Seq(BOOLEAN)
    BY <1>1, <1>6, BootsStep, Zenon
  <2>3. safeMode' \in BOOLEAN
    <3>1. safeMode' = (Len(WithBoot(TRUE)) > MaxBoots)
      BY <1>6, Zenon DEF RecordBoot, RecordBootFails
    <3> QED
      BY <3>1, SMT
  <2> QED
    BY <1>1, <2>1, <2>2, <2>3, Zenon DEF Opened
<1>7. CASE SafeModeAck
  <2>1. safeMode' = FALSE /\ UNCHANGED <<db, wal, backups, pc, maint, reasons, replaced, torn>>
    BY <1>7, Zenon DEF SafeModeAck
  <2>2. boots' \in Seq(BOOLEAN)
    BY <1>1, <1>7, BootsStep, Zenon
  <2> QED
    BY <1>1, <2>1, <2>2, Zenon
<1>8. CASE BootExpires
  <2>1. UNCHANGED <<db, wal, backups, process, faults, replaced, torn>>
    BY <1>8, Zenon DEF BootExpires
  <2>2. boots' \in Seq(BOOLEAN)
    BY <1>1, <1>8, BootsStep, Zenon
  <2> QED
    BY <1>1, <2>1, <2>2, Zenon
<1>9. CASE Commit
  <2>1. /\ Up /\ db.commits < MaxCommits /\ db' = [db EXCEPT !.commits = @ + 1] /\ wal' = "own"
        /\ UNCHANGED <<backups, boots, process, faults, history>>
    BY <1>9 DEF Commit
  <2>2. db' \in File
    BY <1>1, <2>1, Committed
  <2> QED
    BY <1>1, <2>1, <2>2
<1>10. CASE NotePersistFailure
  BY <1>1, <1>10 DEF NotePersistFailure
<1>11. CASE Crash
  <2>1. db' \in File \cup {Nil}
    BY <1>1, <1>11, CrashedFile
  <2>2. boots' \in Seq(BOOLEAN)
    BY <1>1, <1>11, BootsStep, Zenon
  <2> QED
    BY <1>1, <1>11, <2>1, <2>2, Zenon DEF Crash, Exit
<1>12. CASE Close
  <2>1. wal' \in {"none", wal} /\ UNCHANGED <<db, backups, boots, faults>> /\ Exit
    BY <1>12 DEF Close
  <2> QED
    BY <1>1, <2>1, Zenon DEF Exit
<1>13. CASE Damage
  <2>1. db' \in File
    BY <1>1, <1>13, DamagedFile
  <2>2. UNCHANGED <<wal, backups, boots, process, history>>
    BY <1>13 DEF Damage
  <2> QED
    BY <1>1, <2>1, <2>2
<1>14. CASE UNCHANGED vars
  BY <1>1, <1>14, Zenon DEF vars
<1> QED
  BY <1>2, <1>3, <1>4, <1>5, <1>6, <1>7, <1>8, <1>9, <1>10, <1>11, <1>12, <1>13, <1>14, Zenon
     DEF Next, Boot

--------------------------------------------------------------------------------
(* Every step keeps the rest of the invariant *)

\* What the steps of a boot that has opened its file, and those of a process
\* that is up, leave alone.
LEMMA MaintainShape ==
    ASSUME StorageInv, Maintain
    PROVE  /\ Up /\ UNCHANGED <<db, boots>>
           /\ \/ Exit /\ backups' = backups
              \/ /\ pc' = pc /\ replaced' = replaced /\ torn' = torn
                 /\ reasons \subseteq reasons'
<1>1. Working
  BY Zenon DEF StorageInv
<1>2. CASE MaintenancePass
  <2>1. reasons \subseteq reasons'
    BY <1>2 DEF MaintenancePass
  <2> QED
    BY <1>2, <2>1, Zenon DEF MaintenancePass, history
<1>3. CASE BackupStarts \/ BackupDone \/ BackupFails \/ Rotate
  BY <1>1, <1>3 DEF BackupStarts, BackupDone, BackupFails, Rotate, Working, history
<1>4. CASE RotatePanics
  BY <1>1, <1>4 DEF RotatePanics, Working, disk, Exit
<1> QED
  BY <1>2, <1>3, <1>4 DEF Maintain

\* The file is there when it is needed, and the newest backup is the one the
\* maintenance pass works on.
LEMMA WorkingStep ==
    ASSUME StorageInv, [Next]_vars
    PROVE  Working'
<1>1. StorageTypes /\ Working /\ StorageTypes'
  BY StorageTypesStep, Zenon DEF StorageInv
<1>2. CASE Gate
  <2>1. maint = "idle"
    BY <1>1, <1>2 DEF Gate, CheckPasses, Quarantine, QuarantineFails, MoveSidecars, SidecarsStay,
       RestoreNewestBackup, RestoreOlder, RestoreFrom, RestoreWritten, RestoreFails, Open, OpenFails,
       Working, Up, StorageTypes
  <2>2. maint' = "idle"
    BY <1>2, <2>1 DEF Gate, CheckPasses, Quarantine, QuarantineFails, MoveSidecars, SidecarsStay,
       RestoreNewestBackup, RestoreOlder, RestoreFrom, RestoreWritten, RestoreFails, Open, OpenFails, Exit
  <2>3. CASE RestoreNewestBackup \/ RestoreOlder
    <3>1. \/ pc' = "open"
          \/ /\ pc' = "written"
             /\ \E i \in DOMAIN backups : db' = [backups[i] EXCEPT !.state = "unreadable"]
      BY <1>1, <2>3, RestoredFile, Zenon
    <3>2. pc' = "written" => db' \in File
      BY <1>1, <3>1, SetState DEF StorageTypes
    <3>3. pc' = "written" => db' # Nil
      BY <3>2, NilAssumption, Zenon
    <3> QED
      BY <2>2, <3>1, <3>3 DEF Working, Opened
  <2>4. CASE Open
    <3>1. db' \in File
      <4> DEFINE file == IF db = Nil THEN Fresh ELSE db
      <4>1. db' = file \/ db' = [file EXCEPT !.state = "damaged"]
        BY <2>4 DEF Open
      <4>2. file \in File
        BY <1>1, NewFiles DEF StorageTypes
      <4> HIDE DEF file
      <4> QED
        BY <4>1, <4>2, SetState
    <3>2. db' # Nil
      BY <3>1, NilAssumption, Zenon
    <3> QED
      BY <2>2, <3>2, Zenon DEF Working
  <2>5. CASE ~RestoreNewestBackup /\ ~RestoreOlder /\ ~Open
    <3>1. pc' \in {"down", "check", "sidecars", "restore", "open"}
      BY <1>2, <2>5 DEF Gate, CheckPasses, Quarantine, QuarantineFails, MoveSidecars, SidecarsStay,
         RestoreWritten, RestoreFails, OpenFails, Exit
    <3> QED
      BY <2>2, <3>1 DEF Working, Opened
  <2> QED
    BY <2>3, <2>4, <2>5
<1>3. CASE Migrate
  <2>1. pc # "up" /\ maint' = maint /\ pc \in Opened
    BY <1>3 DEF Migrate, Schema, CopyKeys, CopyFails, DropOld, RenameNew, Opened
  <2>2. maint' = "idle"
    BY <1>1, <2>1 DEF Working, Up, StorageTypes
  <2>3. db' \in File
    BY <1>3, MigratedFile
  <2>4. db' # Nil
    BY <2>3, NilAssumption, Zenon
  <2> QED
    BY <2>2, <2>4, Zenon DEF Working
<1>4. CASE Maintain
  <2>1. Up /\ db' = db /\ db # Nil /\ (Exit \/ pc' = pc)
    BY <1>1, <1>4, MaintainShape DEF Working, Up, Opened
  <2>2. pc' \in Opened \cup {"written"} => db' # Nil
    BY <2>1, Zenon
  <2>3. maint' # "idle" => Up'
    BY <2>1, Zenon DEF Exit, Up
  <2>4. /\ maint' = "vacuum" => backups' # <<>> /\ backups'[1].state = "unreadable"
        /\ maint' = "rotate" => backups' # <<>> /\ backups'[1].state = "ok"
    <3>1. CASE BackupStarts
      <4> DEFINE new == [Fresh EXCEPT !.state = "unreadable"]
      <4>1. new.state = "unreadable"
        BY NewFiles
      <4> HIDE DEF new
      <4>2. maint' = "vacuum" /\ backups' = <<new>> \o backups
        BY <3>1 DEF BackupStarts, new
      <4>3. backups' # <<>> /\ backups'[1] = new
        BY <1>1, <4>2 DEF StorageTypes
      <4> QED
        BY <4>1, <4>2, <4>3
    <3>2. CASE BackupDone
      <4>1. /\ maint = "vacuum" /\ maint' = "rotate" /\ db.state = "ok"
            /\ backups' = <<db>> \o Tail(backups)
        BY <3>2 DEF BackupDone
      <4>2. backups # <<>> /\ backups \in Seq(File)
        BY <1>1, <4>1 DEF StorageTypes, Working
      <4>3. backups' # <<>> /\ backups'[1] = db
        BY <4>1, <4>2
      <4> QED
        BY <4>1, <4>3
    <3>3. CASE MaintenancePass
      <4>1. maint' \in {"backup", "idle"}
        BY <3>3 DEF MaintenancePass
      <4> QED
        BY <4>1
    <3>4. CASE BackupFails \/ Rotate \/ RotatePanics
      BY <3>4 DEF BackupFails, Rotate, RotatePanics, Exit
    <3> QED
      BY <1>4, <3>1, <3>2, <3>3, <3>4 DEF Maintain
  <2> QED
    BY <2>2, <2>3, <2>4, Zenon DEF Working
<1>5. CASE Start
  <2>1. pc' = "check" /\ maint = "idle" /\ maint' = "idle"
    BY <1>1, <1>5 DEF Start, Working, Up, StorageTypes
  <2> QED
    BY <2>1 DEF Working, Opened
<1>6. CASE RecordBoot \/ RecordBootFails
  <2>1. pc = "record" /\ pc' = "up" /\ maint' = maint /\ backups' = backups /\ db' = db
    BY <1>6 DEF RecordBoot, RecordBootFails
  <2>2. db # Nil /\ maint = "idle"
    BY <1>1, <2>1 DEF Working, Opened, Up
  <2> QED
    BY <2>1, <2>2 DEF Working
<1>7. CASE Commit
  <2>1. Up /\ UNCHANGED <<backups, pc, maint>> /\ db' \in File
    BY <1>1, <1>7, Committed DEF Commit, process
  <2>2. db' # Nil
    BY <2>1, NilAssumption, Zenon
  <2> QED
    BY <1>1, <2>1, <2>2, Zenon DEF Working, Up
<1>8. CASE Crash \/ Close
  <2>1. pc' = "down" /\ maint' = "idle"
    BY <1>8 DEF Crash, Close, Exit
  <2> QED
    BY <2>1 DEF Working, Opened
<1>9. CASE Damage
  <2>1. db # Nil /\ UNCHANGED <<backups, pc, maint>> /\ db' \in File
    BY <1>1, <1>9, DamagedFile DEF Damage, process
  <2>2. db' # Nil
    BY <2>1, NilAssumption, Zenon
  <2> QED
    BY <1>1, <2>1, <2>2, Zenon DEF Working, Up
<1>10. CASE SafeModeAck \/ BootExpires \/ NotePersistFailure \/ UNCHANGED vars
  <2>1. UNCHANGED <<db, backups, pc, maint>>
    BY <1>10 DEF SafeModeAck, BootExpires, NotePersistFailure, vars, disk, process
  <2> QED
    BY <1>1, <2>1, Zenon DEF Working, Up
<1> QED
  BY <1>2, <1>3, <1>4, <1>5, <1>6, <1>7, <1>8, <1>9, <1>10, Zenon DEF Next, Boot

\* The boots that connected.
LEMMA CountedStep ==
    ASSUME StorageInv, [Next]_vars
    PROVE  Counted'
<1>1. StorageTypes /\ Counted
  BY Zenon DEF StorageInv
<1>2. CASE boots' = boots
  BY <1>1, <1>2, Zenon DEF Counted
<1>3. \/ RecordBoot \/ RecordBootFails \/ SafeModeAck \/ BootExpires \/ Crash
      \/ boots' = boots
  <2>1. CASE Gate
    BY <2>1 DEF Gate, CheckPasses, Quarantine, QuarantineFails, MoveSidecars, SidecarsStay,
       RestoreNewestBackup, RestoreOlder, RestoreFrom, RestoreWritten, RestoreFails, Open, OpenFails, disk
  <2>2. CASE Migrate
    BY <2>2 DEF Migrate, Schema, CopyKeys, CopyFails, DropOld, RenameNew
  <2>3. CASE Maintain
    BY <2>3, MaintainShape
  <2>4. CASE Start \/ Commit \/ NotePersistFailure \/ Close \/ Damage \/ UNCHANGED vars
    BY <2>4 DEF Start, Commit, NotePersistFailure, Close, Damage, vars, disk
  <2> QED
    BY <2>1, <2>2, <2>3, <2>4, Zenon DEF Next, Boot
<1> QED
  BY <1>1, <1>2, <1>3, BootsStep, Zenon

\* A quarantine that nothing cuts short stays on its way.
LEMMA HandledStep ==
    ASSUME StorageInv, [Next]_vars
    PROVE  Handled'
<1>1. StorageTypes /\ Working /\ Handled
  BY Zenon DEF StorageInv
<1> SUFFICES ASSUME replaced', ~torn'
             PROVE  /\ pc' \notin {"down", "check"}
                    /\ pc' \in {"restore", "written", "open"} => wal' = "none"
                    /\ pc' \notin {"down", "check", "sidecars"} => "quarantined" \in reasons'
                    /\ pc' \in {"written", "open", "schema"} => Restored'
  BY Zenon DEF Handled
<1>2. ~Exit
  BY Zenon DEF Exit
<1>3. backups' = backups => NewestValid' = NewestValid
  BY Zenon DEF NewestValid
<1>4. CASE Quarantine
  BY <1>4 DEF Quarantine
<1>5. CASE SidecarsStay \/ RestoreOlder
  BY <1>5 DEF SidecarsStay, RestoreOlder
<1>6. ASSUME ~Quarantine, ~SidecarsStay PROVE replaced /\ ~torn
  <2>1. UNCHANGED <<replaced, torn>>
    <3>1. CASE Gate
      BY <1>2, <1>6, <3>1, Zenon DEF Gate, CheckPasses, QuarantineFails, MoveSidecars,
         RestoreNewestBackup, RestoreOlder, RestoreFrom, RestoreWritten, RestoreFails, Open, OpenFails, history
    <3>2. CASE Migrate
      BY <3>2, Zenon DEF Migrate, Schema, CopyKeys, CopyFails, DropOld, RenameNew, history
    <3>3. CASE Maintain
      BY <1>2, <3>3, MaintainShape, Zenon
    <3>4. CASE Start \/ RecordBoot \/ RecordBootFails \/ SafeModeAck \/ BootExpires \/ Commit
               \/ NotePersistFailure \/ Crash \/ Close \/ Damage \/ UNCHANGED vars
      BY <1>2, <3>4, Zenon DEF Start, RecordBoot, RecordBootFails, SafeModeAck, BootExpires,
         Commit, NotePersistFailure, Crash, Close, Damage, vars, history
    <3> QED
      BY <3>1, <3>2, <3>3, <3>4, Zenon DEF Next, Boot
  <2> QED
    BY <2>1, Zenon
<1>7. ASSUME replaced, ~torn
      PROVE  /\ pc \notin {"down", "check"}
             /\ pc \in {"restore", "written", "open"} => wal = "none"
             /\ pc \notin {"down", "check", "sidecars"} => "quarantined" \in reasons
             /\ pc \in {"written", "open", "schema"} => Restored
  BY <1>1, <1>7, Zenon DEF Handled
<1>8. CASE MoveSidecars
  BY <1>8 DEF MoveSidecars, NoteQuarantine
<1>9. CASE RestoreNewestBackup
  <2>1. /\ pc = "restore" /\ wal' = wal /\ reasons' = reasons /\ backups' = backups
        /\ pc' \in {"open", "written"}
        /\ db' = IF NewestValid = Nil THEN db ELSE [NewestValid EXCEPT !.state = "unreadable"]
    BY <1>9 DEF RestoreNewestBackup, RestoreFrom
  <2>2. replaced /\ ~torn
    BY <1>6, <2>1 DEF Quarantine, SidecarsStay
  <2>3. wal = "none" /\ "quarantined" \in reasons
    BY <1>7, <2>1, <2>2
  <2>4. ASSUME NewestValid # Nil PROVE db' # Nil /\ db'.commits = NewestValid.commits
    <3>1. NewestValid \in File
      BY <1>1, <2>4, NewestIsBackup DEF StorageTypes
    <3>2. db' \in File /\ db'.commits = NewestValid.commits
      BY <2>1, <2>4, <3>1, SetState
    <3> QED
      BY <3>2, NilAssumption, Zenon
  <2>5. Restored'
    BY <1>3, <2>1, <2>4, Zenon DEF Restored
  <2> QED
    BY <2>1, <2>3, <2>5
<1>10. CASE RestoreWritten \/ RestoreFails
  <2>1. /\ pc = "written" /\ wal' = wal /\ reasons' = reasons /\ backups' = backups
        /\ pc' = "open" /\ db' \in {db, [db EXCEPT !.state = "ok"]}
    BY <1>10 DEF RestoreWritten, RestoreFails, disk
  <2>2. replaced /\ ~torn
    BY <1>6, <2>1 DEF Quarantine, SidecarsStay
  <2>3. wal = "none" /\ "quarantined" \in reasons /\ Restored
    BY <1>7, <2>1, <2>2
  <2>4. db \in File
    BY <1>1, <2>1 DEF StorageTypes, Working
  <2>5. db' \in File /\ db'.commits = db.commits
    BY <2>1, <2>4, SetState
  <2>6. db' # Nil
    BY <2>5, NilAssumption, Zenon
  <2>7. Restored'
    BY <1>3, <2>1, <2>3, <2>5, <2>6, Zenon DEF Restored
  <2> QED
    BY <2>1, <2>3, <2>7
<1>11. CASE Open
  <2> DEFINE file == IF db = Nil THEN Fresh ELSE db
  <2>1. /\ pc = "open" /\ pc' = "schema" /\ reasons' = reasons /\ backups' = backups
        /\ db' = file \/ db' = [file EXCEPT !.state = "damaged"]
    BY <1>11 DEF Open
  <2>2. replaced /\ ~torn
    BY <1>6, <2>1 DEF Quarantine, SidecarsStay
  <2>3. "quarantined" \in reasons /\ Restored
    BY <1>7, <2>1, <2>2
  <2>4. ASSUME NewestValid # Nil PROVE db' # Nil /\ db'.commits = NewestValid.commits
    <3>1. db # Nil /\ db.commits = NewestValid.commits
      BY <2>3, <2>4, Zenon DEF Restored
    <3>2. db \in File /\ file = db
      BY <1>1, <3>1 DEF StorageTypes
    <3>3. db' \in File /\ db'.commits = db.commits
      BY <2>1, <3>2, SetState
    <3> QED
      BY <3>1, <3>3, NilAssumption, Zenon
  <2>5. Restored'
    BY <1>3, <2>1, <2>4, Zenon DEF Restored
  <2> QED
    BY <2>1, <2>3, <2>5
<1>12. CASE CheckPasses \/ QuarantineFails \/ Start
  <2>1. pc \in {"down", "check"} /\ ~Quarantine /\ ~SidecarsStay
    <3>1. pc \in {"down", "check"} /\ pc' \in {"open", "check"}
      BY <1>12 DEF CheckPasses, QuarantineFails, Start
    <3> QED
      BY <3>1, Zenon DEF Quarantine, SidecarsStay
  <2> QED
    BY <1>6, <1>7, <2>1, Zenon
<1>13. CASE Damage
  <2>1. UNCHANGED <<pc, wal, backups, reasons, replaced, torn>>
    BY <1>13, Zenon DEF Damage, process, history
  <2>2. db \in File /\ db' \in File /\ db'.commits = db.commits
    BY <1>1, <1>13, DamagedFile
  <2>3. Restored => Restored'
    BY <1>3, <2>1, <2>2, NilAssumption, Zenon DEF Restored
  <2> QED
    BY <1>7, <2>1, <2>3, Zenon
<1>14. CASE Migrate \/ Maintain \/ RecordBoot \/ RecordBootFails \/ SafeModeAck \/ Commit
            \/ NotePersistFailure
  <2>1. /\ pc \in Opened /\ pc' \in Opened \ {"schema"} /\ reasons \subseteq reasons'
        /\ replaced' = replaced /\ torn' = torn
    <3>1. CASE Migrate
      BY <3>1, Zenon DEF Migrate, Schema, CopyKeys, CopyFails, DropOld, RenameNew, history, Opened
    <3>2. CASE Maintain
      BY <1>2, <3>2, MaintainShape, Zenon DEF Up, Opened
    <3>3. CASE RecordBoot \/ RecordBootFails \/ SafeModeAck \/ Commit \/ NotePersistFailure
      BY <3>3, Zenon DEF RecordBoot, RecordBootFails, SafeModeAck, Commit, NotePersistFailure, process, history, Up, Opened
    <3> QED
      BY <1>14, <3>1, <3>2, <3>3, Zenon
  <2>2. "quarantined" \in reasons
    BY <1>7, <2>1 DEF Opened
  <2> QED
    BY <2>1, <2>2 DEF Opened
<1>15. CASE BootExpires \/ UNCHANGED vars
  <2>1. UNCHANGED <<db, wal, backups, pc, reasons, replaced, torn>>
    BY <1>15, Zenon DEF BootExpires, vars, disk, process, history
  <2>2. Restored' <=> Restored
    BY <1>3, <2>1, Zenon DEF Restored
  <2> QED
    BY <1>7, <2>1, <2>2, Zenon
<1>16. ~OpenFails /\ ~Crash /\ ~Close
  BY <1>2, Zenon DEF OpenFails, Crash, Close
<1> QED
  BY <1>4, <1>5, <1>8, <1>9, <1>10, <1>11, <1>12, <1>13, <1>14, <1>15, <1>16, Zenon
     DEF Next, Boot, Gate

\* No step loses the old rows of a file, unless a fault cuts the migration.
LEMMA RowsStep ==
    ASSUME StorageInv, [Next]_vars
    PROVE  Rows'
<1>1. StorageTypes /\ Working /\ Rows
  BY Zenon DEF StorageInv
<1>2. ASSUME backups' = backups PROVE \A i \in DOMAIN backups' : Kept(backups'[i])
  BY <1>1, <1>2, Zenon DEF Rows
<1>3. CASE Gate
  <2>1. backups' = backups /\ pc \notin {"drop", "rename", "record", "up"}
        /\ pc' \notin {"drop", "rename", "record", "up"}
    BY <1>3 DEF Gate, CheckPasses, Quarantine, QuarantineFails, MoveSidecars, SidecarsStay,
       RestoreNewestBackup, RestoreOlder, RestoreFrom, RestoreWritten, RestoreFails, Open, OpenFails, Exit, disk
  <2>2. db # Nil => db \in File /\ Kept(db)
    BY <1>1, <2>1 DEF Rows, StorageTypes
  <2>3. db' # Nil => Kept(db')
    <3>1. CASE RestoreNewestBackup \/ RestoreOlder
      <4>1. db' = db \/ \E i \in DOMAIN backups : db' = [backups[i] EXCEPT !.state = "unreadable"]
        BY <1>1, <3>1, RestoredFile, Zenon
      <4>2. \A i \in DOMAIN backups : backups[i] \in File /\ Kept(backups[i])
        BY <1>1 DEF StorageTypes, Rows
      <4> QED
        BY <2>2, <4>1, <4>2, SetState DEF Kept
    <3>2. CASE RestoreWritten
      <4>1. db # Nil /\ db' = [db EXCEPT !.state = "ok"]
        BY <1>1, <3>2 DEF RestoreWritten, Working
      <4> QED
        BY <2>2, <4>1, SetState DEF Kept
    <3>3. CASE Open
      <4> DEFINE file == IF db = Nil THEN Fresh ELSE db
      <4>1. db' = file \/ db' = [file EXCEPT !.state = "damaged"]
        BY <3>3 DEF Open
      <4>2. file \in File /\ Kept(file)
        BY <2>2, NewFiles DEF Kept
      <4> HIDE DEF file
      <4> QED
        BY <4>1, <4>2, SetState DEF Kept
    <3>4. CASE Quarantine
      BY <3>4 DEF Quarantine
    <3>5. CASE CheckPasses \/ QuarantineFails \/ MoveSidecars \/ SidecarsStay \/ RestoreFails
               \/ OpenFails
      <4>1. db' = db
        BY <3>5 DEF CheckPasses, QuarantineFails, MoveSidecars, SidecarsStay, RestoreFails,
           OpenFails, disk
      <4> QED
        BY <2>2, <4>1, Zenon
    <3> QED
      BY <1>3, <3>1, <3>2, <3>3, <3>4, <3>5, Zenon DEF Gate
  <2> QED
    BY <1>2, <2>1, <2>3 DEF Rows
<1>4. CASE Migrate
  <2>1. db \in File /\ backups' = backups
    BY <1>4, MigratedFile DEF Migrate, Schema, CopyKeys, CopyFails, DropOld, RenameNew
  <2>2. db.keys \in Tables /\ db.copy \in Tables /\ db.old \in BOOLEAN /\ db.cut \in BOOLEAN
    BY <2>1, FileFields
  <2>3. db # Nil
    BY <2>1, NilAssumption, Zenon
  <2>4. CASE Schema
    <3> DEFINE keys == IF db.keys = "none" THEN "empty" ELSE db.keys
    <3>1. /\ pc = "schema" /\ pc' = IF keys = "v1" THEN "copy" ELSE "record"
          /\ db' = [db EXCEPT !.keys = keys]
      BY <2>4 DEF Schema
    <3>2. Kept(db)
      BY <1>1, <2>3, <3>1 DEF Rows
    <3>3. keys \in Tables /\ (db.old /\ ~db.cut => keys = db.keys)
      BY <2>2, <3>2 DEF Kept, Tables
    <3> HIDE DEF keys
    <3>4. db'.old = db.old /\ db'.cut = db.cut /\ db'.keys = keys
      BY <2>1, <3>1, <3>3, SetKeys
    <3> QED
      BY <1>2, <2>1, <3>1, <3>2, <3>3, <3>4 DEF Rows, Kept
  <2>5. CASE CopyKeys
    <3>1. pc = "copy" /\ pc' = "drop" /\ db' = [db EXCEPT !.copy = "migrated"]
      BY <2>5 DEF CopyKeys
    <3>2. Kept(db)
      BY <1>1, <2>3, <3>1 DEF Rows
    <3>3. /\ db'.old = db.old /\ db'.cut = db.cut /\ db'.keys = db.keys
          /\ db'.copy = "migrated"
      BY <2>1, <3>1, SetCopy DEF Tables
    <3> QED
      BY <1>2, <2>1, <3>1, <3>2, <3>3 DEF Rows, Kept
  <2>6. CASE CopyFails
    <3>1. pc' = "drop"
      BY <2>6 DEF CopyFails
    <3>2. db'.cut
      BY <2>1, <2>6, CopyCut
    <3> QED
      BY <1>2, <2>1, <3>1, <3>2 DEF Rows, Kept
  <2>7. CASE DropOld
    <3>1. pc = "drop" /\ pc' = "rename" /\ db' = [db EXCEPT !.keys = "none"]
      BY <2>7 DEF DropOld
    <3>2. db.old /\ ~db.cut => db.copy = "migrated"
      BY <1>1, <3>1 DEF Rows
    <3>3. db'.old = db.old /\ db'.cut = db.cut /\ db'.copy = db.copy
      BY <2>1, <3>1, SetKeys DEF Tables
    <3> QED
      BY <1>2, <2>1, <3>1, <3>2, <3>3 DEF Rows
  <2>8. CASE RenameNew
    <3>1. pc = "rename" /\ pc' = "record"
      BY <2>8 DEF RenameNew
    <3>2. db.old /\ ~db.cut => db.copy = "migrated"
      BY <1>1, <3>1 DEF Rows
    <3>3. db'.old = db.old /\ db'.cut = db.cut /\ db'.keys = db.copy
      BY <2>1, <2>8, RenamedKeys
    <3> QED
      BY <1>2, <2>1, <3>1, <3>2, <3>3 DEF Rows, Kept
  <2> QED
    BY <1>4, <2>4, <2>5, <2>6, <2>7, <2>8 DEF Migrate
<1>5. CASE Maintain
  <2>1. Up /\ db' = db /\ db \in File /\ pc' \in {"up", "down"}
    BY <1>1, <1>5, MaintainShape, Zenon DEF Up, Working, Opened, StorageTypes, Exit
  <2>2. Kept(db) /\ (db.old /\ ~db.cut => db.keys = "migrated")
    <3>1. db # Nil
      BY <2>1, NilAssumption, Zenon
    <3> QED
      BY <1>1, <2>1, <3>1 DEF Rows, Up
  <2>3. ASSUME NEW i \in DOMAIN backups' PROVE Kept(backups'[i])
    <3>1. backups \in Seq(File) /\ \A k \in DOMAIN backups : Kept(backups[k])
      BY <1>1 DEF StorageTypes, Rows
    <3>2. CASE BackupStarts
      <4> DEFINE new == [Fresh EXCEPT !.state = "unreadable"]
      <4>1. Kept(new)
        BY NewFiles DEF Kept
      <4> HIDE DEF new
      <4>2. backups' = <<new>> \o backups
        BY <3>2 DEF BackupStarts, new
      <4>3. backups'[i] = new \/ \E k \in DOMAIN backups : backups'[i] = backups[k]
        BY <2>3, <3>1, <4>2
      <4> QED
        BY <3>1, <4>1, <4>3, Zenon
    <3>3. CASE BackupDone
      <4>1. backups' = <<db>> \o Tail(backups) /\ maint = "vacuum"
        BY <3>3 DEF BackupDone
      <4>2. backups # <<>>
        BY <1>1, <4>1 DEF Working
      <4>3. backups'[i] = db \/ \E k \in DOMAIN backups : backups'[i] = backups[k]
        BY <2>3, <3>1, <4>1, <4>2
      <4> QED
        BY <2>2, <3>1, <4>3, Zenon
    <3>4. CASE BackupFails
      <4>1. backups' = Tail(backups) /\ maint = "vacuum"
        BY <3>4 DEF BackupFails
      <4>2. backups # <<>>
        BY <1>1, <4>1 DEF Working
      <4>3. \E k \in DOMAIN backups : backups'[i] = backups[k]
        BY <2>3, <3>1, <4>1, <4>2
      <4> QED
        BY <3>1, <4>3, Zenon
    <3>5. CASE Rotate
      <4>1. backups' = SubSeq(backups, 1, Keep) /\ Len(backups) >= Keep /\ Keep \in Nat
        BY <3>5, StorageAssumption DEF Rotate
      <4>2. \E k \in DOMAIN backups : backups'[i] = backups[k]
        BY <2>3, <3>1, <4>1
      <4> QED
        BY <3>1, <4>2, Zenon
    <3>6. CASE MaintenancePass \/ RotatePanics
      <4>1. backups' = backups
        BY <3>6 DEF MaintenancePass, RotatePanics, disk
      <4> QED
        BY <1>2, <2>3, <4>1, Zenon
    <3> QED
      BY <1>5, <3>2, <3>3, <3>4, <3>5, <3>6 DEF Maintain
  <2> QED
    BY <2>1, <2>2, <2>3 DEF Rows, Kept
<1>6. CASE RecordBoot \/ RecordBootFails
  <2>1. pc = "record" /\ pc' = "up" /\ UNCHANGED <<db, backups>>
    BY <1>6 DEF RecordBoot, RecordBootFails
  <2> QED
    BY <1>1, <1>2, <2>1 DEF Rows, Kept
<1>7. CASE Commit
  <2>1. Up /\ pc' = pc /\ backups' = backups
    BY <1>7 DEF Commit, process
  <2>2. /\ db \in File /\ db'.old = db.old /\ db'.cut = db.cut /\ db'.keys = db.keys
        /\ db'.copy = db.copy
    BY <1>1, <1>7, Committed DEF Commit
  <2>3. db # Nil
    BY <2>2, NilAssumption, Zenon
  <2> QED
    BY <1>1, <1>2, <2>1, <2>2, <2>3, Zenon DEF Rows, Kept
<1>8. CASE Crash
  <2>1. pc' = "down" /\ backups' = backups
    BY <1>8 DEF Crash, Exit
  <2>2. db' # Nil => /\ db # Nil /\ db'.old = db.old
                     /\ db'.cut = (db.cut \/ pc = "rename") /\ db'.keys = db.keys
    BY <1>1, <1>8, CrashedFile
  <2>3. db' # Nil => Kept(db')
    BY <1>1, <2>2, Zenon DEF Rows, Kept
  <2> QED
    BY <1>2, <2>1, <2>3 DEF Rows
<1>9. CASE Damage
  <2>1. pc' = pc /\ backups' = backups
    BY <1>9 DEF Damage, process
  <2>2. /\ db \in File /\ db'.old = db.old /\ db'.cut = db.cut /\ db'.keys = db.keys
        /\ db'.copy = db.copy
    BY <1>1, <1>9, DamagedFile
  <2>3. db # Nil
    BY <2>2, NilAssumption, Zenon
  <2> QED
    BY <1>1, <1>2, <2>1, <2>2, <2>3, Zenon DEF Rows, Kept
<1>10. CASE Close
  <2>1. pc = "up" /\ pc' = "down" /\ UNCHANGED <<db, backups>>
    BY <1>10 DEF Close, Exit, Up
  <2> QED
    BY <1>1, <1>2, <2>1 DEF Rows, Kept
<1>11. CASE Start
  <2>1. pc = "down" /\ pc' = "check" /\ UNCHANGED <<db, backups>>
    BY <1>11 DEF Start, disk
  <2> QED
    BY <1>1, <1>2, <2>1 DEF Rows, Kept
<1>12. CASE SafeModeAck \/ BootExpires \/ NotePersistFailure \/ UNCHANGED vars
  <2>1. UNCHANGED <<db, backups, pc>>
    BY <1>12 DEF SafeModeAck, BootExpires, NotePersistFailure, vars, disk, process
  <2> QED
    BY <1>1, <1>2, <2>1, Zenon DEF Rows, Kept
<1> QED
  BY <1>3, <1>4, <1>5, <1>6, <1>7, <1>8, <1>9, <1>10, <1>11, <1>12, Zenon DEF Next, Boot

--------------------------------------------------------------------------------
(* The theorems about the data directory *)

\* The invariant holds at the start.
LEMMA StorageInitInv == Init => StorageInv
<1> SUFFICES ASSUME Init PROVE StorageInv
  OBVIOUS
<1>1. /\ wal = "none" /\ boots = <<>> /\ pc = "down" /\ maint = "idle" /\ safeMode = FALSE
      /\ replaced = FALSE /\ torn = FALSE
  BY DEF Init
<1>2. db \in {Nil, FromOldInstall} /\ backups \in {<<>>, <<FromOldInstall>>}
  BY Zenon DEF Init
<1>3. db \in File \cup {Nil}
  BY <1>2, NewFiles
<1>4. backups \in Seq(File) /\ \A i \in DOMAIN backups : backups[i] = FromOldInstall
  <2>1. FromOldInstall \in File
    BY NewFiles, Zenon
  <2>2. CASE backups = <<>>
    BY <2>2
  <2>3. CASE backups = <<FromOldInstall>>
    BY <2>1, <2>3
  <2> QED
    BY <1>2, <2>2, <2>3
<1>5. boots \in Seq(BOOLEAN) /\ DOMAIN boots = {}
  BY <1>1
<1>6. StorageTypes
  BY <1>1, <1>3, <1>4, <1>5, Zenon DEF StorageTypes
<1>7. Working
  BY <1>1 DEF Working, Opened
<1>8. Counted
  BY <1>5, Zenon DEF Counted
<1>9. Handled
  BY <1>1, Zenon DEF Handled
<1>10. Rows
  <2>1. Kept(FromOldInstall)
    BY NewFiles DEF Kept
  <2> QED
    BY <1>1, <1>2, <1>4, <2>1 DEF Rows
<1> QED
  BY <1>6, <1>7, <1>8, <1>9, <1>10, Zenon DEF StorageInv

\* The invariant of the data directory holds across every crash, disk fault
\* and failed system call.
THEOREM StorageInvariant == Spec => []StorageInv
<1>1. StorageInv /\ [Next]_vars => StorageInv'
  <2> SUFFICES ASSUME StorageInv, [Next]_vars PROVE StorageInv'
    OBVIOUS
  <2> QED
    BY StorageTypesStep, WorkingStep, CountedStep, HandledStep, RowsStep, Zenon DEF StorageInv
<1> QED
  BY <1>1, StorageInitInv, PTL DEF Spec

\* CheckOrQuarantine: a corrupt file that is moved aside takes its WAL with it,
\* the newest valid backup is back when the schema is read, and /readyz reports
\* the loss for the life of the process.
THEOREM LossesAreHandled == Spec => []LossIsHandled
<1>1. StorageInv => LossIsHandled
  <2> SUFFICES ASSUME StorageInv, replaced, ~torn
               PROVE  /\ pc = "open" => wal # "stale"
                      /\ Up => "quarantined" \in reasons /\ ~Ready
                      /\ pc = "schema" /\ NewestValid # Nil => db.commits >= NewestValid.commits
    BY Zenon DEF LossIsHandled
  <2>1. /\ pc \in {"restore", "written", "open"} => wal = "none"
        /\ pc \notin {"down", "check", "sidecars"} => "quarantined" \in reasons
        /\ pc \in {"written", "open", "schema"} => Restored
    BY Zenon DEF StorageInv, Handled
  <2>2. Up => "quarantined" \in reasons /\ ~Ready
    BY <2>1 DEF Up, Ready
  <2>3. ASSUME pc = "schema", NewestValid # Nil
        PROVE  db.commits >= NewestValid.commits
    <3>1. db # Nil /\ db.commits = NewestValid.commits
      BY <2>1, <2>3 DEF Restored
    <3>2. db \in File
      BY <3>1 DEF StorageInv, StorageTypes
    <3>3. db.commits \in Nat
      BY <3>2, FileFields, StorageAssumption
    <3> QED
      BY <3>1, <3>3
  <2> QED
    BY <2>1, <2>2, <2>3
<1> QED
  BY <1>1, StorageInvariant, PTL

\* migrateIdempotencyV1: whatever crashes, restarts and restored backups come
\* between, a process that serves has the old idempotency rows as done, unless
\* a fault cut the migration of the file itself.
THEOREM OldRowsAreMigrated == Spec => []OldRowsMigrate
<1>1. StorageInv => OldRowsMigrate
  BY Zenon DEF StorageInv, Rows, OldRowsMigrate, Up
<1> QED
  BY <1>1, StorageInvariant, PTL

\* BootTracker: a crash loop connects its sessions at most MaxBoots times in the
\* boots that the file remembers, however long the window and the history are.
THEOREM CrashLoopsStop == Spec => []CrashLoopStops
<1>1. StorageInv => CrashLoopStops
  <2> SUFFICES ASSUME StorageInv PROVE CrashLoopStops
    OBVIOUS
  <2> DEFINE connected == {i \in DOMAIN boots : boots[i]}
  <2>1. connected \subseteq 1 .. MaxBoots
    <3>1. DOMAIN boots \subseteq Nat \ {0} /\ MaxBoots \in Nat
      BY StorageAssumption DEF StorageInv, StorageTypes
    <3>2. \A i \in connected : i <= MaxBoots
      BY Zenon DEF StorageInv, Counted
    <3> QED
      BY <3>1, <3>2
  <2> HIDE DEF connected
  <2>2. IsFiniteSet(1 .. MaxBoots) /\ Cardinality(1 .. MaxBoots) = MaxBoots
    BY FS_Interval, StorageAssumption
  <2>3. Cardinality(connected) <= Cardinality(1 .. MaxBoots)
    BY <2>1, <2>2, FS_Subset, Zenon
  <2>4. Cardinality(connected) <= MaxBoots
    BY <2>2, <2>3
  <2> QED
    BY <2>4, Zenon DEF CrashLoopStops, connected
<1> QED
  BY <1>1, StorageInvariant, PTL

\* The newest complete file of a list of them, newest first.
NewestOf(s) ==
    LET valid == {i \in DOMAIN s : s[i].state = "ok"}
    IN  IF valid = {} THEN Nil ELSE s[Min(valid)]

\* A complete file in front is the newest one.
LEMMA NewestInFront ==
    ASSUME NEW s \in Seq(File), s # <<>>, s[1].state = "ok"
    PROVE  NewestOf(s) = s[1]
<1> DEFINE valid == {i \in DOMAIN s : s[i].state = "ok"}
<1>1. 1 \in valid /\ valid \in SUBSET Nat /\ \A i \in valid : i >= 1
  OBVIOUS
<1>2. NewestOf(s) = IF valid = {} THEN Nil ELSE s[Min(valid)]
  BY Zenon DEF NewestOf
<1> HIDE DEF valid
<1>3. Min(valid) \in valid /\ \A y \in valid : Min(valid) <= y
  BY <1>1, LeastPosition
<1>4. Min(valid) = 1
  <2> DEFINE m == Min(valid)
  <2>1. m \in Nat /\ m >= 1 /\ m <= 1
    BY <1>1, <1>3, Zenon
  <2> HIDE DEF m
  <2>2. m = 1
    BY <2>1
  <2> QED
    BY <2>2 DEF m
<1> QED
  BY <1>1, <1>2, <1>4

\* A file in front that is not complete does not count.
LEMMA NewestBehind ==
    ASSUME NEW s \in Seq(File), s # <<>>, s[1].state # "ok"
    PROVE  NewestOf(s) = NewestOf(Tail(s))
<1> DEFINE t == Tail(s)
           v == {i \in DOMAIN s : s[i].state = "ok"}
           w == {i \in DOMAIN t : t[i].state = "ok"}
<1>1. /\ DOMAIN s = 1 .. Len(s) /\ DOMAIN t = 1 .. Len(s) - 1 /\ Len(s) \in Nat
      /\ \A i \in 1 .. Len(s) - 1 : t[i] = s[i + 1]
  OBVIOUS
<1>2. /\ NewestOf(s) = IF v = {} THEN Nil ELSE s[Min(v)]
      /\ NewestOf(t) = IF w = {} THEN Nil ELSE t[Min(w)]
  BY Zenon DEF NewestOf
<1> HIDE DEF t
<1>3. v \in SUBSET Nat /\ w \in SUBSET Nat /\ w \subseteq 1 .. Len(s) - 1
  BY <1>1
<1>4. \A i \in w : i + 1 \in v
  BY <1>1
<1>5. ASSUME NEW i \in v PROVE i - 1 \in w
  <2>1. i # 1 /\ i \in 1 .. Len(s)
    BY <1>1
  <2>2. i - 1 \in 1 .. Len(s) - 1 /\ t[i - 1] = s[i]
    BY <1>1, <2>1
  <2> QED
    BY <1>1, <2>2
<1> HIDE DEF v, w
<1>6. CASE w = {}
  BY <1>2, <1>5, <1>6, Zenon DEF t
<1>7. CASE w # {}
  <2> DEFINE m == Min(w)
             k == Min(v)
  <2>1. m \in w /\ \A y \in w : m <= y
    BY <1>3, <1>7, LeastPosition
  <2>2. v # {}
    BY <1>4, <2>1
  <2>3. k \in v /\ \A y \in v : k <= y
    BY <1>3, <2>2, LeastPosition
  <2>4. NewestOf(s) = s[k] /\ NewestOf(t) = t[m]
    BY <1>2, <1>7, <2>2, Zenon
  <2> HIDE DEF m, k
  <2>5. m \in Nat /\ k \in Nat /\ k <= m + 1 /\ m <= k - 1
    BY <1>3, <1>4, <1>5, <2>1, <2>3
  <2>6. k = m + 1
    BY <2>5
  <2>7. t[m] = s[k]
    BY <1>1, <1>3, <2>1, <2>6
  <2> QED
    BY <2>4, <2>7 DEF t
<1> QED
  BY <1>6, <1>7

\* rotate and Backup: no step takes away the newest complete backup before a newer
\* one is complete, for every GW_BACKUP_KEEP.
THEOREM RotationIsSafe == Spec => RotationKeepsNewest
<1>1. StorageInv /\ [Next]_vars => [KeepsNewest]_vars
  <2> SUFFICES ASSUME StorageInv, Next PROVE KeepsNewest
    BY Zenon
  <2>1. backups \in Seq(File) /\ backups' \in Seq(File)
    BY StorageTypesStep DEF StorageInv, StorageTypes
  <2>2. NewestValid = NewestOf(backups) /\ NewestValid' = NewestOf(backups')
    BY Zenon DEF NewestValid, NewestOf
  <2>3. CASE BackupStarts
    <3> DEFINE new == [Fresh EXCEPT !.state = "unreadable"]
    <3>1. new.state # "ok"
      BY NewFiles
    <3> HIDE DEF new
    <3>2. backups' = <<new>> \o backups
      BY <2>3 DEF BackupStarts, new
    <3>3. backups' # <<>> /\ backups'[1] = new /\ Tail(backups') = backups
      BY <2>1, <3>2
    <3>4. NewestOf(backups') = NewestOf(backups)
      BY <2>1, <3>1, <3>3, NewestBehind
    <3> QED
      BY <2>2, <3>4, Zenon DEF KeepsNewest
  <2>4. CASE BackupDone
    <3>1. backups' = <<db>> \o Tail(backups) /\ maint = "vacuum" /\ db.state = "ok"
      BY <2>4 DEF BackupDone
    <3>2. backups # <<>>
      BY <3>1 DEF StorageInv, Working
    <3>3. backups' # <<>> /\ backups'[1] = db
      BY <2>1, <3>1, <3>2
    <3>4. NewestOf(backups') = db
      BY <2>1, <3>1, <3>3, NewestInFront
    <3> QED
      BY <2>2, <3>1, <3>4, Zenon DEF KeepsNewest
  <2>5. CASE BackupFails
    <3>1. backups' = Tail(backups) /\ maint = "vacuum"
      BY <2>5 DEF BackupFails
    <3>2. backups # <<>> /\ backups[1].state # "ok"
      BY <3>1 DEF StorageInv, Working
    <3>3. NewestOf(backups) = NewestOf(backups')
      BY <2>1, <3>1, <3>2, NewestBehind
    <3> QED
      BY <2>2, <3>3, Zenon DEF KeepsNewest
  <2>6. CASE Rotate
    <3>1. /\ maint = "rotate" /\ backups' = SubSeq(backups, 1, Keep) /\ Len(backups) >= Keep
          /\ Keep \in Nat \ {0}
      BY <2>6, StorageAssumption DEF Rotate
    <3>2. backups # <<>> /\ backups[1].state = "ok"
      BY <3>1 DEF StorageInv, Working
    <3>3. backups' # <<>> /\ backups'[1] = backups[1]
      BY <2>1, <3>1
    <3>4. NewestOf(backups) = backups[1] /\ NewestOf(backups') = backups[1]
      BY <2>1, <3>2, <3>3, NewestInFront
    <3> QED
      BY <2>2, <3>4, Zenon DEF KeepsNewest
  <2>7. ASSUME backups' # backups PROVE BackupStarts \/ BackupDone \/ BackupFails \/ Rotate
    <3>1. ~Gate
      BY <2>7 DEF Gate, CheckPasses, Quarantine, QuarantineFails, MoveSidecars, SidecarsStay,
         RestoreNewestBackup, RestoreOlder, RestoreFrom, RestoreWritten, RestoreFails, Open,
         OpenFails, disk
    <3>2. ~Migrate
      BY <2>7 DEF Migrate, Schema, CopyKeys, CopyFails, DropOld, RenameNew
    <3>3. ~MaintenancePass /\ ~RotatePanics
      BY <2>7 DEF MaintenancePass, RotatePanics, disk
    <3>4. ~(Start \/ RecordBoot \/ RecordBootFails \/ SafeModeAck \/ BootExpires \/ Commit
            \/ NotePersistFailure \/ Crash \/ Close \/ Damage)
      BY <2>7 DEF Start, RecordBoot, RecordBootFails, SafeModeAck, BootExpires, Commit,
         NotePersistFailure, Crash, Close, Damage, disk
    <3> QED
      BY <3>1, <3>2, <3>3, <3>4, Zenon DEF Next, Boot, Maintain
  <2>8. CASE backups' = backups
    BY <2>2, <2>8, Zenon DEF KeepsNewest
  <2> QED
    BY <2>3, <2>4, <2>5, <2>6, <2>7, <2>8
<1> QED
  BY <1>1, StorageInvariant, PTL DEF Spec, RotationKeepsNewest

--------------------------------------------------------------------------------
(* The claim of an idempotency key *)

\* What makes AtMostOnce inductive: a message that was sent has left its mark,
\* in the row or in the request that is about to write it.
Recorded ==
    ~ambiguous /\ ~robbed /\ ~expired =>
        /\ sent <= 1
        /\ sent = 1 => row.state = "done" \/ \E r \in Requests : stage[r] = "finish"

\* The inductive invariant.
IdempotencyInv == IdempotencyTypeOK /\ ClaimExclusive /\ Recorded

\* While a request holds the claim and has not come to finish, nothing was sent.
LEMMA HolderHasNotSent ==
    ASSUME IdempotencyInv, ~ambiguous, ~robbed, ~expired,
           NEW r \in Requests, stage[r] \in {"admit", "send", "release"}
    PROVE  sent = 0
<1>1. row.state = "pending" /\ \A s \in Requests : Holds(s) => s = r
  BY DEF IdempotencyInv, ClaimExclusive, Holds
<1>2. ~ \E s \in Requests : stage[s] = "finish"
  BY <1>1 DEF Holds
<1> QED
  BY <1>1, <1>2 DEF IdempotencyInv, Recorded, IdempotencyTypeOK

\* The invariant holds at the start.
LEMMA IdempotencyInitInv == KeyInit => IdempotencyInv
<1> SUFFICES ASSUME KeyInit PROVE IdempotencyInv
  OBVIOUS
<1>1. cache \in 0 .. TTL /\ sent \in 0 .. 2 /\ failures \in Nat /\ restarts \in Nat
  BY IdempotencyAssumption DEF KeyInit
<1>2. row \in [state : {"none", "pending", "done"}, age : Nat] /\ row.age = 0
  BY DEF KeyInit, NoRow
<1>3. ambiguous = FALSE /\ robbed = FALSE /\ expired = FALSE /\ path \in Paths
  BY DEF KeyInit
<1>4. stage \in [Requests -> {"idle"}]
  BY DEF KeyInit
<1>5. IdempotencyTypeOK
  BY <1>1, <1>2, <1>3, <1>4, Zenon DEF IdempotencyTypeOK
<1>6. ClaimExclusive
  BY <1>4 DEF ClaimExclusive, Holds
<1>7. Recorded
  BY DEF KeyInit, Recorded
<1> QED
  BY <1>5, <1>6, <1>7 DEF IdempotencyInv

--------------------------------------------------------------------------------
(* One lemma per conjunct; in each, one step per action *)

\* Every step keeps the types.
LEMMA TypeStep == IdempotencyTypeOK /\ [KeyNext]_ivars => IdempotencyTypeOK'
<1> SUFFICES ASSUME IdempotencyTypeOK, [KeyNext]_ivars PROVE IdempotencyTypeOK'
  OBVIOUS
<1> USE IdempotencyAssumption
<1> USE DEF IdempotencyTypeOK, Goto, Fails, SentOnce, NoRow, Pending, Completed, seenBy,
            Present, Outlived, Forget
<1>1. ASSUME NEW r \in Requests, Arrive(r) PROVE IdempotencyTypeOK'
  BY <1>1 DEF Arrive
<1>2. ASSUME NEW r \in Requests, ClaimInsert(r) PROVE IdempotencyTypeOK'
  <2>1. ambiguous' \in BOOLEAN /\ robbed' \in BOOLEAN /\ expired' \in BOOLEAN
    BY <1>2, Zenon DEF ClaimInsert
  <2>2. row' \in [state : {"none", "pending", "done"}, age : Nat]
        /\ (row'.state = "none" => row'.age = 0)
    BY <1>2 DEF ClaimInsert
  <2>3. stage' \in [Requests -> {"idle", "insert", "steal", "admit", "send", "finish", "note",
                             "release"}]
    BY <1>2 DEF ClaimInsert
  <2>4. /\ path' \in Paths /\ cache' \in 0 .. TTL /\ sent' \in 0 .. 2
        /\ failures' \in Nat /\ restarts' \in Nat
    BY <1>2 DEF ClaimInsert
  <2> QED
    BY <2>1, <2>2, <2>3, <2>4
<1>3. ASSUME NEW r \in Requests, ClaimUpdate(r) PROVE IdempotencyTypeOK'
  <2>1. ambiguous' \in BOOLEAN /\ robbed' \in BOOLEAN /\ expired' \in BOOLEAN
    BY <1>3, Zenon DEF ClaimUpdate
  <2>2. row' \in [state : {"none", "pending", "done"}, age : Nat]
        /\ (row'.state = "none" => row'.age = 0)
    BY <1>3 DEF ClaimUpdate
  <2>3. stage' \in [Requests -> {"idle", "insert", "steal", "admit", "send", "finish", "note",
                             "release"}]
    BY <1>3 DEF ClaimUpdate
  <2>4. /\ path' \in Paths /\ cache' \in 0 .. TTL /\ sent' \in 0 .. 2
        /\ failures' \in Nat /\ restarts' \in Nat
    BY <1>3 DEF ClaimUpdate
  <2> QED
    BY <2>1, <2>2, <2>3, <2>4
<1>4. ASSUME NEW r \in Requests, Admit(r) PROVE IdempotencyTypeOK'
  BY <1>4 DEF Admit
<1>5. ASSUME NEW r \in Requests, Refuse(r) PROVE IdempotencyTypeOK'
  BY <1>5 DEF Refuse
<1>6. ASSUME NEW r \in Requests, SendCompletes(r) PROVE IdempotencyTypeOK'
  BY <1>6 DEF SendCompletes
<1>7. ASSUME NEW r \in Requests, SendFails(r) PROVE IdempotencyTypeOK'
  <2>1. ambiguous' \in BOOLEAN /\ robbed' \in BOOLEAN /\ expired' \in BOOLEAN
    BY <1>7, Zenon DEF SendFails
  <2>2. row' \in [state : {"none", "pending", "done"}, age : Nat]
        /\ (row'.state = "none" => row'.age = 0)
    BY <1>7 DEF SendFails
  <2>3. stage' \in [Requests -> {"idle", "insert", "steal", "admit", "send", "finish", "note",
                             "release"}]
    BY <1>7 DEF SendFails
  <2>4. /\ path' \in Paths /\ cache' \in 0 .. TTL /\ sent' \in 0 .. 2
        /\ failures' \in Nat /\ restarts' \in Nat
    BY <1>7 DEF SendFails
  <2> QED
    BY <2>1, <2>2, <2>3, <2>4
<1>8. ASSUME NEW r \in Requests, SendRefused(r) PROVE IdempotencyTypeOK'
  BY <1>8 DEF SendRefused
<1>9. ASSUME NEW r \in Requests, DispatchAborts(r) PROVE IdempotencyTypeOK'
  BY <1>9 DEF DispatchAborts
<1>10. ASSUME NEW r \in Requests, Finish(r) PROVE IdempotencyTypeOK'
  BY <1>10 DEF Finish
<1>11. ASSUME NEW r \in Requests, NoteIdempotencyDone(r) PROVE IdempotencyTypeOK'
  BY <1>11 DEF NoteIdempotencyDone
<1>12. ASSUME NEW r \in Requests, Fail(r) PROVE IdempotencyTypeOK'
  BY <1>12 DEF Fail
<1>13. CASE IdempotencyCleanup
  BY <1>13 DEF IdempotencyCleanup
<1>14. CASE Tick
  BY <1>14 DEF Tick
<1>15. CASE Restart
  <2>1. ambiguous' \in BOOLEAN /\ robbed' \in BOOLEAN /\ expired' \in BOOLEAN
    BY <1>15, Zenon DEF Restart
  <2>2. row' \in [state : {"none", "pending", "done"}, age : Nat]
        /\ (row'.state = "none" => row'.age = 0)
    BY <1>15 DEF Restart
  <2>3. stage' \in [Requests -> {"idle", "insert", "steal", "admit", "send", "finish", "note",
                             "release"}]
    BY <1>15 DEF Restart
  <2>4. /\ path' \in Paths /\ cache' \in 0 .. TTL /\ sent' \in 0 .. 2
        /\ failures' \in Nat /\ restarts' \in Nat
    BY <1>15 DEF Restart
  <2> QED
    BY <2>1, <2>2, <2>3, <2>4
<1>16. CASE UNCHANGED ivars
  BY <1>16 DEF ivars
<1> QED
  BY <1>1, <1>2, <1>3, <1>4, <1>5, <1>6, <1>7, <1>8, <1>9, <1>10, <1>11, <1>12, <1>13,
     <1>14, <1>15, <1>16, Zenon DEF KeyNext, Step

\* Every step keeps the claim a lock.
LEMMA ExclusiveStep == IdempotencyInv /\ [KeyNext]_ivars => ClaimExclusive'
<1> SUFFICES ASSUME IdempotencyInv, [KeyNext]_ivars PROVE ClaimExclusive'
  OBVIOUS
<1> USE DEF IdempotencyInv, IdempotencyTypeOK, ClaimExclusive, Holds, Goto, NoRow, Pending, Completed,
            seenBy, Present, Outlived, Forget
<1>1. ASSUME NEW r \in Requests, Arrive(r) PROVE ClaimExclusive'
  BY <1>1 DEF Arrive
<1>2. ASSUME NEW r \in Requests, ClaimInsert(r) PROVE ClaimExclusive'
  <2>1. ~robbed' => ~robbed
    BY <1>2, Zenon DEF ClaimInsert
  <2>2. CASE /\ ~Present \/ Outlived
             /\ row' = Pending /\ Goto(r, "admit")
             /\ IF Present THEN Forget ELSE UNCHANGED <<robbed, expired>>
    <3>1. ~robbed' => \A s \in Requests : ~Holds(s)
      BY <2>1, <2>2, Zenon
    <3> QED
      BY <2>2, <3>1
  <2>3. CASE Goto(r, "steal") /\ (UNCHANGED row \/ Forget)
    <3>1. ~robbed' => UNCHANGED row \/ \A s \in Requests : ~Holds(s)
      BY <2>3, Zenon
    <3> QED
      BY <2>1, <2>3, <3>1
  <2> QED
    BY <1>2, <2>2, <2>3, Zenon DEF ClaimInsert
<1>3. ASSUME NEW r \in Requests, ClaimUpdate(r) PROVE ClaimExclusive'
  <2>1. CASE /\ row' = Pending /\ Goto(r, "admit")
             /\ robbed' = (robbed \/ \E s \in Requests : Holds(s))
    <3>1. ~robbed' => \A s \in Requests : ~Holds(s)
      BY <2>1, Zenon
    <3> QED
      BY <2>1, <3>1
  <2>2. CASE Goto(r, "idle") /\ UNCHANGED <<row, robbed>>
    BY <2>2
  <2> QED
    BY <1>3, <2>1, <2>2 DEF ClaimUpdate
<1>4. ASSUME NEW r \in Requests, Admit(r) PROVE ClaimExclusive'
  BY <1>4 DEF Admit
<1>5. ASSUME NEW r \in Requests, Refuse(r) PROVE ClaimExclusive'
  BY <1>5 DEF Refuse
<1>6. ASSUME NEW r \in Requests, SendCompletes(r) PROVE ClaimExclusive'
  BY <1>6 DEF SendCompletes
<1>7. ASSUME NEW r \in Requests, SendFails(r) PROVE ClaimExclusive'
  BY <1>7 DEF SendFails
<1>8. ASSUME NEW r \in Requests, SendRefused(r) PROVE ClaimExclusive'
  BY <1>8 DEF SendRefused
<1>9. ASSUME NEW r \in Requests, DispatchAborts(r) PROVE ClaimExclusive'
  BY <1>9 DEF DispatchAborts
<1>10. ASSUME NEW r \in Requests, Finish(r) PROVE ClaimExclusive'
  BY <1>10 DEF Finish
<1>11. ASSUME NEW r \in Requests, NoteIdempotencyDone(r) PROVE ClaimExclusive'
  BY <1>11 DEF NoteIdempotencyDone
<1>12. ASSUME NEW r \in Requests, Fail(r) PROVE ClaimExclusive'
  BY <1>12 DEF Fail
<1>13. CASE IdempotencyCleanup
  BY <1>13, Zenon DEF IdempotencyCleanup
<1>14. CASE Tick
  BY <1>14 DEF Tick
<1>15. CASE Restart
  BY <1>15 DEF Restart
<1>16. CASE UNCHANGED ivars
  BY <1>16 DEF ivars
<1> QED
  BY <1>1, <1>2, <1>3, <1>4, <1>5, <1>6, <1>7, <1>8, <1>9, <1>10, <1>11, <1>12, <1>13,
     <1>14, <1>15, <1>16, Zenon DEF KeyNext, Step

\* Every step keeps a message that was sent on record.
LEMMA RecordedStep == IdempotencyInv /\ [KeyNext]_ivars => Recorded'
<1> SUFFICES ASSUME IdempotencyInv, [KeyNext]_ivars PROVE Recorded'
  OBVIOUS
<1> USE DEF IdempotencyInv, IdempotencyTypeOK, ClaimExclusive, Recorded, Holds, Goto, NoRow, Pending,
            Completed, seenBy, Present, Outlived, Forget, SentOnce
<1>1. ASSUME NEW r \in Requests, Arrive(r) PROVE Recorded'
  BY <1>1 DEF Arrive
<1>2. ASSUME NEW r \in Requests, ClaimInsert(r) PROVE Recorded'
  BY <1>2, Zenon DEF ClaimInsert
<1>3. ASSUME NEW r \in Requests, ClaimUpdate(r) PROVE Recorded'
  BY <1>3 DEF ClaimUpdate
<1>4. ASSUME NEW r \in Requests, Admit(r) PROVE Recorded'
  BY <1>4, HolderHasNotSent DEF Admit
<1>5. ASSUME NEW r \in Requests, Refuse(r) PROVE Recorded'
  BY <1>5, HolderHasNotSent DEF Refuse
<1>6. ASSUME NEW r \in Requests, SendCompletes(r) PROVE Recorded'
  BY <1>6, HolderHasNotSent DEF SendCompletes
<1>7. ASSUME NEW r \in Requests, SendFails(r) PROVE Recorded'
  BY <1>7, HolderHasNotSent DEF SendFails
<1>8. ASSUME NEW r \in Requests, SendRefused(r) PROVE Recorded'
  BY <1>8, HolderHasNotSent DEF SendRefused
<1>9. ASSUME NEW r \in Requests, DispatchAborts(r) PROVE Recorded'
  BY <1>9, HolderHasNotSent DEF DispatchAborts
<1>10. ASSUME NEW r \in Requests, Finish(r) PROVE Recorded'
  BY <1>10, Zenon DEF Finish
<1>11. ASSUME NEW r \in Requests, NoteIdempotencyDone(r) PROVE Recorded'
  BY <1>11 DEF NoteIdempotencyDone
<1>12. ASSUME NEW r \in Requests, Fail(r) PROVE Recorded'
  BY <1>12, HolderHasNotSent DEF Fail
<1>13. CASE IdempotencyCleanup
  BY <1>13, Zenon DEF IdempotencyCleanup
<1>14. CASE Tick
  BY <1>14 DEF Tick
<1>15. CASE Restart
  BY <1>15, Zenon DEF Restart
<1>16. CASE UNCHANGED ivars
  BY <1>16 DEF ivars
<1> QED
  BY <1>1, <1>2, <1>3, <1>4, <1>5, <1>6, <1>7, <1>8, <1>9, <1>10, <1>11, <1>12, <1>13,
     <1>14, <1>15, <1>16, Zenon DEF KeyNext, Step

--------------------------------------------------------------------------------
\* The inductive invariant: types, the lock, and the record of what was sent.
THEOREM IdempotencyInvariant == KeySpec => []IdempotencyInv
<1>1. IdempotencyInv /\ [KeyNext]_ivars => IdempotencyInv'
  <2> SUFFICES ASSUME IdempotencyInv, [KeyNext]_ivars PROVE IdempotencyInv'
    OBVIOUS
  <2>1. IdempotencyTypeOK'
    BY TypeStep DEF IdempotencyInv
  <2>2. ClaimExclusive'
    BY ExclusiveStep
  <2>3. Recorded'
    BY RecordedStep
  <2> QED
    BY <2>1, <2>2, <2>3 DEF IdempotencyInv
<1> QED
  BY IdempotencyInitInv, <1>1, PTL DEF KeySpec

\* The variables keep their types.
THEOREM IdempotencyTyped == KeySpec => []IdempotencyTypeOK
<1>1. IdempotencyInv => IdempotencyTypeOK
  BY DEF IdempotencyInv
<1> QED
  BY IdempotencyInvariant, <1>1, PTL

\* IdempotencyClaim is a lock: of any number of requests with one key at most
\* one is between its claim and its Finish or Fail, until one is robbed.
THEOREM ClaimIsALock == KeySpec => []ClaimExclusive
<1>1. IdempotencyInv => ClaimExclusive
  BY DEF IdempotencyInv
<1> QED
  BY IdempotencyInvariant, <1>1, PTL

\* A key sends at most once, whatever fails and restarts, but for the three
\* causes AtMostOnce names.
THEOREM SendsAtMostOnce == KeySpec => []AtMostOnce
<1>1. IdempotencyInv => AtMostOnce
  BY DEF IdempotencyInv, Recorded, AtMostOnce
<1> QED
  BY IdempotencyInvariant, <1>1, PTL
================================================================================
