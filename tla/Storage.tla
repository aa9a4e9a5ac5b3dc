------------------------------ MODULE Storage ------------------------------
(***************************************************************************)
(* The data directory across crashes: the boot gate for a corrupt SQLite   *)
(* file, backups and their rotation (internal/store/db.go), the migration  *)
(* of the idempotency table (internal/store/mt.go), the crash-loop guard   *)
(* and the storage health (internal/health/health.go), and the boot        *)
(* sequence that ties them together (mtproto/app.go; botapi/app.go is the  *)
(* same without the migration).                                            *)
(*                                                                         *)
(* One database file is modelled.  What it holds is abstracted to the      *)
(* number of commits in it and to its idempotency tables.  A process may   *)
(* die between any two steps; a supervisor starts it again.  A system call *)
(* or a check that fails on a healthy file is a fault like a crash.        *)
(***************************************************************************)
EXTENDS Naturals, Sequences, FiniteSets, FiniteSetsExt

CONSTANTS
    Keep,         \* GW_BACKUP_KEEP
    MaxBoots,     \* boots in the window that still connect
    History,      \* boots the history remembers (50)
    MaxCommits,   \* bound on the commits
    MaxFaults,    \* bound on crashes, disk faults and failed system calls
    MaxWindow,    \* bound on the boots within one window
    Nil

ASSUME StorageAssumption ==
    /\ Keep \in Nat \ {0} /\ MaxBoots \in Nat \ {0} /\ History \in Nat /\ History > MaxBoots
    /\ MaxCommits \in Nat /\ MaxFaults \in Nat /\ MaxWindow \in Nat \ {0}

VARIABLES
    db,        \* the main file, or Nil
    wal,       \* the -wal sidecar: none, of this file, of a file moved aside
    backups,   \* backup files, newest first
    boots,     \* the boots within the window in boot_history.json, oldest first;
               \* history: TRUE for one that connected its sessions
    pc,        \* where the process is
    maint,     \* where its maintenance pass is
    reasons,   \* Storage.reasons
    safeMode,  \* App.SafeMode
    faults,    \* number of faults so far
    replaced,  \* history: the main file was moved aside since the process was last up
    torn       \* history: a fault cut that quarantine or the boot it was part of short

disk == <<db, wal, backups, boots>>
process == <<pc, maint, reasons, safeMode>>
history == <<replaced, torn>>
vars == <<disk, process, faults, history>>

(***************************************************************************)
(* A database file: its state, the commits it holds, whether it comes from *)
(* an install with the old idempotency table, whether a fault cut the      *)
(* migration of that table short, and what the tables idempotency_keys and *)
(* idempotency_keys_v2 hold: the old rows in the old layout, the old rows  *)
(* in the new layout, or none of them.                                     *)
(***************************************************************************)
Tables == {"none", "v1", "migrated", "empty"}
File == [state : {"ok", "damaged", "unreadable"}, commits : 0..MaxCommits, old : BOOLEAN,
         cut : BOOLEAN, keys : Tables, copy : Tables]

ASSUME NilAssumption == Nil \notin File

Fresh == [state |-> "ok", commits |-> 0, old |-> FALSE, cut |-> FALSE, keys |-> "none",
          copy |-> "none"]
FromOldInstall == [Fresh EXCEPT !.old = TRUE, !.keys = "v1"]

Up == pc = "up"
Fault == faults < MaxFaults /\ faults' = faults + 1

\* What the end of a process leaves of it.
Exit ==
    /\ pc' = "down" /\ maint' = "idle" /\ reasons' = {} /\ safeMode' = FALSE
    /\ replaced' = (replaced /\ ~Up)
    /\ torn' = (replaced /\ ~Up)

-----------------------------------------------------------------------------
(* The boot gate. *)

Start ==
    /\ pc = "down" /\ pc' = "check"
    /\ Len(boots) < MaxWindow
    /\ UNCHANGED <<disk, maint, reasons, safeMode, faults, history>>

\* quick_check passes, or there is nothing to check.
CheckPasses ==
    /\ pc = "check" /\ pc' = "open"
    /\ db # Nil => db.state = "ok"
    /\ UNCHANGED <<disk, maint, reasons, safeMode, faults, history>>

\* Mutant of Quarantine: a corrupt file is left where it is.
QuarantineLogs ==
    /\ pc = "check" /\ pc' = "open"
    /\ db # Nil /\ db.state # "ok"
    /\ UNCHANGED <<disk, maint, reasons, safeMode, faults, history>>

\* QuickCheck takes every error for corruption: a busy or unreadable healthy
\* file fails it too.
CheckFails ==
    /\ db # Nil
    /\ IF db.state = "ok" THEN Fault ELSE UNCHANGED faults

\* The file that failed is moved aside.
Quarantine ==
    /\ pc = "check" /\ pc' = "sidecars"
    /\ CheckFails
    /\ db' = Nil /\ replaced' = TRUE /\ torn' = FALSE
    /\ wal' = IF wal = "own" THEN "stale" ELSE wal
    /\ UNCHANGED <<backups, boots, maint, reasons, safeMode>>

\* The rename fails; the gate gives up and leaves the file in place.
QuarantineFails ==
    /\ pc = "check" /\ pc' = "open"
    /\ db # Nil /\ Fault
    /\ UNCHANGED <<disk, maint, reasons, safeMode, history>>

NoteQuarantine == reasons' = reasons \cup {"quarantined"}

\* Mutant of MoveSidecars: only the main file moves.
LeaveSidecars ==
    /\ pc = "sidecars" /\ pc' = "restore"
    /\ NoteQuarantine
    /\ UNCHANGED <<disk, maint, safeMode, faults, history>>

MoveSidecars ==
    /\ pc = "sidecars" /\ pc' = "restore"
    /\ wal' = "none"
    /\ NoteQuarantine
    /\ UNCHANGED <<db, backups, boots, maint, safeMode, faults, history>>

\* An error of the rename is ignored.
SidecarsStay ==
    /\ pc = "sidecars" /\ pc' = "restore"
    /\ Fault /\ torn' = TRUE
    /\ NoteQuarantine
    /\ UNCHANGED <<disk, maint, safeMode, replaced>>

\* The newest backup that passes quick_check, or nothing.
NewestValid ==
    LET valid == {i \in DOMAIN backups : backups[i].state = "ok"}
    IN  IF valid = {} THEN Nil ELSE backups[Min(valid)]

\* Its bytes are written in place; until that is done the file is not valid.
RestoreFrom(file) ==
    /\ pc = "restore" /\ pc' = IF file = Nil THEN "open" ELSE "written"
    /\ db' = IF file = Nil THEN db ELSE [file EXCEPT !.state = "unreadable"]
    /\ UNCHANGED <<wal, backups, boots, maint, reasons, safeMode, replaced>>

RestoreNewestBackup == RestoreFrom(NewestValid) /\ UNCHANGED <<faults, torn>>

\* A good backup that fails quick_check or is not read is skipped.
RestoreOlder ==
    /\ \E file \in {Nil} \cup {backups[i] : i \in DOMAIN backups} :
            (file # Nil => file.state = "ok") /\ RestoreFrom(file)
    /\ Fault /\ torn' = TRUE

RestoreWritten ==
    /\ pc = "written" /\ pc' = "open"
    /\ db' = [db EXCEPT !.state = "ok"]
    /\ UNCHANGED <<wal, backups, boots, maint, reasons, safeMode, faults, history>>

\* The write fails half-way.
RestoreFails ==
    /\ pc = "written" /\ pc' = "open"
    /\ Fault
    /\ UNCHANGED <<disk, maint, reasons, safeMode, history>>

\* A missing file is created.  A stale WAL may be replayed into whatever is there.
Open ==
    LET file == IF db = Nil THEN Fresh ELSE db
    IN  /\ pc = "open" /\ pc' = "schema"
        /\ file.state # "unreadable"
        /\ \/ db' = file
           \/ wal = "stale" /\ db' = [file EXCEPT !.state = "damaged"]
        /\ wal' = "own"
        /\ UNCHANGED <<backups, boots, maint, reasons, safeMode, faults, history>>

\* A file that is not a database does not open: the process exits.
OpenFails ==
    /\ pc = "open" /\ db # Nil /\ db.state = "unreadable"
    /\ Exit
    /\ UNCHANGED <<disk, faults>>

-----------------------------------------------------------------------------
(* The schema and the migration of the idempotency table. *)

\* CREATE TABLE IF NOT EXISTS; a table that has the state column needs no migration.
Schema ==
    LET keys == IF db.keys = "none" THEN "empty" ELSE db.keys
    IN  /\ pc = "schema" /\ pc' = IF keys = "v1" THEN "copy" ELSE "record"
        /\ db' = [db EXCEPT !.keys = keys]
        /\ UNCHANGED <<wal, backups, boots, maint, reasons, safeMode, faults, history>>

\* Mutant of CopyKeys: the new table is created and not filled.
CreateKeys ==
    /\ pc = "copy" /\ pc' = "drop"
    /\ db' = [db EXCEPT !.copy = "empty"]
    /\ UNCHANGED <<wal, backups, boots, maint, reasons, safeMode, faults, history>>

\* CREATE TABLE IF NOT EXISTS idempotency_keys_v2; INSERT OR IGNORE ... 'done'.
CopyKeys ==
    /\ pc = "copy" /\ pc' = "drop"
    /\ db' = [db EXCEPT !.copy = "migrated"]
    /\ UNCHANGED <<wal, backups, boots, maint, reasons, safeMode, faults, history>>

\* An error of the copy is logged and the migration goes on.
CopyFails ==
    /\ pc = "copy" /\ pc' = "drop"
    /\ Fault
    /\ db' = [db EXCEPT !.copy = IF @ = "none" THEN "empty" ELSE @, !.cut = TRUE]
    /\ UNCHANGED <<wal, backups, boots, maint, reasons, safeMode, history>>

DropOld ==
    /\ pc = "drop" /\ pc' = "rename"
    /\ db' = [db EXCEPT !.keys = "none"]
    /\ UNCHANGED <<wal, backups, boots, maint, reasons, safeMode, faults, history>>

RenameNew ==
    /\ pc = "rename" /\ pc' = "record"
    /\ db' = [db EXCEPT !.keys = db.copy, !.copy = "none"]
    /\ UNCHANGED <<wal, backups, boots, maint, reasons, safeMode, faults, history>>

-----------------------------------------------------------------------------
(* The crash-loop guard. *)

\* The history with this boot, which connects or does not: its newest entries.
WithBoot(connects) ==
    LET kept == Append(boots, connects) IN IF Len(kept) > History THEN Tail(kept) ELSE kept

\* Mutant of RecordBoot: this boot itself is not counted.
RecordBootLater ==
    /\ pc = "record" /\ pc' = "up"
    /\ safeMode' = (Len(boots) > MaxBoots)
    /\ boots' = WithBoot(~safeMode')
    /\ UNCHANGED <<db, wal, backups, maint, reasons, faults, history>>

\* This boot joins the history; then RestoreAll connects every stored session,
\* unless in safe mode.
RecordBoot ==
    /\ pc = "record" /\ pc' = "up"
    /\ safeMode' = (Len(WithBoot(TRUE)) > MaxBoots)
    /\ boots' = WithBoot(~safeMode')
    /\ UNCHANGED <<db, wal, backups, maint, reasons, faults, history>>

\* An error of the write is ignored: the file is as it was, or empty.
RecordBootFails ==
    /\ pc = "record" /\ pc' = "up"
    /\ safeMode' = (Len(WithBoot(TRUE)) > MaxBoots)
    /\ Fault /\ boots' \in {boots, <<>>}
    /\ UNCHANGED <<db, wal, backups, maint, reasons, history>>

\* POST /v1/admin/safe-mode/ack: the history is removed and RestoreAll runs,
\* in safe mode or not.  If the file stays, its boots no longer count.
SafeModeAck ==
    /\ Up
    /\ safeMode' = FALSE
    /\ \/ boots' = <<>> /\ UNCHANGED faults
       \/ Fault /\ boots' = [i \in DOMAIN boots |-> FALSE]
    /\ UNCHANGED <<db, wal, backups, pc, maint, reasons, history>>

\* The oldest boot leaves the window.
BootExpires ==
    /\ boots # <<>> /\ boots' = Tail(boots)
    /\ UNCHANGED <<db, wal, backups, process, faults, history>>

-----------------------------------------------------------------------------
(* The running process. *)

Commit ==
    /\ Up /\ db.state = "ok" /\ db.commits < MaxCommits
    /\ db' = [db EXCEPT !.commits = @ + 1]
    /\ wal' = "own"
    /\ UNCHANGED <<backups, boots, process, faults, history>>

\* A statement that fails is noted, and the process goes on.
NotePersistFailure ==
    /\ Up /\ db.state # "ok"
    /\ reasons' = reasons \cup {"persist"}
    /\ UNCHANGED <<disk, pc, maint, safeMode, faults, history>>

\* lastBackupAt is the zero time.  Otherwise the newest file, complete or not,
\* may or may not be older than the backup interval.
BackupMissing == backups = <<>>

\* A healthy file notes nothing, unless it has no table admin_audit: the Bot API
\* plane runs the retention on queue.db too.
RetentionNotes == {{}, {"persist"}}

\* Mutant of MaintenancePass: errors of the audit retention are ignored too.
IntegrityOnly ==
    /\ Up /\ maint = "idle"
    /\ reasons' = reasons \cup IF db.state = "damaged" THEN {"integrity"} ELSE {}
    /\ wal' = IF db.state = "ok" THEN "none" ELSE wal
    /\ maint' \in IF BackupMissing THEN {"backup"} ELSE {"backup", "idle"}
    /\ UNCHANGED <<db, backups, boots, pc, safeMode, faults, history>>

\* The ticker of maintenanceLoop: integrity_check notes damage and lets an
\* error of its own pass; the audit retention notes that error; checkpoint.
MaintenancePass ==
    /\ Up /\ maint = "idle"
    /\ \E notes \in RetentionNotes :
         reasons' = reasons \cup notes \cup
           CASE db.state = "damaged" -> {"integrity"}
             [] db.state = "unreadable" -> {"persist"}
             [] OTHER -> {}
    /\ wal' = IF db.state = "ok" THEN "none" ELSE wal
    /\ maint' \in IF BackupMissing THEN {"backup"} ELSE {"backup", "idle"}
    /\ UNCHANGED <<db, backups, boots, pc, safeMode, faults, history>>

\* VACUUM INTO starts a new file, newer than every other.
BackupStarts ==
    /\ maint = "backup" /\ maint' = "vacuum"
    /\ backups' = <<[Fresh EXCEPT !.state = "unreadable"]>> \o backups
    /\ UNCHANGED <<db, wal, boots, pc, reasons, safeMode, faults, history>>

BackupDone ==
    /\ maint = "vacuum" /\ maint' = "rotate"
    /\ db.state = "ok"
    /\ backups' = <<db>> \o Tail(backups)
    /\ UNCHANGED <<db, wal, boots, pc, reasons, safeMode, faults, history>>

\* It fails on a file that is not well, or on a full disk; what it left is removed.
BackupFails ==
    /\ maint = "vacuum" /\ maint' = "idle"
    /\ IF db.state = "ok" THEN Fault ELSE UNCHANGED faults
    /\ backups' = Tail(backups)
    /\ UNCHANGED <<db, wal, boots, pc, reasons, safeMode, history>>

\* Mutant of Rotate: the files are sorted oldest first.
RotateNewest ==
    /\ maint = "rotate" /\ maint' = "idle"
    /\ Len(backups) >= Keep
    /\ backups' = SubSeq(backups, Len(backups) - Keep + 1, Len(backups))
    /\ UNCHANGED <<db, wal, boots, pc, reasons, safeMode, faults, history>>

\* files[keep:] is removed.
Rotate ==
    /\ maint = "rotate" /\ maint' = "idle"
    /\ Len(backups) >= Keep
    /\ backups' = SubSeq(backups, 1, Keep)
    /\ UNCHANGED <<db, wal, boots, pc, reasons, safeMode, faults, history>>

\* With fewer than keep files the slice is out of range: the process panics.
RotatePanics ==
    /\ maint = "rotate" /\ Len(backups) < Keep
    /\ Exit
    /\ UNCHANGED <<disk, faults>>

\* GET /readyz.
Ready == Up /\ ~safeMode /\ reasons = {}

-----------------------------------------------------------------------------
(* Faults. *)

\* The process is killed; a migration between DROP and RENAME stays cut.  The
\* boot history may be as it was, truncated, or hold a boot that connects nothing.
Crash ==
    /\ pc # "down"
    /\ Fault
    /\ db' = IF pc = "rename" THEN [db EXCEPT !.cut = TRUE] ELSE db
    /\ boots' \in IF pc = "record" THEN {boots, <<>>, WithBoot(FALSE)} ELSE {boots}
    /\ Exit
    /\ UNCHANGED <<wal, backups>>

\* Close: a checkpoint when the last connection closes.
Close ==
    /\ Up /\ maint = "idle"
    /\ wal' = IF db.state = "ok" THEN "none" ELSE wal
    /\ Exit
    /\ UNCHANGED <<db, backups, boots, faults>>

\* The disk damages the file.
Damage ==
    /\ db # Nil /\ db.state = "ok"
    /\ Fault
    /\ \E state \in {"damaged", "unreadable"} : db' = [db EXCEPT !.state = state]
    /\ UNCHANGED <<wal, backups, boots, process, history>>

-----------------------------------------------------------------------------
Init ==
    /\ db \in {Nil, FromOldInstall}
    /\ backups \in {<<>>} \cup (IF db = Nil THEN {} ELSE {<<FromOldInstall>>})
    /\ wal = "none" /\ boots = <<>>
    /\ pc = "down" /\ maint = "idle" /\ reasons = {} /\ safeMode = FALSE
    /\ faults = 0 /\ replaced = FALSE /\ torn = FALSE

Gate == CheckPasses \/ Quarantine \/ QuarantineFails \/ MoveSidecars \/ SidecarsStay
          \/ RestoreNewestBackup \/ RestoreOlder \/ RestoreWritten \/ RestoreFails
          \/ Open \/ OpenFails
Migrate == Schema \/ CopyKeys \/ CopyFails \/ DropOld \/ RenameNew
Boot == Start \/ Gate \/ Migrate \/ RecordBoot \/ RecordBootFails
Maintain == MaintenancePass \/ BackupStarts \/ BackupDone \/ BackupFails \/ Rotate
              \/ RotatePanics

Next == Boot \/ Maintain \/ SafeModeAck \/ BootExpires \/ Commit \/ NotePersistFailure
          \/ Crash \/ Close \/ Damage

\* The supervisor restarts the process, its boot runs on, the ticker fires,
\* and time passes.
Spec ==
    /\ Init /\ [][Next]_vars
    /\ WF_vars(Boot) /\ WF_vars(Maintain) /\ WF_vars(BootExpires)

-----------------------------------------------------------------------------
(* Properties. *)

(***************************************************************************)
(* What CheckOrQuarantine promises, unless a fault cuts the boot short: a  *)
(* database is never opened beside the WAL of the file that was moved      *)
(* aside, the process that comes up says so on /readyz, and it runs on at  *)
(* least what the newest valid backup holds.                               *)
(***************************************************************************)
LossIsHandled ==
    replaced /\ ~torn =>
      /\ pc = "open" => wal # "stale"
      /\ Up => "quarantined" \in reasons /\ ~Ready
      /\ pc = "schema" /\ NewestValid # Nil => db.commits >= NewestValid.commits

\* migrateIdempotencyV1: a process that serves on a file with the old
\* idempotency rows has them all as done, unless a fault cut the migration.
OldRowsMigrate == Up /\ db.old /\ ~db.cut => db.keys = "migrated"

\* BootTracker: of the boots within one window that the file remembers at most
\* MaxBoots connect their sessions, however the process dies, until an admin clears
\* the history.  A boot whose write fails, or dies half-way, is forgotten, and with
\* a truncated file every boot before it: RecordBoot ignores the error.
CrashLoopStops == Cardinality({i \in DOMAIN boots : boots[i]}) <= MaxBoots

\* rotate and BackupDB: what restoreNewestBackup would take is never an older backup
\* than before, even when files of interrupted backups stand between the complete
\* ones: it stays the newest complete backup, or becomes the copy of the live file
\* that VACUUM INTO has just finished.
KeepsNewest ==
    NewestValid # Nil => NewestValid' = NewestValid \/ (maint = "vacuum" /\ NewestValid' = db)

\* No step of the process, a crash included, takes the newest complete backup away.
RotationKeepsNewest == [][KeepsNewest]_vars

\* "Either way the process LIVES": whatever happens to the file, a process
\* comes up again and again.
ProcessLives == []<>Up

\* Damage under a running process reaches /readyz: the maintenance pass finds it, or
\* the gate of a later boot does and the process that then comes up says so, unless
\* a fault cuts that boot short.
DamageIsReported == Up /\ db.state # "ok" ~> (Up /\ ~Ready) \/ torn

=============================================================================
