---------------------------- MODULE BackupRestore ----------------------------
(***************************************************************************)
(* Backups of the store's database, and the restore that is asked for      *)
(* while the server runs and applied when it starts again.                 *)
(*                                                                         *)
(* A database is what was written to it last and the backups it lists:     *)
(* backup_records is a table of the database itself, and a backup is       *)
(* copied before its own row is written.  Handlers run to their end, so    *)
(* only the end of the process can cut them.  At the start every call on   *)
(* the file system may fail, and the process may end between any two.      *)
(*                                                                         *)
(* The database has a write-ahead log beside it.  Closing the database     *)
(* takes the log into it; a process that is killed leaves it behind, and   *)
(* SQLite replays the log it finds onto whatever file has the name of the  *)
(* database then.  The index of the log (-shm) says nothing of its own.    *)
(* Checksums and schema versions are left out: nothing here changes a      *)
(* backup file in place.                                                   *)
(***************************************************************************)
EXTENDS Integers, FiniteSets

CONSTANTS
  Retention,      \* backups the pruning keeps
  MaxBackups,     \* bound: backup files ever made
  MaxWrites,      \* bound: what the store writes
  MaxFaults,      \* bound: calls on the file system that fail
  Behind,         \* a database file without what is in its log alone
  NoFile, NoMarker

VARIABLES
  active, temp, rollback,   \* the database and its companions .restore-new, .restore-rollback
  wal,                      \* -wal while no process has the database open: what it leads to
  backup, made,             \* the backup files, and how many were ever made
  marker,                   \* pending-restore.json
  boot, moved,              \* where the process is, and applyPendingRestore's movedActive
  written, faults,
  left,                     \* auxiliary: the database when the server last stopped
  logKept                   \* auxiliary: this attempt's clean-up could not remove a log

files == <<active, temp, rollback, wal>>
shelf == <<backup, made>>
counts == <<written, faults>>
history == <<left, logKept>>
restoreVars == <<files, shelf, marker, boot, moved, counts, history>>

ASSUME RestoreAssumption ==
  /\ Retention \in Nat \ {0}
  /\ MaxBackups \in Nat /\ MaxWrites \in Nat /\ MaxFaults \in Nat
  /\ {NoFile, Behind} \intersect [data : Int, listed : SUBSET Nat] = {}
  /\ NoFile # Behind
  /\ NoMarker \notin [backup : Nat, safety : Nat]

BackupId == 1..MaxBackups

\* Data 0 is the database the server creates where it finds none, Mixed one with
\* pages of another written over it, few or all.
Mixed == -1
Database == [data : Mixed..(MaxWrites + 1), listed : SUBSET BackupId]
Empty == [data |-> 0, listed |-> {}]

\* What is opened as db: with the log that lies beside it, whosever that is.
Opened(db) ==
  IF db = NoFile THEN {Empty}
  ELSE IF wal = NoFile THEN {db}
  ELSE IF db = Behind THEN {wal}
  ELSE {[data |-> Mixed, listed |-> listed] : listed \in {db.listed, wal.listed}}

RestoreInit ==
  /\ active = [data |-> 1, listed |-> {}]
  /\ temp = NoFile /\ rollback = NoFile /\ wal = NoFile
  /\ backup = [b \in BackupId |-> NoFile] /\ made = 0
  /\ marker = NoMarker
  /\ boot = "running" /\ moved = FALSE
  /\ written = 1 /\ faults = 0
  /\ left = active /\ logKept = FALSE

-----------------------------------------------------------------------------
(* The server runs.                                                        *)

StoreWrites ==
  /\ boot = "running" /\ written <= MaxWrites
  /\ written' = written + 1
  /\ active' = [active EXCEPT !.data = written + 1]
  /\ UNCHANGED <<temp, rollback, wal, shelf, marker, boot, moved, faults, history>>

\* The newest Retention backups that are not preserved are kept with those.
Pruned(listed, preserved) ==
  {b \in listed \ preserved :
     Cardinality({other \in listed \ preserved : other > b}) >= Retention}

\* A new file, with the database as it is; its row; some files pruned: the
\* database after it.
AddBackup(prunes, preserved, after) ==
  LET new == made + 1
      listed == active.listed \union {new}
      gone == IF prunes THEN Pruned(listed, preserved) ELSE {}
  IN /\ made < MaxBackups
     /\ made' = new
     /\ backup' = [b \in BackupId |-> IF b = new THEN active
                                      ELSE IF b \in gone THEN NoFile ELSE backup[b]]
     /\ after = [active EXCEPT !.listed = listed \ gone]

CreateBackup ==
  /\ boot = "running"
  /\ AddBackup(TRUE, {}, active')
  /\ UNCHANGED <<temp, rollback, wal, marker, boot, moved, counts, history>>

CanRestore(b) == boot = "running" /\ b \in active.listed /\ backup[b] # NoFile

\* A safety backup, the marker, and the pruning that spares both.
PrepareRestore(b) ==
  /\ CanRestore(b)
  /\ AddBackup(TRUE, {b, made + 1}, active')
  /\ marker' = [backup |-> b, safety |-> made + 1]
  /\ UNCHANGED <<temp, rollback, wal, boot, moved, counts, history>>

\* The process is killed: what it wrote last is in the log alone.
Killed(db) ==
  /\ active' = Behind /\ wal' = db
  /\ boot' = "starting" /\ left' = db

\* It ends before the marker is renamed into place, or before the pruning.
CrashInPrepare(b) ==
  /\ CanRestore(b)
  /\ \E db \in Database : AddBackup(FALSE, {}, db) /\ Killed(db)
  /\ marker' \in {marker, [backup |-> b, safety |-> made + 1]}
  /\ UNCHANGED <<temp, rollback, moved, counts, logKept>>

\* The store is closed, and its log with it.
StopServer ==
  /\ boot = "running"
  /\ boot' = "starting" /\ left' = active
  /\ UNCHANGED <<files, shelf, marker, moved, counts, logKept>>

KillServer ==
  /\ boot = "running"
  /\ Killed(active)
  /\ UNCHANGED <<temp, rollback, shelf, marker, moved, counts, logKept>>

-----------------------------------------------------------------------------
(* applyPendingRestore, at the start.                                      *)

\* Its movedActive is of one attempt, and so is what could not be removed.
AttemptEnds == moved' = FALSE /\ logKept' = FALSE

OpenStore ==
  /\ boot = "starting" /\ marker = NoMarker
  /\ active' \in Opened(active) /\ wal' = NoFile
  /\ boot' = "running"
  /\ UNCHANGED <<temp, rollback, shelf, marker, moved, counts, history>>

\* The file the marker names must be there, or the server does not start.
CheckMarker ==
  /\ boot = "starting" /\ marker # NoMarker
  /\ backup[marker.backup] # NoFile
  /\ boot' = "checked"
  /\ UNCHANGED <<files, shelf, marker, moved, counts, history>>

\* Leftovers of an earlier attempt are removed, and the log of the database; each
\* of them that cannot be is let be.
CleanUp ==
  /\ boot = "checked"
  /\ temp' \in {temp, NoFile} /\ rollback' \in {rollback, NoFile} /\ wal' \in {wal, NoFile}
  /\ logKept' = (wal' # NoFile)
  /\ \/ {temp', rollback', wal'} = {NoFile} /\ UNCHANGED faults
     \/ {temp', rollback', wal'} # {NoFile} /\ faults < MaxFaults /\ faults' = faults + 1
  /\ boot' = "cleaned"
  /\ UNCHANGED <<active, shelf, marker, moved, written, left>>

\* The process ends when some are removed: the copy first, the log last.
CleanUpIsCut ==
  /\ boot = "checked"
  /\ temp' = NoFile /\ rollback' \in {rollback, NoFile}
  /\ boot' = "starting"
  /\ UNCHANGED <<active, wal, shelf, marker, moved, counts, history>>

CopyBackup ==
  /\ boot = "cleaned"
  /\ temp' = backup[marker.backup]
  /\ boot' = "copied"
  /\ UNCHANGED <<active, rollback, wal, shelf, marker, moved, counts, history>>

\* Outside of the try: the copy or its validation fails and nothing is undone.
CopyFails ==
  /\ boot = "cleaned"
  /\ faults < MaxFaults /\ faults' = faults + 1
  /\ temp' = NoFile /\ boot' = "starting"
  /\ AttemptEnds
  /\ UNCHANGED <<active, rollback, wal, shelf, marker, written, left>>

MoveActive ==
  /\ boot = "copied"
  /\ IF active = NoFile
     THEN UNCHANGED <<active, rollback, moved>>
     ELSE rollback' = active /\ active' = NoFile /\ moved' = TRUE
  /\ boot' = "moved"
  /\ UNCHANGED <<temp, wal, shelf, marker, counts, history>>

InstallCopy ==
  /\ boot = "moved"
  /\ active' = temp /\ temp' = NoFile
  /\ boot' = "installed"
  /\ UNCHANGED <<rollback, wal, shelf, marker, moved, counts, history>>

\* The new database is opened, with a log that is still there, and closed.
InspectInstalled ==
  /\ boot = "installed"
  /\ active' \in Opened(active) /\ wal' = NoFile
  /\ boot' = "inspected"
  /\ UNCHANGED <<temp, rollback, shelf, marker, moved, counts, history>>

DropRollback ==
  /\ boot = "inspected"
  /\ rollback' = NoFile
  /\ boot' = "released"
  /\ UNCHANGED <<active, temp, wal, shelf, marker, moved, counts, history>>

\* The marker is removed last, and the server opens what was installed.
DropMarker ==
  /\ boot = "released"
  /\ marker' = NoMarker
  /\ boot' = "running"
  /\ AttemptEnds
  /\ UNCHANGED <<files, shelf, counts, left>>

InTry == boot \in {"copied", "moved", "installed", "inspected", "released"}

\* Mutant: a restore that failed is given up.
UndoAndForget ==
  /\ InTry
  /\ faults < MaxFaults /\ faults' = faults + 1
  /\ IF moved /\ rollback # NoFile
     THEN active' = rollback /\ rollback' = NoFile
     ELSE active' = NoFile /\ UNCHANGED rollback
  /\ temp' = NoFile /\ boot' = "starting" /\ marker' = NoMarker
  /\ AttemptEnds
  /\ UNCHANGED <<wal, shelf, written, left>>

\* The next call of the try fails: the catch deletes the database and puts the
\* rollback copy back, if this attempt made one and it is still there.
UndoRestore ==
  /\ InTry
  /\ faults < MaxFaults /\ faults' = faults + 1
  /\ IF moved /\ rollback # NoFile
     THEN active' = rollback /\ rollback' = NoFile
     ELSE active' = NoFile /\ UNCHANGED rollback
  /\ temp' = NoFile /\ boot' = "starting"
  /\ AttemptEnds
  /\ UNCHANGED <<wal, shelf, marker, written, left>>

\* So does the catch itself, whose errors are swallowed, or the process ends in it.
UndoIsCut ==
  /\ InTry
  /\ faults + 1 < MaxFaults /\ faults' = faults + 2
  /\ \/ active' \in {active, NoFile} /\ UNCHANGED rollback
     \/ moved /\ rollback # NoFile /\ active' = rollback /\ rollback' = NoFile
  /\ temp' \in {temp, NoFile}
  /\ boot' = "starting"
  /\ AttemptEnds
  /\ UNCHANGED <<wal, shelf, marker, written, left>>

CrashAtStart ==
  /\ boot \notin {"running", "starting"}
  /\ boot' = "starting"
  /\ AttemptEnds
  /\ UNCHANGED <<files, shelf, marker, counts, left>>

RestoreNext ==
  \/ StoreWrites \/ CreateBackup \/ StopServer \/ KillServer
  \/ \E b \in BackupId : PrepareRestore(b) \/ CrashInPrepare(b)
  \/ OpenStore \/ CheckMarker \/ CleanUp \/ CleanUpIsCut
  \/ CopyBackup \/ CopyFails
  \/ MoveActive \/ InstallCopy \/ InspectInstalled \/ DropRollback \/ DropMarker
  \/ UndoRestore \/ UndoIsCut \/ CrashAtStart

RestoreSpec == RestoreInit /\ [][RestoreNext]_restoreVars

-----------------------------------------------------------------------------
(* Type invariant: which files there may be at each step of a restore.     *)
RestoreTypeOK ==
  /\ active \in Database \union {NoFile, Behind} /\ rollback \in Database \union {NoFile, Behind}
  /\ temp \in Database \union {NoFile} /\ wal \in Database \union {NoFile}
  /\ backup \in [BackupId -> Database \union {NoFile}] /\ made \in 0..MaxBackups
  /\ marker \in [backup : BackupId, safety : BackupId] \union {NoMarker}
  /\ boot \in {"running", "starting", "checked", "cleaned",
               "copied", "moved", "installed", "inspected", "released"}
  /\ moved \in BOOLEAN
  /\ written \in 1..(MaxWrites + 1) /\ faults \in 0..MaxFaults
  /\ left \in Database /\ logKept \in BOOLEAN

(* A start opens the database the server left, with all that was in its    *)
(* log, or, when a restore was asked for, that backup, whole: never an     *)
(* older rollback copy, a safety backup or what a failed attempt left      *)
(* behind.  In one case it opens neither: the server was killed, this      *)
(* attempt could not remove its log, the error was swallowed, and the log  *)
(* was replayed onto the backup without harm to its structure.             *)
OpensLeftOrAsked ==
  [][boot # "running" /\ boot' = "running" =>
       IF marker = NoMarker THEN active' = left
       ELSE active' = backup[marker.backup] \/ (logKept /\ active'.data = Mixed)
    ]_restoreVars

=============================================================================
