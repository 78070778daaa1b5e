---------------------------- MODULE Services_proofs ----------------------------
(***************************************************************************)
(* What the services of the server keep for every value of their           *)
(* constants: the record of the changes clients ask for, the print queue,  *)
(* the restore of a backup, the approvals of returns, the users and their  *)
(* profiles, recurring entries, the warehouse, the ledger, the queue of    *)
(* telemetry, the prices of a sale and the cents of its returns.  One      *)
(* section each.                                                           *)
(***************************************************************************)
EXTENDS MutationCoordinator, PrintQueue, BackupRestore, ReturnApprovals,
        AccessControl, Recurrences, Warehouse, Finance, Telemetry, SalePricing, Refunds,
        SumTheorems, TLAPS

-----------------------------------------------------------------------------
(* The record of changes.                                                  *)

\* A change that was answered is not run again, and who was answered asked for it.
RecordIsFinal ==
  /\ \A m \in Mutation : running[m] # 0 => processed[m] = 0
  /\ \A a \in Attempt :
       /\ attempt[a] \in {"WAITING", "ANSWERED"} => asks[a] \in Mutation
       /\ attempt[a] = "ANSWERED" =>
            processed[asks[a]] # 0 /\ heard[a] = processed[asks[a]]

\* Only a change that is recorded, or may still be, needs no explanation.
CutsExplain ==
  \A m \in Mutation :
    /\ changes[m] <= 1 + restarts + failures
    /\ processed[m] = 0 /\ running[m] = 0 => changes[m] <= restarts + failures

CoordinatorInv == CoordinatorTypeOK /\ RecordIsFinal /\ CutsExplain

LEMMA CoordinatorInitKeepsInv == CoordinatorInit => CoordinatorInv
  BY CoordinatorAssumption
  DEF CoordinatorInit, CoordinatorInv, CoordinatorTypeOK, RecordIsFinal, CutsExplain

LEMMA AnswerFromRecordKeepsInv ==
  ASSUME CoordinatorInv, NEW a \in Attempt, NEW m \in Mutation, AnswerFromRecord(a, m)
  PROVE  CoordinatorInv'
  BY CoordinatorAssumption
  DEF AnswerFromRecord, Asking, CoordinatorInv, CoordinatorTypeOK, RecordIsFinal, CutsExplain, durable

\* Nobody ran it and nobody recorded it, so that the new change is explained.
LEMMA RunHandlerKeepsInv ==
  ASSUME CoordinatorInv, NEW a \in Attempt, NEW m \in Mutation, RunHandler(a, m)
  PROVE  CoordinatorInv'
  BY CoordinatorAssumption
  DEF RunHandler, Asking, IsFirst, CoordinatorInv, CoordinatorTypeOK, RecordIsFinal, CutsExplain

LEMMA RefuseRequestKeepsInv ==
  ASSUME CoordinatorInv, NEW a \in Attempt, NEW m \in Mutation, RefuseRequest(a, m)
  PROVE  CoordinatorInv'
  BY CoordinatorAssumption
  DEF RefuseRequest, Asking, CoordinatorInv, CoordinatorTypeOK, RecordIsFinal, CutsExplain, durable

LEMMA JoinRunKeepsInv ==
  ASSUME CoordinatorInv, NEW a \in Attempt, NEW m \in Mutation, JoinRun(a, m)
  PROVE  CoordinatorInv'
  BY CoordinatorAssumption
  DEF JoinRun, Asking, CoordinatorInv, CoordinatorTypeOK, RecordIsFinal, CutsExplain, durable

\* Before the answer was recorded nobody can have heard another one.
LEMMA FinishRunKeepsInv ==
  ASSUME CoordinatorInv, NEW m \in Mutation, FinishRun(m)
  PROVE  CoordinatorInv'
  BY CoordinatorAssumption
  DEF FinishRun, EndRun, Waiting, CoordinatorInv, CoordinatorTypeOK, RecordIsFinal, CutsExplain

LEMMA FailRunKeepsInv ==
  ASSUME CoordinatorInv, NEW m \in Mutation, FailRun(m)
  PROVE  CoordinatorInv'
  BY CoordinatorAssumption
  DEF FailRun, EndRun, Waiting, CoordinatorInv, CoordinatorTypeOK, RecordIsFinal, CutsExplain, durable

LEMMA LoseAnswerKeepsInv ==
  ASSUME CoordinatorInv, NEW a \in Attempt, LoseAnswer(a)
  PROVE  CoordinatorInv'
  BY CoordinatorAssumption
  DEF LoseAnswer, CoordinatorInv, CoordinatorTypeOK, RecordIsFinal, CutsExplain, durable

\* The runs that were cut are explained by the restart.
LEMMA RestartServerKeepsInv ==
  ASSUME CoordinatorInv, RestartServer
  PROVE  CoordinatorInv'
  BY CoordinatorAssumption
  DEF RestartServer, CoordinatorInv, CoordinatorTypeOK, RecordIsFinal, CutsExplain, durable

LEMMA CoordinatorNextKeepsInv ==
  ASSUME CoordinatorInv, [CoordinatorNext]_coordinatorVars
  PROVE  CoordinatorInv'
<1>1. CASE UNCHANGED coordinatorVars
  BY <1>1 DEF coordinatorVars, requests, durable, CoordinatorInv, CoordinatorTypeOK,
              RecordIsFinal, CutsExplain
<1>2. CASE CoordinatorNext
  BY <1>2, AnswerFromRecordKeepsInv, RunHandlerKeepsInv, RefuseRequestKeepsInv, JoinRunKeepsInv,
     FinishRunKeepsInv, FailRunKeepsInv, LoseAnswerKeepsInv, RestartServerKeepsInv
  DEF CoordinatorNext
<1>3. QED
  BY <1>1, <1>2

(* Every number a request may hear is one of a change that was made.       *)
THEOREM CoordinatorTypeCorrect == CoordinatorSpec => []CoordinatorTypeOK
<1>1. CoordinatorInv => CoordinatorTypeOK
  BY DEF CoordinatorInv
<1>2. QED
  BY <1>1, CoordinatorInitKeepsInv, CoordinatorNextKeepsInv, PTL DEF CoordinatorSpec

(* Answers agree and changes are explained for any number of clients,      *)
(* mutations, restarts and failed dispatches.                              *)
THEOREM RetriesStaySafe == CoordinatorSpec => []RetriesAreSafe
<1>1. CoordinatorInv => RetriesAreSafe
  BY DEF CoordinatorInv, RecordIsFinal, CutsExplain, RetriesAreSafe, AnswersAgree,
         ChangesAreExplained
<1>2. QED
  BY <1>1, CoordinatorInitKeepsInv, CoordinatorNextKeepsInv, PTL DEF CoordinatorSpec

-----------------------------------------------------------------------------
(* The print queue.                                                        *)

\* A job that may still cost a paper without anybody asking again.
MayCost(j) ==
  \/ kind[j] = "SALE_RECEIPT" /\ status[j] = "PENDING" /\ worker # j
  \/ AtPrinter(j) /\ j \notin paper

\* The papers there are, and the one that may come, are asked for.
PapersCovered ==
  \A j \in Job :
    /\ j > queued => papers[j] = 0
    /\ papers[j] <= 1 + retries[j] + stops
    /\ MayCost(j) => papers[j] <= retries[j] + stops

PrintInv == PrintTypeOK /\ PapersCovered

LEMMA JobIsNumber == Job \subseteq Nat /\ NoJob \notin Job
  BY PrintAssumption DEF Job

LEMMA PrintInitKeepsInv == PrintInit => PrintInv
  BY PrintAssumption
  DEF PrintInit, PrintInv, PrintTypeOK, PapersCovered, MayCost, AtPrinter, Job

\* A new job has cost nothing.
LEMMA QueueReceiptKeepsInv ==
  ASSUME PrintInv, QueueReceipt
  PROVE  PrintInv'
<1>1. PrintTypeOK'
  BY PrintAssumption, JobIsNumber DEF QueueReceipt, Queue, desktop, PrintInv, PrintTypeOK, AtPrinter, Job
<1>2. PapersCovered'
  BY <1>1, PrintAssumption, JobIsNumber
  DEF QueueReceipt, Queue, desktop, PrintInv, PrintTypeOK, PapersCovered, MayCost, AtPrinter
<1>3. QED
  BY <1>1, <1>2 DEF PrintInv

LEMMA ReprintKeepsInv ==
  ASSUME PrintInv, Reprint
  PROVE  PrintInv'
<1>1. PrintTypeOK'
  BY PrintAssumption, JobIsNumber DEF Reprint, Queue, desktop, PrintInv, PrintTypeOK, AtPrinter, Job
<1>2. PapersCovered'
  BY <1>1, PrintAssumption, JobIsNumber
  DEF Reprint, Queue, desktop, PrintInv, PrintTypeOK, PapersCovered, MayCost, AtPrinter
<1>3. QED
  BY <1>1, <1>2 DEF PrintInv

LEMMA CreateManualAttemptKeepsInv ==
  ASSUME PrintInv, CreateManualAttempt
  PROVE  PrintInv'
<1>1. PrintTypeOK'
  BY PrintAssumption, JobIsNumber DEF CreateManualAttempt, Queue, desktop, PrintInv, PrintTypeOK, AtPrinter, Job
<1>2. queued + 1 \in Job /\ \A j \in Job : j \in Nat
  BY PrintAssumption DEF CreateManualAttempt, Queue, PrintInv, PrintTypeOK, Job
<1>3. PapersCovered'
  <2> SUFFICES ASSUME NEW j \in Job
               PROVE  /\ j > queued' => papers'[j] = 0
                      /\ papers'[j] <= 1 + retries'[j] + stops'
                      /\ MayCost(j)' => papers'[j] <= retries'[j] + stops'
    BY DEF PapersCovered
  <2>1. UNCHANGED <<papers, retries, stops>> /\ queued' = queued + 1
    BY DEF CreateManualAttempt, Queue
  <2>2. papers[j] \in Nat /\ retries[j] \in Nat /\ stops \in Nat /\ queued \in Nat /\ j \in Nat
    BY <1>2 DEF PrintInv, PrintTypeOK
  <2>3. CASE j = queued + 1
    BY <2>1, <2>2, <2>3 DEF PrintInv, PapersCovered
  <2>4. CASE j # queued + 1
    <3>1. MayCost(j)' => MayCost(j)
      BY <2>4, <1>2 DEF CreateManualAttempt, Queue, PrintInv, PrintTypeOK, MayCost, AtPrinter
    <3>2. QED
      BY <2>1, <2>2, <3>1 DEF PrintInv, PapersCovered
  <2>5. QED
    BY <2>3, <2>4
<1>4. QED
  BY <1>1, <1>3 DEF PrintInv

\* The retry is what the next paper is asked for by.
LEMMA RetryJobKeepsInv ==
  ASSUME PrintInv, NEW j \in Job, RetryJob(j)
  PROVE  PrintInv'
<1>1. PrintTypeOK'
  <2>1. retries[j] + 1 \in 0..MaxRetries
    <3>1. retries[j] \in Nat /\ retries[j] < MaxRetries /\ MaxRetries \in Nat
      BY PrintAssumption DEF RetryJob, PrintInv, PrintTypeOK
    <3>2. QED
      BY <3>1
  <2>2. retries' \in [Job -> 0..MaxRetries]
    BY <2>1 DEF RetryJob, PrintInv, PrintTypeOK
  <2>3. status' \in [Job -> {"NONE", "PENDING", "PRINTED", "FAILED"}]
    BY DEF RetryJob, PrintInv, PrintTypeOK
  <2>4. QED
    BY <2>2, <2>3 DEF RetryJob, desktop, PrintInv, PrintTypeOK
<1>2. PapersCovered'
  BY <1>1, PrintAssumption, JobIsNumber
  DEF RetryJob, desktop, PrintInv, PrintTypeOK, PapersCovered, MayCost, AtPrinter
<1>3. QED
  BY <1>1, <1>2 DEF PrintInv

LEMMA ToggleAutoPrintKeepsInv ==
  ASSUME PrintInv, ToggleAutoPrint
  PROVE  PrintInv'
  BY PrintAssumption, JobIsNumber
  DEF ToggleAutoPrint, table, PrintInv, PrintTypeOK, PapersCovered, MayCost, AtPrinter, Job

\* What was to be taken is at the printer now.
LEMMA TakeReceiptKeepsInv ==
  ASSUME PrintInv, NEW j \in Job, TakeReceipt(j)
  PROVE  PrintInv'
<1>1. /\ kind[j] = "SALE_RECEIPT" /\ status[j] = "PENDING" /\ worker = NoJob /\ worker' = j
      /\ paper' = paper \ {j}
      /\ UNCHANGED <<queued, kind, status, autoPrint, printing, papers, retries, stops>>
  BY DEF TakeReceipt, MayTake, PendingReceipts, table
<1>2. PrintTypeOK'
  BY <1>1 DEF PrintInv, PrintTypeOK
<1>3. PapersCovered'
  BY <1>1, JobIsNumber DEF PrintInv, PapersCovered, MayCost, AtPrinter
<1>4. QED
  BY <1>2, <1>3 DEF PrintInv

\* The one paper that may come has come.
LEMMA PrinterPutsOutKeepsInv ==
  ASSUME PrintInv, NEW j \in Job, PrinterPutsOut(j)
  PROVE  PrintInv'
<1>1. PrintTypeOK'
  <2>1. papers' \in [Job -> Nat] /\ paper' \subseteq Job
    BY DEF PrinterPutsOut, PrintInv, PrintTypeOK
  <2>2. QED
    BY <2>1 DEF PrinterPutsOut, table, PrintInv, PrintTypeOK
<1>2. PapersCovered'
  BY <1>1, PrintAssumption, JobIsNumber
  DEF PrinterPutsOut, table, PrintInv, PrintTypeOK, PapersCovered, MayCost, AtPrinter
<1>3. QED
  BY <1>1, <1>2 DEF PrintInv

\* A job that is answered for is neither pending nor at the printer.
LEMMA MarkPrintedKeepsInv ==
  ASSUME PrintInv, NEW j \in Job, MarkPrinted(j)
  PROVE  PrintInv'
  BY PrintAssumption, JobIsNumber
  DEF MarkPrinted, PrintedOut, Leave, PrintInv, PrintTypeOK, PapersCovered, MayCost, AtPrinter, Job

LEMMA MarkFailedKeepsInv ==
  ASSUME PrintInv, NEW j \in Job, MarkFailed(j)
  PROVE  PrintInv'
  BY PrintAssumption, JobIsNumber
  DEF MarkFailed, Leave, PrintInv, PrintTypeOK, PapersCovered, MayCost, AtPrinter, Job

LEMMA LoseReportKeepsInv ==
  ASSUME PrintInv, NEW j \in Job, LoseReport(j)
  PROVE  PrintInv'
  BY PrintAssumption, JobIsNumber
  DEF LoseReport, table, PrintInv, PrintTypeOK, PapersCovered, MayCost, AtPrinter, Job

\* The receipt it was at goes back to the queue, and the stop explains it.
LEMMA StopDesktopKeepsInv ==
  ASSUME PrintInv, StopDesktop
  PROVE  PrintInv'
<1>1. PrintTypeOK'
  BY PrintAssumption, JobIsNumber DEF StopDesktop, table, PrintInv, PrintTypeOK, AtPrinter, Job
<1>2. PapersCovered'
  BY <1>1, PrintAssumption, JobIsNumber
  DEF StopDesktop, table, PrintInv, PrintTypeOK, PapersCovered, MayCost, AtPrinter
<1>3. QED
  BY <1>1, <1>2 DEF PrintInv

LEMMA PrintNextKeepsInv ==
  ASSUME PrintInv, [PrintNext]_printVars
  PROVE  PrintInv'
<1>1. CASE UNCHANGED printVars
  BY <1>1 DEF printVars, table, desktop, PrintInv, PrintTypeOK, PapersCovered, MayCost, AtPrinter
<1>2. CASE PrintNext
  BY <1>2, QueueReceiptKeepsInv, ReprintKeepsInv, CreateManualAttemptKeepsInv, RetryJobKeepsInv,
     ToggleAutoPrintKeepsInv, TakeReceiptKeepsInv, PrinterPutsOutKeepsInv, MarkPrintedKeepsInv,
     MarkFailedKeepsInv, LoseReportKeepsInv, StopDesktopKeepsInv
  DEF PrintNext
<1>3. QED
  BY <1>1, <1>2

(* The worker is busy with a receipt only, and the desktop with manual     *)
(* attempts.                                                               *)
THEOREM PrintTypeCorrect == PrintSpec => []PrintTypeOK
<1>1. PrintInv => PrintTypeOK
  BY DEF PrintInv
<1>2. QED
  BY <1>1, PrintInitKeepsInv, PrintNextKeepsInv, PTL DEF PrintSpec

(* No job costs more paper than was asked for, whatever the printer        *)
(* answers, for any number of jobs, retries and stops.                     *)
THEOREM PapersStayExplained == PrintSpec => []PapersAreExplained
<1>1. PrintInv => PapersAreExplained
  BY DEF PrintInv, PapersCovered, PapersAreExplained
<1>2. QED
  BY <1>1, PrintInitKeepsInv, PrintNextKeepsInv, PTL DEF PrintSpec

-----------------------------------------------------------------------------
(* The restore of a backup.                                                *)

\* The file the marker names is there once the start has looked for it.
AskedIsThere ==
  boot \notin {"running", "starting"} => marker # NoMarker /\ backup[marker.backup] # NoFile

\* Without a marker nobody has touched the database the server left, nor its log.
LeftStays ==
  marker = NoMarker /\ boot # "running" =>
    /\ boot = "starting"
    /\ (active = left /\ wal = NoFile) \/ (active = Behind /\ wal = left)

\* A log that lies there after the clean-up could not be removed in this attempt.
LogIsKnown ==
  boot \in {"cleaned", "copied", "moved", "installed"} /\ wal # NoFile => logKept

\* What is copied and installed is the backup that was asked for, what is opened
\* may have such a log over it.
CopyIsAsked ==
  /\ boot \in {"copied", "moved"} => temp = backup[marker.backup]
  /\ boot = "installed" => active = backup[marker.backup]
  /\ boot \in {"inspected", "released"} =>
       /\ active \in Database /\ wal = NoFile
       /\ active = backup[marker.backup] \/ (logKept /\ active.data = Mixed)

RunsOnDatabase == boot = "running" => active \in Database /\ wal = NoFile

RestoreInv ==
  /\ RestoreTypeOK /\ AskedIsThere /\ LeftStays /\ LogIsKnown /\ CopyIsAsked
  /\ RunsOnDatabase

LEMMA DatabaseIsNoFile ==
  /\ NoFile \notin Database /\ Behind \notin Database /\ NoFile # Behind
  /\ NoMarker \notin [backup : BackupId, safety : BackupId]
<1>1. Mixed..(MaxWrites + 1) \subseteq Int /\ BackupId \subseteq Nat
  BY RestoreAssumption DEF BackupId, Mixed
<1>2. Database \subseteq [data : Int, listed : SUBSET Nat]
  BY <1>1 DEF Database
<1>3. [backup : BackupId, safety : BackupId] \subseteq [backup : Nat, safety : Nat]
  BY <1>1
<1>4. QED
  BY <1>2, <1>3, RestoreAssumption

\* What is opened is a database, its own or one with a log over it.
LEMMA OpenedAre ==
  ASSUME RestoreTypeOK, NEW db \in Database \union {NoFile}, NEW opened \in Opened(db)
  PROVE  /\ opened \in Database
         /\ db # NoFile => opened = db \/ (wal # NoFile /\ opened.data = Mixed)
<1>1. 0 \in Mixed..(MaxWrites + 1) /\ Mixed \in Mixed..(MaxWrites + 1)
  BY RestoreAssumption DEF Mixed
<1>2. CASE db = NoFile
  BY <1>1, <1>2 DEF Opened, Empty, Database
<1>3. CASE db \in Database /\ wal = NoFile
  BY <1>3, DatabaseIsNoFile DEF Opened
<1>4. CASE db \in Database /\ wal # NoFile
  <2>1. wal \in Database /\ db # NoFile /\ db # Behind
    BY <1>4, DatabaseIsNoFile DEF RestoreTypeOK
  <2>2. PICK listed \in {db.listed, wal.listed} : opened = [data |-> Mixed, listed |-> listed]
    BY <1>4, <2>1 DEF Opened
  <2>3. listed \in SUBSET BackupId
    BY <1>4, <2>1 DEF Database
  <2>4. QED
    BY <1>1, <1>4, <2>2, <2>3 DEF Database
<1>5. QED
  BY <1>2, <1>3, <1>4

LEMMA RestoreInitKeepsInv ==
  ASSUME RestoreInit
  PROVE  RestoreInv
<1>1. active \in Database
  <2>1. 1 \in Mixed..(MaxWrites + 1)
    BY RestoreAssumption DEF Mixed
  <2>2. QED
    BY <2>1 DEF RestoreInit, Database
<1>2. written \in 1..(MaxWrites + 1) /\ faults \in 0..MaxFaults /\ made \in 0..MaxBackups
  BY RestoreAssumption DEF RestoreInit
<1>3. RestoreTypeOK
  BY <1>1, <1>2 DEF RestoreInit, RestoreTypeOK
<1>4. QED
  BY <1>1, <1>3
  DEF RestoreInit, RestoreInv, AskedIsThere, LeftStays, LogIsKnown, CopyIsAsked, RunsOnDatabase

LEMMA StoreWritesKeepsInv ==
  ASSUME RestoreInv, StoreWrites
  PROVE  RestoreInv'
<1>1. active \in Database
  BY DEF StoreWrites, RestoreInv, RunsOnDatabase
<1>2. written' \in 1..(MaxWrites + 1) /\ written + 1 \in Mixed..(MaxWrites + 1)
  BY RestoreAssumption DEF StoreWrites, RestoreInv, RestoreTypeOK, Mixed
<1>3. active' \in Database
  BY <1>1, <1>2 DEF StoreWrites, Database
<1>4. RestoreTypeOK'
  BY <1>2, <1>3 DEF StoreWrites, shelf, history, RestoreInv, RestoreTypeOK
<1>5. QED
  BY <1>3, <1>4
  DEF StoreWrites, shelf, history, RestoreInv, AskedIsThere, LeftStays, LogIsKnown, CopyIsAsked,
      RunsOnDatabase

\* A backup is a copy of a database, and the database goes on.
LEMMA AddBackupKeepsShelf ==
  ASSUME RestoreTypeOK, active \in Database, NEW prunes, NEW preserved, NEW after,
         AddBackup(prunes, preserved, after)
  PROVE  /\ after \in Database
         /\ backup' \in [BackupId -> Database \union {NoFile}]
         /\ made' \in 0..MaxBackups /\ made' \in BackupId /\ made' = made + 1
<1>1. made' \in 0..MaxBackups /\ made' \in BackupId /\ made' = made + 1
  BY RestoreAssumption DEF AddBackup, RestoreTypeOK, BackupId
<1>2. backup' \in [BackupId -> Database \union {NoFile}]
  BY <1>1 DEF AddBackup, RestoreTypeOK
<1>3. PICK gone : after = [active EXCEPT !.listed = (active.listed \union {made + 1}) \ gone]
  BY DEF AddBackup
<1>4. after \in Database
  BY <1>1, <1>3 DEF Database
<1>5. QED
  BY <1>1, <1>2, <1>4

LEMMA CreateBackupKeepsInv ==
  ASSUME RestoreInv, CreateBackup
  PROVE  RestoreInv'
<1>1. /\ active' \in Database /\ made' \in 0..MaxBackups
      /\ backup' \in [BackupId -> Database \union {NoFile}]
  BY AddBackupKeepsShelf DEF CreateBackup, RestoreInv, RunsOnDatabase
<1>2. RestoreTypeOK'
  BY <1>1 DEF CreateBackup, counts, history, RestoreInv, RestoreTypeOK
<1>3. QED
  BY <1>1, <1>2
  DEF CreateBackup, RestoreInv, AskedIsThere, LeftStays, LogIsKnown, CopyIsAsked, RunsOnDatabase

LEMMA PrepareRestoreKeepsInv ==
  ASSUME RestoreInv, NEW b \in BackupId, PrepareRestore(b)
  PROVE  RestoreInv'
<1>1. /\ active' \in Database /\ made' \in 0..MaxBackups /\ made + 1 \in BackupId
      /\ backup' \in [BackupId -> Database \union {NoFile}]
  <2>1. active \in Database /\ AddBackup(TRUE, {b, made + 1}, active')
    BY DEF PrepareRestore, CanRestore, RestoreInv, RunsOnDatabase
  <2>2. QED
    BY <2>1, AddBackupKeepsShelf DEF RestoreInv
<1>2. RestoreTypeOK'
  BY <1>1 DEF PrepareRestore, counts, history, RestoreInv, RestoreTypeOK
<1>3. QED
  BY <1>1, <1>2
  DEF PrepareRestore, CanRestore, RestoreInv, AskedIsThere, LeftStays, LogIsKnown, CopyIsAsked,
      RunsOnDatabase

LEMMA CrashInPrepareKeepsInv ==
  ASSUME RestoreInv, NEW b \in BackupId, CrashInPrepare(b)
  PROVE  RestoreInv'
<1>1. PICK db \in Database : AddBackup(FALSE, {}, db) /\ Killed(db)
  BY DEF CrashInPrepare
<1>2. /\ made' \in 0..MaxBackups /\ made + 1 \in BackupId
      /\ backup' \in [BackupId -> Database \union {NoFile}]
  <2>1. active \in Database
    BY DEF CrashInPrepare, CanRestore, RestoreInv, RunsOnDatabase
  <2>2. QED
    BY <1>1, <2>1, AddBackupKeepsShelf DEF RestoreInv
<1>3. RestoreTypeOK'
  BY <1>1, <1>2 DEF CrashInPrepare, Killed, counts, RestoreInv, RestoreTypeOK
<1>4. QED
  BY <1>1, <1>3
  DEF CrashInPrepare, Killed, RestoreInv, AskedIsThere, LeftStays, LogIsKnown, CopyIsAsked,
      RunsOnDatabase

LEMMA StoppingKeepsInv ==
  ASSUME RestoreInv, StopServer \/ KillServer
  PROVE  RestoreInv'
<1>1. active \in Database /\ wal = NoFile
  BY DEF StopServer, KillServer, RestoreInv, RunsOnDatabase
<1>2. CASE StopServer
  BY <1>1, <1>2
  DEF StopServer, files, shelf, counts, RestoreInv, RestoreTypeOK, AskedIsThere, LeftStays,
      LogIsKnown, CopyIsAsked, RunsOnDatabase
<1>3. CASE KillServer
  BY <1>1, <1>3
  DEF KillServer, Killed, shelf, counts, RestoreInv, RestoreTypeOK, AskedIsThere, LeftStays,
      LogIsKnown, CopyIsAsked, RunsOnDatabase
<1>4. QED
  BY <1>2, <1>3

\* The database that is opened without a marker is the one that was left.
LEMMA OpenStoreOpensLeft ==
  ASSUME RestoreInv, OpenStore
  PROVE  active' = left /\ left \in Database
<1>1. left \in Database /\ left # NoFile /\ left # Behind /\ Behind # NoFile
  BY DatabaseIsNoFile DEF RestoreInv, RestoreTypeOK
<1>2. (active = left /\ wal = NoFile) \/ (active = Behind /\ wal = left)
  BY DEF OpenStore, RestoreInv, LeftStays
<1>3. Opened(active) = {left}
  BY <1>1, <1>2 DEF Opened
<1>4. QED
  BY <1>1, <1>3 DEF OpenStore

LEMMA OpenStoreKeepsInv ==
  ASSUME RestoreInv, OpenStore
  PROVE  RestoreInv'
<1>1. active' \in Database
  BY OpenStoreOpensLeft
<1>2. QED
  BY <1>1
  DEF OpenStore, shelf, counts, history, RestoreInv, RestoreTypeOK, AskedIsThere, LeftStays,
      LogIsKnown, CopyIsAsked, RunsOnDatabase

\* The steps of a start up to the copy move no database.
LEMMA StartingKeepsInv ==
  ASSUME RestoreInv,
         \/ CheckMarker \/ CleanUp \/ CleanUpIsCut \/ CopyBackup \/ CopyFails \/ CrashAtStart
  PROVE  RestoreInv'
<1>1. CASE CheckMarker
  BY <1>1 DEF CheckMarker, files, shelf, counts, history, RestoreInv, RestoreTypeOK, AskedIsThere,
              LeftStays, LogIsKnown, CopyIsAsked, RunsOnDatabase
<1>2. CASE CleanUp
  <2>1. /\ temp' \in {temp, NoFile} /\ rollback' \in {rollback, NoFile} /\ wal' \in {wal, NoFile}
        /\ logKept' = (wal' # NoFile) /\ boot = "checked" /\ boot' = "cleaned"
        /\ UNCHANGED <<active, shelf, marker, moved, written, left>>
    BY <1>2 DEF CleanUp
  <2>2. faults' \in 0..MaxFaults
    BY <1>2, RestoreAssumption DEF CleanUp, RestoreInv, RestoreTypeOK
  <2>3. logKept' \in BOOLEAN
    BY <2>1
  <2>4. RestoreTypeOK'
    BY <2>1, <2>2, <2>3 DEF shelf, RestoreInv, RestoreTypeOK
  <2>5. QED
    BY <2>1, <2>4 DEF shelf, RestoreInv, AskedIsThere, LeftStays, LogIsKnown, CopyIsAsked,
                      RunsOnDatabase
<1>3. CASE CleanUpIsCut
  BY <1>3 DEF CleanUpIsCut, shelf, counts, history, RestoreInv, RestoreTypeOK, AskedIsThere,
              LeftStays, LogIsKnown, CopyIsAsked, RunsOnDatabase
<1>4. CASE CopyBackup
  BY <1>4 DEF CopyBackup, shelf, counts, history, RestoreInv, RestoreTypeOK, AskedIsThere,
              LeftStays, LogIsKnown, CopyIsAsked, RunsOnDatabase
<1>5. CASE CopyFails
  <2>1. faults' \in 0..MaxFaults
    BY <1>5, RestoreAssumption DEF CopyFails, RestoreInv, RestoreTypeOK
  <2>2. RestoreTypeOK'
    BY <1>5, <2>1 DEF CopyFails, AttemptEnds, shelf, RestoreInv, RestoreTypeOK
  <2>3. QED
    BY <1>5, <2>2 DEF CopyFails, AttemptEnds, shelf, RestoreInv, AskedIsThere, LeftStays,
                      LogIsKnown, CopyIsAsked, RunsOnDatabase
<1>6. CASE CrashAtStart
  BY <1>6 DEF CrashAtStart, AttemptEnds, files, shelf, counts, RestoreInv, RestoreTypeOK,
              AskedIsThere, LeftStays, LogIsKnown, CopyIsAsked, RunsOnDatabase
<1>7. QED
  BY <1>1, <1>2, <1>3, <1>4, <1>5, <1>6

\* The copy takes the place of the database, and the marker goes last.
LEMMA InstallingKeepsInv ==
  ASSUME RestoreInv,
         MoveActive \/ InstallCopy \/ InspectInstalled \/ DropRollback \/ DropMarker
  PROVE  RestoreInv'
<1>1. CASE MoveActive
  BY <1>1 DEF MoveActive, shelf, counts, history, RestoreInv, RestoreTypeOK, AskedIsThere,
              LeftStays, LogIsKnown, CopyIsAsked, RunsOnDatabase
<1>2. CASE InstallCopy
  BY <1>2 DEF InstallCopy, shelf, counts, history, RestoreInv, RestoreTypeOK, AskedIsThere,
              LeftStays, LogIsKnown, CopyIsAsked, RunsOnDatabase
<1>3. CASE InspectInstalled
  <2>1. /\ active = backup[marker.backup] /\ marker # NoMarker /\ active # NoFile
        /\ active \in Database
    BY <1>3 DEF InspectInstalled, RestoreInv, RestoreTypeOK, CopyIsAsked, AskedIsThere
  <2>2. /\ active' \in Database
        /\ active' = active \/ (logKept /\ active'.data = Mixed)
    BY <1>3, <2>1, OpenedAre DEF InspectInstalled, RestoreInv, LogIsKnown
  <2>3. RestoreTypeOK'
    BY <1>3, <2>2 DEF InspectInstalled, shelf, counts, history, RestoreInv, RestoreTypeOK
  <2>4. QED
    BY <1>3, <2>1, <2>2, <2>3
    DEF InspectInstalled, shelf, counts, history, RestoreInv, AskedIsThere, LeftStays, LogIsKnown,
        CopyIsAsked, RunsOnDatabase
<1>4. CASE DropRollback
  BY <1>4 DEF DropRollback, shelf, counts, history, RestoreInv, RestoreTypeOK, AskedIsThere,
              LeftStays, LogIsKnown, CopyIsAsked, RunsOnDatabase
<1>5. CASE DropMarker
  BY <1>5 DEF DropMarker, AttemptEnds, files, shelf, counts, RestoreInv, RestoreTypeOK,
              AskedIsThere, LeftStays, LogIsKnown, CopyIsAsked, RunsOnDatabase
<1>6. QED
  BY <1>1, <1>2, <1>3, <1>4, <1>5

\* Whatever a failed restore leaves, the marker is there to ask for it again.
LEMMA UndoingKeepsInv ==
  ASSUME RestoreInv, UndoRestore \/ UndoIsCut
  PROVE  RestoreInv'
<1>1. CASE UndoRestore
  <2>1. faults' \in 0..MaxFaults
    BY <1>1, RestoreAssumption DEF UndoRestore, RestoreInv, RestoreTypeOK
  <2>2. /\ active' \in {active, rollback, NoFile} /\ rollback' \in {rollback, NoFile}
        /\ temp' \in {temp, NoFile} /\ boot' = "starting" /\ ~moved' /\ ~logKept'
        /\ moved' \in BOOLEAN /\ logKept' \in BOOLEAN
        /\ UNCHANGED <<wal, backup, made, marker, written, left>>
    BY <1>1 DEF UndoRestore, AttemptEnds, shelf
  <2>3. RestoreTypeOK'
    BY <2>1, <2>2 DEF RestoreInv, RestoreTypeOK
  <2>4. boot \notin {"running", "starting"}
    BY <1>1 DEF UndoRestore, InTry
  <2>5. QED
    BY <2>2, <2>3, <2>4 DEF RestoreInv, AskedIsThere, LeftStays, LogIsKnown, CopyIsAsked,
                            RunsOnDatabase
<1>2. CASE UndoIsCut
  <2>1. faults' \in 0..MaxFaults
    BY <1>2, RestoreAssumption DEF UndoIsCut, RestoreInv, RestoreTypeOK
  <2>2. /\ active' \in {active, rollback, NoFile} /\ rollback' \in {rollback, NoFile}
        /\ temp' \in {temp, NoFile} /\ boot' = "starting" /\ ~moved' /\ ~logKept'
        /\ moved' \in BOOLEAN /\ logKept' \in BOOLEAN
        /\ UNCHANGED <<wal, backup, made, marker, written, left>>
    BY <1>2 DEF UndoIsCut, AttemptEnds, shelf
  <2>3. RestoreTypeOK'
    BY <2>1, <2>2 DEF RestoreInv, RestoreTypeOK
  <2>4. boot \notin {"running", "starting"}
    BY <1>2 DEF UndoIsCut, InTry
  <2>5. QED
    BY <2>2, <2>3, <2>4 DEF RestoreInv, AskedIsThere, LeftStays, LogIsKnown, CopyIsAsked,
                            RunsOnDatabase
<1>3. QED
  BY <1>1, <1>2

LEMMA RestoreNextKeepsInv ==
  ASSUME RestoreInv, [RestoreNext]_restoreVars
  PROVE  RestoreInv'
<1>1. CASE UNCHANGED restoreVars
  BY <1>1 DEF restoreVars, files, shelf, counts, history, RestoreInv, RestoreTypeOK, AskedIsThere,
              LeftStays, LogIsKnown, CopyIsAsked, RunsOnDatabase
<1>2. CASE RestoreNext
  BY <1>2, StoreWritesKeepsInv, CreateBackupKeepsInv, PrepareRestoreKeepsInv,
     CrashInPrepareKeepsInv, StoppingKeepsInv, OpenStoreKeepsInv, StartingKeepsInv,
     InstallingKeepsInv, UndoingKeepsInv
  DEF RestoreNext
<1>3. QED
  BY <1>1, <1>2

\* Only two steps start the server.
LEMMA RestoreStepOpensLeftOrAsked ==
  ASSUME RestoreInv, [RestoreNext]_restoreVars, boot # "running", boot' = "running"
  PROVE  IF marker = NoMarker THEN active' = left
         ELSE active' = backup[marker.backup] \/ (logKept /\ active'.data = Mixed)
<1>1. OpenStore \/ DropMarker
  BY DEF RestoreNext, restoreVars, StoreWrites, CreateBackup, StopServer, KillServer, Killed,
         PrepareRestore, CanRestore, CrashInPrepare, CheckMarker, CleanUp, CleanUpIsCut,
         CopyBackup, CopyFails, MoveActive, InstallCopy, InspectInstalled, DropRollback,
         UndoRestore, UndoIsCut, CrashAtStart
<1>2. CASE OpenStore
  BY <1>2, OpenStoreOpensLeft DEF OpenStore
<1>3. CASE DropMarker
  BY <1>3 DEF DropMarker, files, RestoreInv, AskedIsThere, CopyIsAsked
<1>4. QED
  BY <1>1, <1>2, <1>3

(* A running server has a whole database, and so does every backup file.   *)
THEOREM RestoreTypeCorrect == RestoreSpec => []RestoreTypeOK
<1>1. RestoreInv => RestoreTypeOK
  BY DEF RestoreInv
<1>2. QED
  BY <1>1, RestoreInitKeepsInv, RestoreNextKeepsInv, PTL DEF RestoreSpec

(* Whatever call on the file system fails and wherever the process ends,   *)
(* a start opens the database that was left, with its log, or the backup   *)
(* that was asked for, for any number of backups, writes, failures and     *)
(* restarts; it opens that backup with the log of a killed server over it  *)
(* only where the removal of that log failed in the same attempt.          *)
THEOREM StartsOpenLeftOrAsked == RestoreSpec => OpensLeftOrAsked
<1>1. RestoreInv /\ [RestoreNext]_restoreVars =>
        [boot # "running" /\ boot' = "running" =>
           IF marker = NoMarker THEN active' = left
           ELSE active' = backup[marker.backup] \/ (logKept /\ active'.data = Mixed)
        ]_restoreVars
  BY RestoreStepOpensLeftOrAsked
<1>2. QED
  BY <1>1, RestoreInitKeepsInv, RestoreNextKeepsInv, PTL DEF RestoreSpec, OpensLeftOrAsked


-----------------------------------------------------------------------------
(* The approvals of returns.                                               *)

ReturnMade ==
  [request : ReturnRequest, sale : SoldSale, session : LoginSession,
   approval : ApprovalToken \union {NoApproval}, by : Person]

ApprovalsTyped ==
  /\ ApprovalTypeOK
  /\ accepted \in Seq(ReturnMade)
  /\ \A s \in LoginSession, r \in ReturnRequest : <<s, r>> \in arrived => body[r] \in ReturnBody

\* What may be used, and what was used, was given.
SpentWasGiven ==
  /\ \A t \in kept : grants[t] # NoApproval
  /\ \A n \in Approved : grants[accepted[n].approval] # NoApproval

ApprovalInv == ApprovalsTyped /\ SpentWasGiven /\ EachPaysOnce /\ EachFitsItsGrant

LEMMA ApprovalInitKeepsInv == ApprovalInit => ApprovalInv
  BY ApprovalAssumption
  DEF ApprovalInit, ApprovalInv, ApprovalsTyped, ApprovalTypeOK, SpentWasGiven, EachPaysOnce,
      EachFitsItsGrant, Approved, Person, ReturnMade

\* Nothing that is spent or given changes, and no more may be used than before.
LEMMA NothingSpentKeepsInv ==
  ASSUME ApprovalInv, ApprovalsTyped', kept' \subseteq kept, UNCHANGED <<grants, accepted>>
  PROVE  ApprovalInv'
  BY DEF ApprovalInv, SpentWasGiven, EachPaysOnce, EachFitsItsGrant, Approved

LEMMA RequestKeepsTyped ==
  ASSUME ApprovalsTyped, NEW s \in LoginSession, NEW r \in ReturnRequest,
         AnswerOnly(s, r) \/ \E content \in ReturnBody : AskReturn(s, r, content)
  PROVE  ApprovalsTyped' /\ UNCHANGED <<kept, grants, accepted>>
<1> USE DEF ApprovalsTyped, ApprovalTypeOK, returnsMade, approvals, rights
<1>1. CASE AnswerOnly(s, r)
  BY <1>1 DEF AnswerOnly, Read
<1>2. ASSUME NEW content \in ReturnBody, AskReturn(s, r, content)
      PROVE  ApprovalsTyped' /\ UNCHANGED <<kept, grants, accepted>>
  BY <1>2 DEF AskReturn, Arrive
<1>3. QED
  BY <1>1, <1>2

LEMMA SessionStepKeepsTyped ==
  ASSUME ApprovalsTyped, NEW s \in LoginSession,
         SignIn(s) \/ EndSession(s) \/ AskApproval(s) \/ RefuseApproval(s)
  PROVE  ApprovalsTyped' /\ UNCHANGED <<kept, grants, accepted>>
<1> USE DEF ApprovalsTyped, ApprovalTypeOK, returnsMade, approvals, rights, calls
<1>1. CASE SignIn(s) \/ EndSession(s)
  BY <1>1 DEF SignIn, EndSession
<1>2. CASE AskApproval(s) \/ RefuseApproval(s)
  BY <1>2, ApprovalAssumption DEF AskApproval, RefuseApproval, Arrive
<1>3. QED
  BY <1>1, <1>2

LEMMA ShopStepKeepsTyped ==
  ASSUME ApprovalsTyped,
         \/ \E u \in Person : ChangeRights(u)
         \/ \E s \in SoldSale : CancelSoldSale(s)
         \/ \E t \in ApprovalToken : Expire(t)
         \/ \E r \in ReturnRequest : RecordReturn(r) \/ FailReturn(r)
         \/ EndServer
  PROVE  ApprovalsTyped' /\ kept' \subseteq kept /\ UNCHANGED <<grants, accepted>>
<1> USE DEF ApprovalsTyped, ApprovalTypeOK, returnsMade, approvals, rights, calls, Upset
<1>1. ASSUME NEW u \in Person, ChangeRights(u)
      PROVE  ApprovalsTyped' /\ kept' \subseteq kept /\ UNCHANGED <<grants, accepted>>
  BY <1>1 DEF ChangeRights, SymDiff
<1>2. ASSUME NEW s \in SoldSale, CancelSoldSale(s)
      PROVE  ApprovalsTyped' /\ kept' \subseteq kept /\ UNCHANGED <<grants, accepted>>
  BY <1>2 DEF CancelSoldSale
<1>3. ASSUME NEW t \in ApprovalToken, Expire(t)
      PROVE  ApprovalsTyped' /\ kept' \subseteq kept /\ UNCHANGED <<grants, accepted>>
  BY <1>3 DEF Expire
<1>4. ASSUME NEW r \in ReturnRequest, RecordReturn(r) \/ FailReturn(r)
      PROVE  ApprovalsTyped' /\ kept' \subseteq kept /\ UNCHANGED <<grants, accepted>>
  BY <1>4 DEF RecordReturn, FailReturn
<1>5. CASE EndServer
  BY <1>5 DEF EndServer
<1>6. QED
  BY <1>1, <1>2, <1>3, <1>4, <1>5

\* No return was paid with an approval that was not given before.
LEMMA AuthorizeKeepsInv ==
  ASSUME ApprovalInv, NEW s \in LoginSession, NEW which \in SoldSale, NEW u \in Person,
         NEW t \in ApprovalToken, Authorize(s, which, u, t)
  PROVE  ApprovalInv'
<1> DEFINE given == [session |-> s, sale |-> which, by |-> u]
<1> USE DEF ApprovalInv, ApprovalsTyped, ApprovalTypeOK, returnsMade, rights
<1>1. given \in Grant /\ given # NoApproval
  BY ApprovalAssumption DEF Grant
<1>2. ApprovalsTyped'
  BY <1>1, ApprovalAssumption DEF Authorize
<1>3. \A n \in Approved : accepted[n].approval \in ApprovalToken \ {t}
  <2>1. \A n \in DOMAIN accepted : accepted[n] \in ReturnMade
    OBVIOUS
  <2>2. \A n \in Approved : accepted[n].approval \in ApprovalToken
    BY <2>1 DEF Approved, ReturnMade
  <2>3. QED
    BY <2>2 DEF Authorize, SpentWasGiven
<1>4. Approved' = Approved
  BY DEF Authorize, Approved
<1>5. QED
  BY <1>1, <1>2, <1>3, <1>4 DEF Authorize, SpentWasGiven, EachPaysOnce, EachFitsItsGrant

\* One that needs no approval.
LEMMA ReturnAloneKeepsInv ==
  ASSUME ApprovalInv, NEW s \in LoginSession, NEW r \in ReturnRequest, ReturnAlone(s, r)
  PROVE  ApprovalInv'
<1> DEFINE new == [request |-> r, sale |-> body[r].sale, session |-> s,
                   approval |-> NoApproval, by |-> SessionUser[s]]
<1> USE DEF ApprovalInv, ApprovalsTyped, ApprovalTypeOK, rights, approvals
<1>1. new \in ReturnMade
  BY DEF ReturnAlone, Read, ReturnBody, ReturnMade, Person
<1>2. accepted' = Append(accepted, new)
  BY DEF ReturnAlone, MakeReturn
<1>3. ApprovalsTyped'
  BY <1>1, <1>2 DEF ReturnAlone, Read, MakeReturn
<1>4. /\ Approved' = Approved
      /\ \A n \in Approved : accepted'[n] = accepted[n]
      /\ UNCHANGED <<grants, kept>>
  BY <1>1, <1>2 DEF Approved, ReturnAlone
<1>5. SpentWasGiven' /\ EachPaysOnce'
  BY <1>4 DEF SpentWasGiven, EachPaysOnce
<1>6. EachFitsItsGrant'
  BY <1>4 DEF EachFitsItsGrant
<1>7. QED
  BY <1>3, <1>5, <1>6

\* It may be used, so that it has paid for nothing yet; then it may not.
LEMMA ReturnApprovedKeepsInv ==
  ASSUME ApprovalInv, NEW s \in LoginSession, NEW r \in ReturnRequest, ReturnApproved(s, r)
  PROVE  ApprovalInv'
<1> DEFINE t == body[r].approval
           new == [request |-> r, sale |-> body[r].sale, session |-> s,
                   approval |-> t, by |-> grants[t].by]
<1> USE DEF ApprovalInv, ApprovalsTyped, ApprovalTypeOK, rights
<1>1. /\ t \in kept /\ t \in ApprovalToken /\ t # NoApproval
      /\ grants[t] \in Grant
      /\ body[r] \in ReturnBody
  BY ApprovalAssumption DEF ReturnApproved, Read, SpentWasGiven
<1>2. new \in ReturnMade
  BY <1>1 DEF ReturnBody, ReturnMade, Grant
<1>3. \A n \in Approved : accepted[n].approval # t
  BY <1>1 DEF EachPaysOnce
<1>4. /\ kept' = kept \ {t} /\ UNCHANGED grants
      /\ grants[t].session = s /\ grants[t].sale = body[r].sale
  BY DEF ReturnApproved, Spend, Matches
<1>5. CASE UNCHANGED returnsMade
  <2>1. ApprovalsTyped' /\ UNCHANGED accepted
    BY <1>5 DEF ReturnApproved, Read, returnsMade, Spend
  <2>2. QED
    BY <1>4, <2>1, NothingSpentKeepsInv
<1>6. CASE MakeReturn(s, r, t, grants[t].by)
  <2>1. accepted' = Append(accepted, new)
    BY <1>6 DEF MakeReturn
  <2>2. ApprovalsTyped'
    BY <1>2, <1>6, <2>1 DEF ReturnApproved, Read, MakeReturn, Spend
  <2> DEFINE last == Len(accepted) + 1
  <2>3. /\ Approved' = Approved \union {last}
        /\ last \notin Approved
        /\ \A n \in Approved : accepted'[n] = accepted[n]
        /\ accepted'[last] = new
    BY <1>1, <1>2, <2>1 DEF Approved
  <2> HIDE DEF last
  <2>4. SpentWasGiven'
    BY <1>1, <1>4, <2>3 DEF SpentWasGiven
  <2>5. EachPaysOnce'
    BY <1>3, <1>4, <2>3 DEF EachPaysOnce
  <2>6. EachFitsItsGrant'
    BY <1>4, <2>3 DEF EachFitsItsGrant
  <2>7. QED
    BY <2>2, <2>4, <2>5, <2>6
<1>7. QED
  BY <1>5, <1>6 DEF ReturnApproved

LEMMA ApprovalNextKeepsInv ==
  ASSUME ApprovalInv, [ApprovalNext]_approvalVars
  PROVE  ApprovalInv'
<1>1. ApprovalsTyped
  BY DEF ApprovalInv
<1>2. CASE UNCHANGED approvalVars
  <2>1. ApprovalsTyped' /\ UNCHANGED <<kept, grants, accepted>>
    BY <1>1, <1>2 DEF approvalVars, rights, approvals, calls, returnsMade, ApprovalsTyped,
                      ApprovalTypeOK
  <2>2. QED
    BY <2>1, NothingSpentKeepsInv
<1>3. CASE ApprovalNext
  BY <1>1, <1>3, NothingSpentKeepsInv, RequestKeepsTyped, SessionStepKeepsTyped,
     ShopStepKeepsTyped, AuthorizeKeepsInv, ReturnAloneKeepsInv, ReturnApprovedKeepsInv
  DEF ApprovalNext
<1>4. QED
  BY <1>2, <1>3

(* Every return says who asked for it, for which sale, and by which right.  *)
THEOREM ApprovalTypeCorrect == ApprovalSpec => []ApprovalTypeOK
<1>1. ApprovalInv => ApprovalTypeOK
  BY DEF ApprovalInv, ApprovalsTyped
<1>2. QED
  BY <1>1, ApprovalInitKeepsInv, ApprovalNextKeepsInv, PTL DEF ApprovalSpec

(* For any number of sessions, sales, requests and approvals, an approval  *)
(* pays for one return, of the sale and the session it was given for.      *)
THEOREM ApprovalsStaySpent == ApprovalSpec => []ApprovalsAreSpent
<1>1. ApprovalInv => ApprovalsAreSpent
  BY DEF ApprovalInv, ApprovalsAreSpent
<1>2. QED
  BY <1>1, ApprovalInitKeepsInv, ApprovalNextKeepsInv, PTL DEF ApprovalSpec

-----------------------------------------------------------------------------
(* The users and their profiles.                                           *)

AccessInv == AccessTypeOK /\ AdministratorIsKept

LEMMA AccessInitKeepsInv == AccessInit => AccessInv
<1> SUFFICES ASSUME AccessInit
             PROVE  AccessInv
  OBVIOUS
<1>1. Users = {}
  BY DEF AccessInit, Users
<1>2. AccessTypeOK
  <2>1. setups \in 0..asked /\ asked \in 0..MaxSetups /\ unbound \in 0..MaxFaultyBinds
    BY AccessAssumption DEF AccessInit
  <2>2. licensed \in BOOLEAN /\ activated \in BOOLEAN
    BY DEF AccessInit
  <2>3. QED
    BY <1>1, <2>1, <2>2 DEF AccessInit, AccessTypeOK
<1>3. AdministratorIsKept
  BY <1>1 DEF AccessInit, AdministratorIsKept
<1>4. QED
  BY <1>2, <1>3 DEF AccessInv

\* More than one leaves one other than u.
LEMMA AnotherAdministrator ==
  ASSUME NEW u, Cardinality(Administrators) > 1
  PROVE  \E v \in Administrators : v # u
<1>1. CASE Administrators \subseteq {u}
  <2>1. Cardinality({}) = 0 /\ Cardinality({u}) = 1
    BY FS_EmptySet, FS_Singleton
  <2>2. Administrators = {} \/ Administrators = {u}
    BY <1>1
  <2>3. QED
    BY <2>1, <2>2
<1>2. QED
  BY <1>1

LEMMA FirstAdministratorKeeps ==
  ASSUME AccessInv, NEW u \in User, FirstAdministrator(u)
  PROVE  /\ Users' = Users \union {u} /\ u \in Administrators'
         /\ Administrators \subseteq Administrators'
         /\ activeUsers' \subseteq Users' /\ mailOf' \in User \union {NoUser}
         /\ \A v \in Users' : profileOf'[v] \in profiles \union {Administrator}
         /\ UNCHANGED <<profiles, activeProfiles, licensed, activated, asked>>
  BY DEF FirstAdministrator, MailTo, With, Users, Administrators, roles, AccessInv, AccessTypeOK,
         AdministratorIsKept

LEMMA SetupKeepsInv ==
  ASSUME AccessInv, NEW u \in User, FinishSetup(u) \/ CutBeforeBind(u)
  PROVE  AccessInv'
<1>1. FirstAdministrator(u)
  BY DEF FinishSetup, CutBeforeBind
<1>2. /\ setups > 0 /\ setups' \in 0..asked /\ unbound' \in 0..MaxFaultyBinds
      /\ owner' = u \/ owner' = owner
  BY <1>1, AccessAssumption
  DEF FinishSetup, CutBeforeBind, FirstAdministrator, AccessInv, AccessTypeOK
<1>3. QED
  BY <1>1, <1>2, FirstAdministratorKeeps DEF AccessInv, AccessTypeOK, AdministratorIsKept

LEMMA RequestSetupKeepsInv ==
  ASSUME AccessInv, VerifyActivation \/ AskSetup
  PROVE  AccessInv'
<1>1. /\ UNCHANGED <<profileOf, activeUsers, roles, licensed, owner, unbound>>
      /\ mailOf' \in User \union {NoUser}
      /\ setups' \in 0..asked' /\ asked' \in 0..MaxSetups
  <2>1. CASE VerifyActivation
    BY <2>1 DEF VerifyActivation, setupRequests, AccessInv, AccessTypeOK
  <2>2. CASE AskSetup
    BY <2>2, AccessAssumption DEF AskSetup, people, install, AccessInv, AccessTypeOK
  <2>3. QED
    BY <2>1, <2>2
<1>2. activated' \in BOOLEAN
  BY DEF VerifyActivation, AskSetup, install, AccessInv, AccessTypeOK
<1>3. Users' = Users /\ Administrators' = Administrators
  BY <1>1 DEF Users, Administrators
<1>4. QED
  BY <1>1, <1>2, <1>3 DEF roles, AccessInv, AccessTypeOK, AdministratorIsKept

LEMMA CreateUserKeepsInv ==
  ASSUME AccessInv, NEW actor \in User, NEW u \in User, NEW profile, NEW isOn \in BOOLEAN,
         NEW has \in BOOLEAN, CreateUser(actor, u, profile, isOn, has)
  PROVE  AccessInv'
<1>1. /\ Users' = Users \union {u} /\ activeUsers \subseteq activeUsers'
      /\ \A v \in Users : profileOf'[v] = profileOf[v]
      /\ profileOf'[u] = profile /\ profile \in activeProfiles
      /\ activeUsers' \subseteq Users' /\ mailOf' \in User \union {NoUser}
  BY DEF CreateUser, MailTo, With, Users, AccessInv, AccessTypeOK
<1>2. actor \in Users /\ Administrators \subseteq Administrators'
  BY <1>1 DEF CreateUser, MayAsk, Administrators, AccessInv, AccessTypeOK
<1>3. QED
  BY <1>1, <1>2
  DEF CreateUser, roles, install, setupRequests, AccessInv, AccessTypeOK, AdministratorIsKept

\* Somebody is left, and the owner is: the change was refused otherwise.
LEMMA AdministratorsAreLeft ==
  ASSUME AccessInv, NEW u \in Users,
         UNCHANGED <<roles, install, setupRequests>>,
         mailOf' \in User \union {NoUser},
         Users' = Users, activeUsers' \subseteq Users,
         \A v \in Users \ {u} :
            profileOf'[v] = profileOf[v] /\ (v \in activeUsers' <=> v \in activeUsers),
         profileOf'[u] \in profiles \union {Administrator},
         u = owner => u \in Administrators',
         u \in Administrators \ Administrators' => Cardinality(Administrators) > 1
  PROVE  AccessInv'
<1>1. \A v \in Users \ {u} : v \in Administrators <=> v \in Administrators'
  BY DEF Administrators
<1>2. \E v \in Administrators : v # u \/ v \in Administrators'
  BY AnotherAdministrator DEF AccessInv, AdministratorIsKept
<1>3. Administrators \subseteq Users /\ Administrators' \subseteq Users
  BY DEF Administrators, AccessInv, AccessTypeOK
<1>4. Administrators' # {}
  BY <1>1, <1>2, <1>3
<1>5. owner # NoUser => owner \in Administrators'
  BY <1>1, <1>3 DEF AccessInv, AdministratorIsKept
<1>6. QED
  BY <1>4, <1>5
  DEF roles, install, setupRequests, AccessInv, AccessTypeOK, AdministratorIsKept

LEMMA EditUserKeepsInv ==
  ASSUME AccessInv, NEW actor \in User, NEW u \in User, NEW profile, NEW isOn \in BOOLEAN,
         NEW has \in BOOLEAN, EditUser(actor, u, profile, isOn, has)
  PROVE  AccessInv'
<1>1. /\ u \in Users /\ Users' = Users /\ mailOf' \in User \union {NoUser}
      /\ activeUsers' = (IF isOn THEN activeUsers \union {u} ELSE activeUsers \ {u})
      /\ profileOf' = [profileOf EXCEPT ![u] = profile]
      /\ profile \in profiles \union {Administrator}
      /\ UNCHANGED <<roles, install, setupRequests>>
  BY DEF EditUser, MailTo, Users, AccessInv, AccessTypeOK
<1>2. u \in Administrators' <=> profile = Administrator /\ isOn
  BY <1>1 DEF Administrators, Users
<1>3. /\ u = owner => u \in Administrators'
      /\ u \in Administrators \ Administrators' => Cardinality(Administrators) > 1
  BY <1>2 DEF EditUser, KeepsOwner, KeepsOne
<1>4. /\ activeUsers' \subseteq Users
      /\ \A v \in Users \ {u} :
            profileOf'[v] = profileOf[v] /\ (v \in activeUsers' <=> v \in activeUsers)
      /\ profileOf'[u] \in profiles \union {Administrator}
  BY <1>1 DEF Users, AccessInv, AccessTypeOK
<1>5. QED
  BY <1>1, <1>3, <1>4, AdministratorsAreLeft

LEMMA RemoveUserKeepsInv ==
  ASSUME AccessInv, NEW actor \in User, NEW u \in User, RemoveUser(actor, u)
  PROVE  AccessInv'
<1>1. /\ u \in Users /\ activeUsers' = activeUsers \ {u}
      /\ UNCHANGED <<profileOf, mailOf, roles, install, setupRequests>>
  BY DEF RemoveUser, AccessInv, AccessTypeOK
<1>2. u # owner
  BY DEF RemoveUser, KeepsOwner
<1>3. u \in Administrators => Cardinality(Administrators) > 1
  BY DEF RemoveUser, KeepsOne
<1>4. /\ Users' = Users /\ activeUsers' \subseteq Users /\ mailOf' \in User \union {NoUser}
      /\ \A v \in Users \ {u} :
            profileOf'[v] = profileOf[v] /\ (v \in activeUsers' <=> v \in activeUsers)
      /\ profileOf'[u] \in profiles \union {Administrator}
  BY <1>1 DEF Users, AccessInv, AccessTypeOK, AdministratorIsKept
<1>5. QED
  BY <1>1, <1>2, <1>3, <1>4, AdministratorsAreLeft

LEMMA AssignProfileKeepsInv ==
  ASSUME AccessInv, NEW actor \in User, NEW u \in User, NEW profile,
         AssignProfile(actor, u, profile)
  PROVE  AccessInv'
<1>1. /\ u \in Users /\ Users' = Users /\ mailOf' \in User \union {NoUser}
      /\ profileOf' = [profileOf EXCEPT ![u] = profile]
      /\ profile \in profiles \union {Administrator}
      /\ UNCHANGED <<activeUsers, roles, install, setupRequests>>
  BY DEF AssignProfile, Users, AccessInv, AccessTypeOK
<1>2. u \in Administrators' <=> profile = Administrator /\ u \in activeUsers
  BY <1>1 DEF Administrators, Users
<1>3. /\ u = owner => u \in Administrators'
      /\ u \in Administrators \ Administrators' => Cardinality(Administrators) > 1
  BY <1>2, AccessAssumption
  DEF AssignProfile, LeavesOne, Administrators, AccessInv, AccessTypeOK, AdministratorIsKept
<1>4. /\ activeUsers' \subseteq Users
      /\ \A v \in Users \ {u} :
            profileOf'[v] = profileOf[v] /\ (v \in activeUsers' <=> v \in activeUsers)
      /\ profileOf'[u] \in profiles \union {Administrator}
  BY <1>1 DEF Users, AccessInv, AccessTypeOK
<1>5. QED
  BY <1>1, <1>3, <1>4, AdministratorsAreLeft

\* Nobody is in a profile that goes.
LEMMA ProfileStepKeepsInv ==
  ASSUME AccessInv, NEW actor \in User, NEW p \in Profile,
         \/ CreateProfile(actor, p) \/ DeleteProfile(actor, p)
         \/ \E isOn \in BOOLEAN : UpdateProfile(actor, p, isOn)
  PROVE  AccessInv'
  BY AccessAssumption
  DEF CreateProfile, DeleteProfile, UpdateProfile, people, install, setupRequests, Users,
      Administrators, AccessInv, AccessTypeOK, AdministratorIsKept

LEMMA AccessNextKeepsInv ==
  ASSUME AccessInv, [AccessNext]_accessVars
  PROVE  AccessInv'
<1>1. CASE UNCHANGED accessVars
  BY <1>1 DEF accessVars, people, roles, install, setupRequests, Users, Administrators,
              AccessInv, AccessTypeOK, AdministratorIsKept
<1>2. CASE AccessNext
  BY <1>2, RequestSetupKeepsInv, SetupKeepsInv, CreateUserKeepsInv, EditUserKeepsInv,
     RemoveUserKeepsInv, AssignProfileKeepsInv, ProfileStepKeepsInv
  DEF AccessNext
<1>3. QED
  BY <1>1, <1>2

(* Whoever signs in is a user of the shop.                                 *)
THEOREM AccessTypeCorrect == AccessSpec => []AccessTypeOK
<1>1. AccessInv => AccessTypeOK
  BY DEF AccessInv
<1>2. QED
  BY <1>1, AccessInitKeepsInv, AccessNextKeepsInv, PTL DEF AccessSpec

(* However many users, setups and profiles there are, a shop with users    *)
(* has an active administrator, and its owner is one.                      *)
THEOREM AdministratorStays == AccessSpec => []AdministratorIsKept
<1>1. AccessInv => AdministratorIsKept
  BY DEF AccessInv
<1>2. QED
  BY <1>1, AccessInitKeepsInv, AccessNextKeepsInv, PTL DEF AccessSpec

-----------------------------------------------------------------------------
(* Recurring entries.                                                      *)

\* The months a rule asks for, and that its pending date is in one of them.
FirstMonth ==
  MonthOf(rule.start) + (IF DueFor(MonthOf(rule.start), rule.day) < rule.start THEN 1 ELSE 0)

AskedMonth(m) == m \in Month /\ m >= FirstMonth /\ (m - FirstMonth) % rule.interval = 0

RuleOK ==
  rule \in [start : StartDate, day : DueDay, interval : Interval,
            limit : MaxOccurrences \union {NoLimit}, last : LastDate]

PendingIsAsked == \E m \in Month : AskedMonth(m) /\ nextDue = DueFor(m, rule.day)

\* What was made is what was asked for before the pending date, and it perhaps.
MadeInOrder ==
  /\ occurrences \subseteq Asked /\ \A date \in occurrences : date <= nextDue
  /\ \A date \in Asked : date < nextDue => date \in occurrences
  /\ \A date \in occurrences : entriesDue[date] = 1

\* The count of the rule is late by the occurrence that was cut.
CountIsKept ==
  /\ IsFiniteSet(occurrences)
  /\ Cardinality(occurrences \ {nextDue}) = generated
  /\ rule.limit # NoLimit =>
       generated <= rule.limit /\ (nextDue \in occurrences => generated < rule.limit)

RecurrenceInv == RuleOK /\ RecurrenceTypeOK /\ PendingIsAsked /\ MadeInOrder /\ CountIsKept

LEMMA RuleValues ==
  ASSUME RuleOK
  PROVE  /\ rule.day \in 1..31 /\ rule.interval \in 1..12
         /\ rule.limit # NoLimit => rule.limit \in Nat \ {0}
         /\ \A m \in Month : m \in Nat
<1>1. rule.day \in DueDay /\ rule.interval \in Interval /\ rule.limit \in MaxOccurrences \union {NoLimit}
  BY DEF RuleOK
<1>2. \A m \in Month : m \in Nat
  BY RecurrenceAssumption DEF Month
<1>3. QED
  BY <1>1, <1>2, RecurrenceAssumption

LEMMA DueForIsInItsMonth ==
  ASSUME NEW m \in Month, NEW day \in 1..31
  PROVE  /\ m \in Nat /\ DueFor(m, day) \in 100 * m + 1 .. 100 * m + 31
         /\ DueFor(m, day) \in Nat /\ MonthOf(DueFor(m, day)) = m
<1>1. m \in Nat /\ MonthLength[m] \in 28..31
  BY RecurrenceAssumption DEF Month
<1>2. DueFor(m, day) \in 100 * m + 1 .. 100 * m + 31
  BY <1>1 DEF DueFor
<1>3. \A n \in 100 * m + 1 .. 100 * m + 31 : n \div 100 = m
  BY <1>1
<1>4. QED
  BY <1>1, <1>2, <1>3 DEF MonthOf

LEMMA FirstMonthIsModelled ==
  ASSUME RuleOK
  PROVE  /\ FirstMonth \in Nat /\ AskedMonth(FirstMonth)
         /\ FirstDue(rule.start, rule.day) = DueFor(FirstMonth, rule.day)
<1> DEFINE month == MonthOf(rule.start)
<1>1. /\ rule.start \in Nat /\ rule.day \in 1..31 /\ rule.interval \in 1..12
      /\ month \in Month /\ month + 1 \in Month
  BY RecurrenceAssumption DEF RuleOK
<1>2. month \in Nat /\ DueFor(month, rule.day) \in Nat /\ MonthOf(DueFor(month, rule.day)) = month
  BY <1>1, DueForIsInItsMonth
<1>3. FirstMonth \in Month /\ FirstMonth \in Nat
  BY <1>1, <1>2 DEF FirstMonth
<1>4. AskedMonth(FirstMonth)
  BY <1>1, <1>3 DEF AskedMonth
<1>5. FirstDue(rule.start, rule.day) = DueFor(FirstMonth, rule.day)
  BY <1>1, <1>2 DEF FirstDue, NextMonthDue, FirstMonth
<1>6. QED
  BY <1>3, <1>4, <1>5

LEMMA AskedByMonth ==
  ASSUME RuleOK
  PROVE  \A date : date \in Asked <=>
            \E m : AskedMonth(m) /\ date = DueFor(m, rule.day) /\ ~Past(date)
  BY DEF Asked, AskedMonth, FirstMonth

\* No date asked for is skipped from one to the next.
LEMMA NothingBetween ==
  ASSUME RuleOK, NEW m, AskedMonth(m), NEW n, AskedMonth(n), m + rule.interval \in Month
  PROVE  /\ AskedMonth(m + rule.interval)
         /\ m < n => m + rule.interval <= n
<1>1. /\ rule.interval \in 1..12 /\ FirstMonth \in Nat
      /\ m \in Nat /\ n \in Nat /\ m >= FirstMonth /\ n >= FirstMonth
  BY RuleValues, FirstMonthIsModelled DEF AskedMonth
<1>2. PICK a \in Nat : a = m - FirstMonth
  BY <1>1
<1>3. PICK b \in Nat : b = n - FirstMonth
  BY <1>1
<1>4. \A i \in 1..12 : a % i = 0 /\ b % i = 0 => (a + i) % i = 0 /\ (a < b => a + i <= b)
  <2>1. ASSUME NEW i \in 1..12, a % i = 0, b % i = 0
        PROVE  (a + i) % i = 0 /\ (a < b => a + i <= b)
    <3>1. CASE i = 1
      BY <2>1, <3>1
    <3>2. CASE i = 2
      BY <2>1, <3>2
    <3>3. CASE i = 3
      BY <2>1, <3>3
    <3>4. CASE i = 4
      BY <2>1, <3>4
    <3>5. CASE i = 5
      BY <2>1, <3>5
    <3>6. CASE i = 6
      BY <2>1, <3>6
    <3>7. CASE i = 7
      BY <2>1, <3>7
    <3>8. CASE i = 8
      BY <2>1, <3>8
    <3>9. CASE i = 9
      BY <2>1, <3>9
    <3>10. CASE i = 10
      BY <2>1, <3>10
    <3>11. CASE i = 11
      BY <2>1, <3>11
    <3>12. CASE i = 12
      BY <2>1, <3>12
    <3>13. QED
      BY <3>1, <3>2, <3>3, <3>4, <3>5, <3>6, <3>7, <3>8, <3>9, <3>10, <3>11, <3>12
  <2>2. QED
    BY <2>1
<1>5. m + rule.interval - FirstMonth = a + rule.interval
  BY <1>1, <1>2
<1>6. a % rule.interval = 0 /\ b % rule.interval = 0
  BY <1>2, <1>3 DEF AskedMonth
<1>7. (a + rule.interval) % rule.interval = 0 /\ (a < b => a + rule.interval <= b)
  BY <1>1, <1>4, <1>6
<1>8. AskedMonth(m + rule.interval)
  BY <1>1, <1>5, <1>7 DEF AskedMonth
<1>9. m < n => m + rule.interval <= n
  BY <1>1, <1>2, <1>3, <1>7
<1>10. QED
  BY <1>8, <1>9

LEMMA DueIsMonotonic ==
  ASSUME RuleOK, NEW m, AskedMonth(m), NEW n, AskedMonth(n)
  PROVE  DueFor(m, rule.day) < DueFor(n, rule.day) <=> m < n
<1>1. m \in Nat /\ DueFor(m, rule.day) \in 100 * m + 1 .. 100 * m + 31
  BY RuleValues, DueForIsInItsMonth DEF AskedMonth
<1>2. n \in Nat /\ DueFor(n, rule.day) \in 100 * n + 1 .. 100 * n + 31
  BY RuleValues, DueForIsInItsMonth DEF AskedMonth
<1>3. QED
  BY <1>1, <1>2

LEMMA RecurrenceInitKeepsInv == RecurrenceInit => RecurrenceInv
<1> SUFFICES ASSUME RecurrenceInit
             PROVE  RecurrenceInv
  OBVIOUS
<1>1. RuleOK
  BY DEF RecurrenceInit, RuleOK
<1>2. AskedMonth(FirstMonth) /\ nextDue = DueFor(FirstMonth, rule.day)
  BY <1>1, FirstMonthIsModelled DEF RecurrenceInit
<1>3. nextDue \in Nat
  BY <1>1, <1>2, DueForIsInItsMonth, RecurrenceAssumption DEF RuleOK, AskedMonth
<1>4. \A date \in Asked : ~(date < nextDue)
  <2>1. ASSUME NEW n, AskedMonth(n)
        PROVE  ~(DueFor(n, rule.day) < nextDue)
    <3>1. n >= FirstMonth /\ n \in Nat /\ FirstMonth \in Nat
      BY <1>1, <2>1, FirstMonthIsModelled, RecurrenceAssumption DEF AskedMonth, Month
    <3>2. QED
      BY <1>1, <1>2, <2>1, <3>1, DueIsMonotonic
  <2>2. QED
    BY <1>1, <2>1, AskedByMonth
<1>5. CountIsKept
  <2>1. occurrences = {} /\ occurrences \ {nextDue} = {} /\ generated = 0
    BY DEF RecurrenceInit
  <2>2. rule.limit # NoLimit => 0 <= rule.limit
    BY <1>1, RuleValues
  <2>3. QED
    BY <2>1, <2>2, FS_EmptySet DEF CountIsKept
<1>6. MadeInOrder
  BY <1>4 DEF RecurrenceInit, MadeInOrder
<1>7. RecurrenceTypeOK
  BY <1>3, RecurrenceAssumption DEF RecurrenceInit, RecurrenceTypeOK
<1>8. QED
  BY <1>1, <1>2, <1>5, <1>6, <1>7 DEF RecurrenceInv, PendingIsAsked, AskedMonth

LEMMA StatusStepKeepsInv ==
  ASSUME RecurrenceInv, EndRule \/ \E is \in {"ACTIVE", "PAUSED", "ENDED"} : SetRuleStatus(is)
  PROVE  RecurrenceInv'
<1>1. UNCHANGED <<rule, progress, produced, cuts>> /\ ruleIs' \in {"ACTIVE", "PAUSED", "ENDED"}
  BY DEF EndRule, SetRuleStatus
<1>2. Asked' = Asked /\ FirstMonth' = FirstMonth
  BY <1>1 DEF Asked, FirstMonth, Past
<1>3. PendingIsAsked'
  BY <1>1, <1>2 DEF RecurrenceInv, PendingIsAsked, AskedMonth, progress
<1>4. QED
  BY <1>1, <1>2, <1>3
  DEF RecurrenceInv, RuleOK, RecurrenceTypeOK, MadeInOrder, CountIsKept, progress, produced

\* The pending date is made, or was: it is there once, and asked for.
LEMMA MakeTheDue ==
  ASSUME RecurrenceInv, Due, Make(nextDue)
  PROVE  /\ occurrences' = occurrences \union {nextDue} /\ nextDue \in Asked
         /\ DOMAIN entriesDue' = occurrences'
         /\ \A date \in occurrences' : entriesDue'[date] = 1
<1>1. nextDue \in Asked
  BY AskedByMonth DEF RecurrenceInv, PendingIsAsked, Due
<1>2. QED
  BY <1>1 DEF Make, produced, RecurrenceInv, RecurrenceTypeOK, MadeInOrder

LEMMA CutInGenerateKeepsInv ==
  ASSUME RecurrenceInv, CutInGenerate
  PROVE  RecurrenceInv'
<1>1. /\ UNCHANGED <<rule, ruleIs, generated, nextDue>>
      /\ Due /\ Make(nextDue) /\ cuts' \in 0..MaxCuts
  BY RecurrenceAssumption DEF CutInGenerate, progress, RecurrenceInv, RecurrenceTypeOK
<1>2. Asked' = Asked /\ FirstMonth' = FirstMonth
  BY <1>1 DEF Asked, FirstMonth, Past
<1>3. PendingIsAsked' /\ RuleOK'
  BY <1>1, <1>2 DEF RecurrenceInv, PendingIsAsked, AskedMonth, RuleOK
<1>4. RecurrenceTypeOK' /\ MadeInOrder'
  BY <1>1, <1>2, MakeTheDue DEF RecurrenceInv, RecurrenceTypeOK, MadeInOrder
<1>5. CountIsKept'
  <2>1. /\ IsFiniteSet(occurrences \union {nextDue})
        /\ (occurrences \union {nextDue}) \ {nextDue} = occurrences \ {nextDue}
    BY FS_AddElement DEF RecurrenceInv, CountIsKept
  <2>2. rule.limit # NoLimit => generated < rule.limit
    BY <1>1, RuleValues DEF Due, Reached, RecurrenceInv, RecurrenceTypeOK
  <2>3. QED
    BY <1>1, <2>1, <2>2, MakeTheDue DEF RecurrenceInv, CountIsKept
<1>6. QED
  BY <1>3, <1>4, <1>5 DEF RecurrenceInv

LEMMA GenerateDueKeepsInv ==
  ASSUME RecurrenceInv, GenerateDue
  PROVE  RecurrenceInv'
<1> DEFINE next == NextMonthDue(nextDue, rule.day, rule.interval)
<1>1. /\ UNCHANGED <<rule, cuts>> /\ Due /\ Make(nextDue)
      /\ generated' = generated + 1 /\ nextDue' = next
      /\ ruleIs' \in {"ACTIVE", "ENDED"}
  BY DEF GenerateDue
<1>2. PICK m : AskedMonth(m) /\ nextDue = DueFor(m, rule.day)
  BY DEF RecurrenceInv, PendingIsAsked
<1>3. /\ RuleOK /\ rule.day \in 1..31 /\ rule.interval \in 1..12
      /\ m \in Month /\ MonthOf(nextDue) = m /\ nextDue \in Nat
  BY <1>2, RecurrenceAssumption, DueForIsInItsMonth DEF RecurrenceInv, RuleOK, AskedMonth
<1>4. m + rule.interval \in Month /\ next = DueFor(m + rule.interval, rule.day)
  BY <1>1, <1>3 DEF Due, Within, NextMonthDue
<1>5. AskedMonth(m + rule.interval)
  BY <1>2, <1>3, <1>4, NothingBetween
<1>6. next \in Nat /\ nextDue < next
  <2>1. m < m + rule.interval
    BY <1>3, RuleValues
  <2>2. QED
    BY <1>2, <1>3, <1>4, <1>5, <2>1, DueIsMonotonic, DueForIsInItsMonth
<1>7. \A date \in Asked : date < next => date <= nextDue
  <2>1. ASSUME NEW n, AskedMonth(n), DueFor(n, rule.day) < next
        PROVE  DueFor(n, rule.day) <= nextDue
    <3>1. m \in Nat /\ n \in Nat
      BY <1>3, <2>1, RecurrenceAssumption DEF AskedMonth, Month
    <3>2. n < m + rule.interval
      BY <1>3, <1>4, <1>5, <2>1, DueIsMonotonic
    <3>3. ~(m < n)
      BY <1>2, <1>3, <1>4, <2>1, <3>1, <3>2, NothingBetween
    <3>4. ~(nextDue < DueFor(n, rule.day))
      BY <1>2, <1>3, <2>1, <3>3, DueIsMonotonic
    <3>5. DueFor(n, rule.day) \in Nat
      BY <1>3, <2>1, DueForIsInItsMonth DEF AskedMonth
    <3>6. QED
      BY <1>3, <3>4, <3>5
  <2>2. QED
    BY <1>3, <2>1, AskedByMonth
<1>8. Asked' = Asked /\ FirstMonth' = FirstMonth
  BY <1>1 DEF Asked, FirstMonth, Past
<1>9. \A date \in Asked : date \in Nat
  BY <1>3, AskedByMonth, DueForIsInItsMonth DEF AskedMonth
<1>10. MadeInOrder'
  <2>1. \A date \in Asked : date <= nextDue => date < nextDue \/ date = nextDue
    BY <1>3, <1>9
  <2>2. \A date \in occurrences' : date <= next
    BY <1>1, <1>3, <1>6, <1>9, MakeTheDue DEF RecurrenceInv, MadeInOrder
  <2>3. QED
    BY <1>1, <1>7, <1>8, <2>1, <2>2, MakeTheDue DEF RecurrenceInv, MadeInOrder
<1>11. CountIsKept'
  <2>1. next \notin occurrences'
    BY <1>1, <1>3, <1>6, <1>9, MakeTheDue DEF RecurrenceInv, MadeInOrder
  <2>2. /\ occurrences' \ {next} = (occurrences \ {nextDue}) \union {nextDue}
        /\ IsFiniteSet(occurrences \ {nextDue})
    BY <1>1, <2>1, MakeTheDue, FS_RemoveElement DEF RecurrenceInv, CountIsKept
  <2>3. /\ Cardinality(occurrences' \ {next}) = generated + 1
        /\ IsFiniteSet(occurrences \union {nextDue})
    BY <2>2, FS_AddElement DEF RecurrenceInv, CountIsKept
  <2>4. rule.limit # NoLimit => generated + 1 <= rule.limit
    BY <1>1, RuleValues DEF Due, Reached, RecurrenceInv, RecurrenceTypeOK
  <2>5. QED
    BY <1>1, <2>1, <2>3, <2>4, MakeTheDue DEF CountIsKept
<1>12. RecurrenceTypeOK' /\ RuleOK'
  BY <1>1, <1>6, MakeTheDue DEF RecurrenceInv, RecurrenceTypeOK, RuleOK
<1>13. PendingIsAsked'
  BY <1>1, <1>4, <1>5, <1>8 DEF PendingIsAsked, AskedMonth
<1>14. QED
  BY <1>10, <1>11, <1>12, <1>13 DEF RecurrenceInv

LEMMA RecurrenceNextKeepsInv ==
  ASSUME RecurrenceInv, [RecurrenceNext]_recurrenceVars
  PROVE  RecurrenceInv'
<1>1. CASE UNCHANGED recurrenceVars
  BY <1>1 DEF recurrenceVars, progress, produced, RecurrenceInv, RuleOK, RecurrenceTypeOK,
              PendingIsAsked, AskedMonth, FirstMonth, MadeInOrder, CountIsKept, Asked, Past
<1>2. CASE RecurrenceNext
  BY <1>2, StatusStepKeepsInv, GenerateDueKeepsInv, CutInGenerateKeepsInv DEF RecurrenceNext
<1>3. QED
  BY <1>1, <1>2

\* Every variable of the recurring entries keeps its type.
THEOREM RecurrenceTypeCorrect == RecurrenceSpec => []RecurrenceTypeOK
<1>1. RecurrenceInv => RecurrenceTypeOK
  BY DEF RecurrenceInv
<1>2. QED
  BY <1>1, RecurrenceInitKeepsInv, RecurrenceNextKeepsInv, PTL DEF RecurrenceSpec

(* For any rule, any months and any number of cuts and of changes of its   *)
(* status, the entries are those of the first dates asked for, one each.   *)
THEOREM OccurrencesStayExact == RecurrenceSpec => []OccurrencesAreExact
<1>1. RecurrenceInv => OccurrencesAreExact
  <2> SUFFICES ASSUME RecurrenceInv
               PROVE  OccurrencesAreExact
    OBVIOUS
  <2>1. nextDue \in Nat /\ \A date \in Asked : date \in Nat
    BY AskedByMonth, DueForIsInItsMonth, RuleValues DEF RecurrenceInv, RecurrenceTypeOK, AskedMonth
  <2>2. \A date \in Asked : (\E date2 \in occurrences : date < date2) => date \in occurrences
    BY <2>1 DEF RecurrenceInv, MadeInOrder
  <2>3. /\ IsFiniteSet(occurrences) /\ Cardinality(occurrences) \in Nat
        /\ Cardinality(occurrences \ {nextDue}) =
             IF nextDue \in occurrences THEN Cardinality(occurrences) - 1
             ELSE Cardinality(occurrences)
    BY FS_RemoveElement, FS_CardinalityType DEF RecurrenceInv, CountIsKept
  <2>4. rule.limit # NoLimit => Cardinality(occurrences) <= rule.limit
    BY <2>3, RuleValues DEF RecurrenceInv, CountIsKept, RecurrenceTypeOK
  <2>5. QED
    BY <2>2, <2>4 DEF OccurrencesAreExact, RecurrenceInv, MadeInOrder
<1>2. QED
  BY <1>1, RecurrenceInitKeepsInv, RecurrenceNextKeepsInv, PTL DEF RecurrenceSpec

-----------------------------------------------------------------------------
(* The warehouse.                                                          *)

\* Nothing is received before it is ordered, nor of a receipt that is not made.
ReceivedInOrder ==
  /\ \A p \in Purchase :
       /\ purchaseIs[p] \in {"NONE", "DRAFT", "ORDERED"} => received[p] = 0
       /\ purchaseIs[p] = "NONE" <=> purchased[p] = 0
  /\ \A k \in Receipt : receiptOf[k] = NoPurchase => delivered[k] = 0

WarehouseInv == WarehouseTypeOK /\ ReceivedInOrder /\ PiecesAreKept

\* The pieces at the locations, between them, and received.
AtPlaces == SumFunctionOnSet(stock, Location)
Between == SumFunctionOnSet(load, InTransit)
Delivered == SumFunctionOnSet(delivered, Receipt)

LEMMA FiniteWarehouse == IsFiniteSet(Location) /\ IsFiniteSet(Transfer) /\ IsFiniteSet(Receipt)
  BY WarehouseAssumption

LEMMA WarehouseSums ==
  ASSUME WarehouseTypeOK
  PROVE  /\ AtPlaces \in Int /\ Between \in Int /\ Delivered \in Int
         /\ SumFunctionOnSet(OpeningStock, Location) \in Int
         /\ IsFiniteSet(InTransit) /\ \A p \in Purchase : IsFiniteSet(ReceiptsOf(p))
<1>1. IsFiniteSet(InTransit) /\ \A p \in Purchase : IsFiniteSet(ReceiptsOf(p))
  BY WarehouseAssumption, FS_Subset DEF InTransit, ReceiptsOf
<1>2. \A t \in InTransit : load[t] \in Int
  BY DEF InTransit, WarehouseTypeOK
<1>3. (\A l \in Location : stock[l] \in Int) /\ (\A k \in Receipt : delivered[k] \in Int)
  BY DEF WarehouseTypeOK
<1>4. QED
  BY <1>1, <1>2, <1>3, WarehouseAssumption, SumIsInt DEF AtPlaces, Between, Delivered

\* n pieces more, or less, at a location.
StockChanges(l, n) == stock' = [stock EXCEPT ![l] = @ + n]

LEMMA StockAtChanges ==
  ASSUME WarehouseTypeOK, NEW l \in Location, NEW n \in Int, StockChanges(l, n)
  PROVE  AtPlaces' = AtPlaces + n
<1>1. /\ \A x \in Location : stock[x] \in Int
      /\ \A x \in Location \ {l} : stock'[x] = stock[x]
      /\ stock'[l] = stock[l] + n /\ stock'[l] \in Int
  BY DEF WarehouseTypeOK, StockChanges
<1>2. SumFunctionOnSet(stock', Location) = SumFunctionOnSet(stock, Location) - stock[l] + stock'[l]
  BY <1>1, FiniteWarehouse, SumChange
<1>3. QED
  BY <1>1, <1>2, WarehouseSums DEF AtPlaces

LEMMA WarehouseInitKeepsInv == WarehouseInit => WarehouseInv
<1> SUFFICES ASSUME WarehouseInit
             PROVE  WarehouseInv
  OBVIOUS
<1>1. WarehouseTypeOK
  BY WarehouseAssumption DEF WarehouseInit, WarehouseTypeOK
<1>2. ReceivedInOrder
  BY DEF WarehouseInit, ReceivedInOrder
<1>3. InTransit = {} /\ \A p \in Purchase : ReceiptsOf(p) = {}
  BY WarehouseAssumption DEF WarehouseInit, InTransit, ReceiptsOf
<1>4. Between = 0 /\ \A p \in Purchase : SumFunctionOnSet(payable, ReceiptsOf(p)) = 0
  BY <1>3, SumEmpty DEF Between
<1>5. Delivered = 0
  BY WarehouseAssumption, SumOfZeros DEF WarehouseInit, Delivered
<1>6. PiecesAreKept
  BY <1>1, <1>4, <1>5, WarehouseSums
  DEF WarehouseInit, PiecesAreKept, AtPlaces, Between, Delivered
<1>7. QED
  BY <1>1, <1>2, <1>6 DEF WarehouseInv

LEMMA LocationStepKeepsInv ==
  ASSUME WarehouseInv, NEW l \in Location, LocationStep(l)
  PROVE  WarehouseInv'
<1>1. /\ UNCHANGED <<transfers, purchases>>
      /\ reservedAt' \in [Location -> Nat] /\ committedAt' \in [Location -> Nat]
      /\ \/ UNCHANGED <<stock, taken>>
         \/ stock[l] > 0 /\ StockChanges(l, -1) /\ taken' = taken + 1
  BY DEF StockChanges, LocationStep, CreateReservation, ReleaseReservation, SellPiece, TakeSoldPiece,
         WarehouseInv, WarehouseTypeOK
<1>2. WarehouseTypeOK' /\ ReceivedInOrder'
  BY <1>1
  DEF StockChanges, WarehouseInv, WarehouseTypeOK, ReceivedInOrder, transfers, purchases, receipts
<1>3. \/ AtPlaces' = AtPlaces /\ taken' = taken
      \/ AtPlaces' = AtPlaces + -1 /\ taken' = taken + 1
  <2>1. CASE UNCHANGED <<stock, taken>>
    BY <2>1 DEF AtPlaces
  <2>2. CASE StockChanges(l, -1) /\ taken' = taken + 1
    BY <2>2, StockAtChanges DEF WarehouseInv
  <2>3. QED
    BY <1>1, <2>1, <2>2
<1>4. Between' = Between /\ Delivered' = Delivered /\ \A p \in Purchase : ReceiptsOf(p)' = ReceiptsOf(p)
  BY <1>1 DEF transfers, purchases, receipts, Between, Delivered, InTransit, ReceiptsOf
<1>5. PiecesAreKept'
  <2>1. taken \in Int /\ AtPlaces \in Int /\ Between \in Int
    BY WarehouseSums DEF WarehouseInv, WarehouseTypeOK
  <2>2. AtPlaces' + Between + taken' = AtPlaces + Between + taken
    BY <1>3, <2>1
  <2>3. AtPlaces + Between + taken = SumFunctionOnSet(OpeningStock, Location) + Delivered
    BY DEF WarehouseInv, PiecesAreKept, AtPlaces, Between, Delivered
  <2>4. QED
    BY <1>1, <1>4, <2>2, <2>3
    DEF WarehouseInv, PiecesAreKept, AtPlaces, Between, Delivered, purchases, receipts
<1>6. QED
  BY <1>2, <1>5 DEF WarehouseInv

\* Pieces leave a location with a transfer, or come to one.
LEMMA TransferStepKeepsInv ==
  ASSUME WarehouseInv, NEW t \in Transfer, TransferStep(t)
  PROVE  WarehouseInv'
<1>1. /\ UNCHANGED <<reservedAt, committedAt, taken, purchases>> /\ WarehouseTypeOK
      /\ PiecesAreKept
  BY DEF TransferStep, CreateTransfer, DispatchTransfer, ReceiveTransfer, CancelTransfer, places,
         WarehouseInv
<1>2. /\ transferIs[t] = "NONE" => UNCHANGED stock
      /\ transferIs[t] # "NONE" => UNCHANGED <<from, to, load>>
  BY DEF TransferStep, CreateTransfer, DispatchTransfer, ReceiveTransfer, CancelTransfer, places
<1>3. WarehouseTypeOK'
  <2>1. CASE transferIs[t] = "NONE"
    <3>1. PICK a \in Location, b \in Location, n \in 1..MaxUnits : CreateTransfer(t, a, b, n)
      BY <2>1 DEF TransferStep, DispatchTransfer, ReceiveTransfer, CancelTransfer
    <3>2. QED
      BY <1>1, <3>1, WarehouseAssumption
      DEF CreateTransfer, WarehouseTypeOK, places, purchases, receipts
  <2>2. CASE transferIs[t] # "NONE"
    BY <1>1, <1>2, <2>2
    DEF TransferStep, CreateTransfer, DispatchTransfer, ReceiveTransfer, CancelTransfer, BroughtBack,
        AvailableAt, WarehouseTypeOK, purchases, receipts
  <2>3. QED
    BY <2>1, <2>2
<1>4. AtPlaces' + Between' = AtPlaces + Between
  <2>1. \A x \in InTransit \union InTransit' \union {t} : load[x] \in Int /\ load'[x] \in Int
    BY <1>1, <1>3 DEF WarehouseTypeOK, InTransit
  <2>2. AtPlaces \in Int /\ Between \in Int /\ (AtPlaces \in Int)' /\ (Between \in Int)'
    BY <1>1, <1>3, WarehouseSums, PTL
  <2>3. CASE InTransit' = InTransit /\ UNCHANGED stock
    <3>1. \A x \in InTransit : load'[x] = load[x]
      BY <2>3 DEF TransferStep, CreateTransfer, DispatchTransfer, ReceiveTransfer, CancelTransfer,
                  InTransit, WarehouseInv, WarehouseTypeOK
    <3>2. IsFiniteSet(InTransit)
      BY <1>1, WarehouseSums
    <3>3. Between' = Between
      BY <2>3, <3>1, <3>2, SumEqual DEF Between
    <3>4. QED
      BY <2>3, <3>3 DEF AtPlaces
  <2>4. CASE DispatchTransfer(t)
    <3>1. /\ InTransit' = InTransit \union {t} /\ t \notin InTransit
          /\ StockChanges(from[t], -load[t])
          /\ from[t] \in Location /\ UNCHANGED load
      BY <1>1, <2>1, <2>4 DEF DispatchTransfer, StockChanges, InTransit, WarehouseTypeOK
    <3>2. IsFiniteSet(InTransit) /\ load[t] \in Int /\ -load[t] \in Int
      BY <1>1, <2>1, WarehouseSums
    <3>3. Between' = load[t] + Between
      BY <2>1, <3>1, <3>2, SumAdd DEF Between
    <3>4. AtPlaces' = AtPlaces + -load[t]
      BY <1>1, <3>1, <3>2, StockAtChanges
    <3>5. QED
      BY <2>2, <3>2, <3>3, <3>4
  <2>5. CASE transferIs[t] = "IN_TRANSIT"
    <3>1. /\ InTransit' = InTransit \ {t} /\ t \in InTransit
          /\ UNCHANGED load
          /\ \E l \in Location : StockChanges(l, load[t])
      BY <1>1, <2>5
      DEF StockChanges, TransferStep, CreateTransfer, DispatchTransfer, ReceiveTransfer, CancelTransfer, BroughtBack,
          InTransit, WarehouseTypeOK
    <3>2. IsFiniteSet(InTransit) /\ load[t] \in Int
      BY <1>1, <2>1, WarehouseSums
    <3>3. Between = load[t] + Between'
      BY <2>1, <3>1, <3>2, SumRemove DEF Between
    <3>4. AtPlaces' = AtPlaces + load[t]
      BY <1>1, <3>1, <3>2, StockAtChanges
    <3>5. QED
      BY <2>2, <3>2, <3>3, <3>4
  <2>6. CASE CancelTransfer(t) /\ transferIs[t] = "DRAFT"
    <3>1. InTransit' = InTransit /\ UNCHANGED stock
      BY <1>1, <2>6 DEF CancelTransfer, BroughtBack, InTransit, WarehouseTypeOK
    <3>2. QED
      BY <2>3, <3>1
  <2>7. CASE transferIs[t] = "NONE"
    <3>1. InTransit' = InTransit /\ UNCHANGED stock
      BY <1>1, <1>2, <2>7
      DEF TransferStep, CreateTransfer, DispatchTransfer, ReceiveTransfer, CancelTransfer, InTransit,
          WarehouseTypeOK
    <3>2. QED
      BY <2>3, <3>1
  <2>8. QED
    BY <2>4, <2>5, <2>6, <2>7 DEF TransferStep, ReceiveTransfer, CancelTransfer, CreateTransfer
<1>5. Delivered' = Delivered /\ \A p \in Purchase : ReceiptsOf(p)' = ReceiptsOf(p)
  BY <1>1 DEF purchases, receipts, Delivered, ReceiptsOf
<1>6. PiecesAreKept'
  <2>1. /\ taken \in Int /\ taken' = taken /\ AtPlaces \in Int /\ AtPlaces' \in Int
        /\ Between \in Int /\ Between' \in Int
    <3>1. taken \in Int /\ taken' = taken
      BY <1>1 DEF WarehouseTypeOK
    <3>2. /\ AtPlaces \in Int /\ Between \in Int
          /\ (AtPlaces \in Int)' /\ (Between \in Int)'
      BY <1>1, <1>3, WarehouseSums, PTL
    <3>3. QED
      BY <3>1, <3>2
  <2>2. AtPlaces' + Between' + taken' = SumFunctionOnSet(OpeningStock, Location) + Delivered'
    BY <1>1, <1>4, <1>5, <2>1 DEF PiecesAreKept, AtPlaces, Between, Delivered
  <2>3. QED
    BY <1>1, <1>5, <2>2 DEF PiecesAreKept, AtPlaces, Between, Delivered, purchases, receipts
<1>7. ReceivedInOrder'
  BY <1>1 DEF WarehouseInv, ReceivedInOrder, purchases, receipts
<1>8. QED
  BY <1>3, <1>6, <1>7 DEF WarehouseInv

LEMMA OrderStepKeepsInv ==
  ASSUME WarehouseInv, NEW p \in Purchase,
         \/ SubmitPurchaseOrder(p)
         \/ \E l \in Location, n \in 1..MaxUnits : CreatePurchaseOrder(p, l, n)
  PROVE  WarehouseInv'
<1>1. UNCHANGED <<places, transfers, received, receipts>>
  BY DEF SubmitPurchaseOrder, CreatePurchaseOrder
<1>2. WarehouseTypeOK' /\ ReceivedInOrder'
  BY WarehouseAssumption
  DEF SubmitPurchaseOrder, CreatePurchaseOrder, WarehouseInv, WarehouseTypeOK, ReceivedInOrder,
      places, transfers, receipts
<1>3. /\ AtPlaces' = AtPlaces /\ Between' = Between /\ Delivered' = Delivered
      /\ \A q \in Purchase : ReceiptsOf(q)' = ReceiptsOf(q)
  BY <1>1 DEF places, transfers, receipts, AtPlaces, Between, Delivered, InTransit, ReceiptsOf
<1>4. \A q \in Purchase :
        purchaseIs'[q] = "RECEIVED" <=> received'[q] = purchased'[q] /\ purchased'[q] > 0
  BY DEF SubmitPurchaseOrder, CreatePurchaseOrder, WarehouseInv, WarehouseTypeOK, ReceivedInOrder,
         PiecesAreKept
<1>5. PiecesAreKept'
  BY <1>1, <1>3, <1>4
  DEF WarehouseInv, PiecesAreKept, AtPlaces, Between, Delivered, places, receipts
<1>6. QED
  BY <1>2, <1>5 DEF WarehouseInv

\* What is received comes into stock and is owed for.
LEMMA ReceivePurchaseOrderKeepsInv ==
  ASSUME WarehouseInv, NEW p \in Purchase, NEW k \in Receipt, NEW n \in 1..MaxUnits,
         ReceivePurchaseOrder(p, k, n)
  PROVE  WarehouseInv'
<1>1. /\ UNCHANGED <<reservedAt, committedAt, taken, transfers, deliverTo, purchased>>
      /\ receiptOf[k] = NoPurchase /\ receiptOf' = [receiptOf EXCEPT ![k] = p]
      /\ delivered' = [delivered EXCEPT ![k] = n] /\ payable' = [payable EXCEPT ![k] = n]
      /\ received' = [received EXCEPT ![p] = @ + n]
      /\ StockChanges(deliverTo[p], n)
      /\ n <= purchased[p] - received[p] /\ n \in Int /\ n >= 1
      /\ deliverTo[p] \in Location
      /\ received[p] \in Int /\ purchased[p] \in 0..MaxUnits
  BY DEF ReceivePurchaseOrder, StockChanges, WarehouseInv, WarehouseTypeOK
<1>2. WarehouseTypeOK /\ ReceivedInOrder /\ PiecesAreKept
  BY DEF WarehouseInv
<1>3. WarehouseTypeOK'
  BY <1>1, <1>2, WarehouseAssumption DEF ReceivePurchaseOrder, WarehouseTypeOK, transfers
<1>4. ReceivedInOrder'
  BY <1>1, <1>2, WarehouseAssumption DEF ReceivePurchaseOrder, WarehouseTypeOK, ReceivedInOrder
<1>5. AtPlaces' = AtPlaces + n
  BY <1>1, <1>2, StockAtChanges
<1>6. Delivered' = Delivered + n
  <2>1. /\ \A x \in Receipt : delivered[x] \in Int
        /\ \A x \in Receipt \ {k} : delivered'[x] = delivered[x]
        /\ delivered'[k] = n /\ delivered[k] = 0
    BY <1>1, <1>2 DEF WarehouseTypeOK, ReceivedInOrder
  <2>2. SumFunctionOnSet(delivered', Receipt)
          = SumFunctionOnSet(delivered, Receipt) - delivered[k] + delivered'[k]
    BY <2>1, FiniteWarehouse, SumChange
  <2>3. QED
    BY <1>1, <1>2, <2>1, <2>2, WarehouseSums DEF Delivered
<1>7. Between' = Between
  BY <1>1 DEF transfers, Between, InTransit
<1>8. ASSUME NEW q \in Purchase
      PROVE  received'[q] = SumFunctionOnSet(payable', ReceiptsOf(q)')
  <2>1. received[q] = SumFunctionOnSet(payable, ReceiptsOf(q)) /\ IsFiniteSet(ReceiptsOf(q))
    BY <1>2, WarehouseSums DEF PiecesAreKept
  <2>2. k \notin ReceiptsOf(q) /\ ReceiptsOf(q)' = ReceiptsOf(q) \union (IF q = p THEN {k} ELSE {})
    BY <1>1, <1>2, WarehouseAssumption DEF ReceiptsOf, WarehouseTypeOK
  <2>3. \A x \in ReceiptsOf(q) : payable'[x] = payable[x] /\ payable[x] \in Int
    BY <1>1, <1>2, <2>2 DEF ReceiptsOf, WarehouseTypeOK
  <2>4. SumFunctionOnSet(payable', ReceiptsOf(q)) = received[q]
    BY <2>1, <2>3, SumEqual
  <2>5. CASE q = p
    <3>1. payable'[k] = n /\ received'[q] = received[q] + n
      BY <1>1, <1>2, <2>5 DEF WarehouseTypeOK
    <3>2. \A x \in ReceiptsOf(q) \union {k} : payable'[x] \in Int
      BY <1>1, <2>3, <3>1
    <3>3. SumFunctionOnSet(payable', ReceiptsOf(q) \union {k}) = payable'[k] + received[q]
      BY <2>1, <2>2, <2>4, <3>2, SumAdd
    <3>4. QED
      BY <1>1, <2>2, <2>5, <3>1, <3>3
  <2>6. CASE q # p
    BY <1>1, <1>2, <2>2, <2>4, <2>6 DEF WarehouseTypeOK
  <2>7. QED
    BY <2>5, <2>6
<1>9. \A q \in Purchase :
        purchaseIs'[q] = "RECEIVED" <=> received'[q] = purchased'[q] /\ purchased'[q] > 0
  BY <1>1, <1>2 DEF ReceivePurchaseOrder, WarehouseTypeOK, PiecesAreKept
<1>10. AtPlaces' + Between' + taken' = SumFunctionOnSet(OpeningStock, Location) + Delivered'
  <2>1. SumFunctionOnSet(OpeningStock, Location) \in Int
    BY WarehouseAssumption, SumIsInt
  <2>2. taken \in Int /\ AtPlaces + Between + taken = SumFunctionOnSet(OpeningStock, Location) + Delivered
    BY <1>2 DEF WarehouseTypeOK, PiecesAreKept, AtPlaces, Between, Delivered
  <2>3. QED
    BY <1>1, <1>2, <1>5, <1>6, <1>7, <2>1, <2>2, WarehouseSums
<1>11. PiecesAreKept'
  BY <1>8, <1>9, <1>10 DEF PiecesAreKept, AtPlaces, Between, Delivered
<1>12. QED
  BY <1>3, <1>4, <1>11 DEF WarehouseInv

LEMMA WarehouseNextKeepsInv ==
  ASSUME WarehouseInv, [WarehouseNext]_warehouseVars
  PROVE  WarehouseInv'
<1>1. CASE UNCHANGED warehouseVars
  BY <1>1 DEF warehouseVars, places, transfers, receipts, purchases, WarehouseInv,
              WarehouseTypeOK, ReceivedInOrder, PiecesAreKept, InTransit, ReceiptsOf
<1>2. CASE WarehouseNext
  BY <1>2, LocationStepKeepsInv, TransferStepKeepsInv, OrderStepKeepsInv,
     ReceivePurchaseOrderKeepsInv
  DEF WarehouseNext, PurchaseStep
<1>3. QED
  BY <1>1, <1>2

(* No location has less than nothing.                                      *)
THEOREM WarehouseTypeCorrect == WarehouseSpec => []WarehouseTypeOK
<1>1. WarehouseInv => WarehouseTypeOK
  BY DEF WarehouseInv
<1>2. QED
  BY <1>1, WarehouseInitKeepsInv, WarehouseNextKeepsInv, PTL DEF WarehouseSpec

(* For any number of locations, transfers, orders and receipts no piece is *)
(* lost or made on its way, and each one received is owed for once.        *)
THEOREM PiecesStayKept == WarehouseSpec => []PiecesAreKept
<1>1. WarehouseInv => PiecesAreKept
  BY DEF WarehouseInv
<1>2. QED
  BY <1>1, WarehouseInitKeepsInv, WarehouseNextKeepsInv, PTL DEF WarehouseSpec

-----------------------------------------------------------------------------
(* The ledger.                                                             *)

\* What the ledger and the bank are left with explains itself: no more is needed.
FinanceInv == FinanceTypeOK /\ EntriesAreExplained /\ BankMoneyUsedOnce

LEMMA SettlementsAre ==
  ASSUME NEW s \in Seq(Settlement), NEW n \in DOMAIN s
  PROVE  /\ s[n] \in Settlement
         /\ s[n].cents \in Nat \ {0} /\ s[n].entry \in Entry
         /\ s[n].from \in BankRow \union {NoRow}
<1>1. s[n] \in Settlement
  OBVIOUS
<1>2. QED
  BY <1>1 DEF Settlement

LEMMA LiveOfIsFinite ==
  ASSUME NEW s \in Seq(Settlement), NEW e
  PROVE  /\ IsFiniteSet(LiveOf(s, e))
         /\ \A n \in LiveOf(s, e) : CentsIn(s)[n] \in Nat \ {0}
<1>1. IsFiniteSet(1..Len(s)) /\ LiveOf(s, e) \subseteq 1..Len(s)
  BY FS_Interval DEF LiveOf
<1>2. \A n \in DOMAIN s : s[n].cents \in Nat \ {0}
  BY SettlementsAre
<1>3. QED
  BY <1>1, <1>2, FS_Subset DEF LiveOf, CentsIn

LEMMA SettledIsNat ==
  ASSUME NEW s \in Seq(Settlement), NEW e
  PROVE  /\ SettledCents(s, e) \in Nat
         /\ LiveOf(s, e) = {} => SettledCents(s, e) = 0
<1>1. SumFunctionOnSet(CentsIn(s), LiveOf(s, e)) \in Nat
  BY LiveOfIsFinite, SumIsNat
<1>2. QED
  BY <1>1, SumEmpty DEF SettledCents

LEMMA SettledOfSame ==
  ASSUME NEW s \in Seq(Settlement), NEW t \in Seq(Settlement), NEW e,
         LiveOf(t, e) = LiveOf(s, e),
         \A n \in LiveOf(s, e) : CentsIn(t)[n] = CentsIn(s)[n]
  PROVE  SettledCents(t, e) = SettledCents(s, e)
<1>1. IsFiniteSet(LiveOf(s, e))
  BY LiveOfIsFinite
<1>2. SumFunctionOnSet(CentsIn(s), LiveOf(s, e)) = SumFunctionOnSet(CentsIn(t), LiveOf(s, e))
  BY <1>1, SumEqual
<1>3. QED
  BY <1>2 DEF SettledCents

\* One settlement more pays its entry, and no other.
LEMMA AppendSettles ==
  ASSUME NEW s \in Seq(Settlement), NEW x \in Settlement, x.live, NEW e
  PROVE  /\ Append(s, x) \in Seq(Settlement)
         /\ DOMAIN Append(s, x) = DOMAIN s \union {Len(s) + 1}
         /\ \A n \in DOMAIN s : Append(s, x)[n] = s[n]
         /\ Append(s, x)[Len(s) + 1] = x
         /\ e # x.entry => LiveOf(Append(s, x), e) = LiveOf(s, e)
         /\ SettledCents(Append(s, x), e)
              = SettledCents(s, e) + (IF e = x.entry THEN x.cents ELSE 0)
<1> DEFINE t == Append(s, x)
           k == Len(s) + 1
<1>1. /\ t \in Seq(Settlement) /\ DOMAIN t = DOMAIN s \union {k}
      /\ \A n \in DOMAIN s : t[n] = s[n]
      /\ t[k] = x /\ k \notin DOMAIN s /\ x.cents \in Nat
  BY DEF Settlement
<1> HIDE DEF t, k
<1>2. LiveOf(t, e) = LiveOf(s, e) \union (IF e = x.entry THEN {k} ELSE {})
  BY <1>1 DEF LiveOf
<1>3. /\ \A n \in LiveOf(s, e) : CentsIn(t)[n] = CentsIn(s)[n]
      /\ CentsIn(t)[k] = x.cents /\ k \notin LiveOf(s, e)
  BY <1>1 DEF CentsIn, LiveOf
<1>4. SettledCents(t, e) = SettledCents(s, e) + (IF e = x.entry THEN x.cents ELSE 0)
  <2>1. CASE e = x.entry
    <3>1. IsFiniteSet(LiveOf(s, e)) /\ \A n \in LiveOf(s, e) : CentsIn(s)[n] \in Int
      BY LiveOfIsFinite
    <3>2. SumFunctionOnSet(CentsIn(t), LiveOf(s, e) \union {k})
            = CentsIn(t)[k] + SumFunctionOnSet(CentsIn(t), LiveOf(s, e))
      <4>1. \A n \in LiveOf(s, e) \union {k} : CentsIn(t)[n] \in Int
        BY <1>1, <1>3, <3>1
      <4>2. QED
        BY <1>3, <3>1, <4>1, SumAdd
    <3>3. SumFunctionOnSet(CentsIn(s), LiveOf(s, e)) = SumFunctionOnSet(CentsIn(t), LiveOf(s, e))
      BY <1>3, <3>1, SumEqual
    <3>4. SettledCents(t, e) = x.cents + SettledCents(s, e)
      BY <1>2, <1>3, <2>1, <3>2, <3>3 DEF SettledCents
    <3>5. QED
      BY <1>1, <2>1, <3>4, SettledIsNat
  <2>2. CASE e # x.entry
    <3>1. SettledCents(t, e) = SettledCents(s, e)
      <4>1. LiveOf(t, e) = LiveOf(s, e)
        BY <1>2, <2>2
      <4>2. QED
        BY <1>1, <1>3, <4>1, SettledOfSame
    <3>2. QED
      BY <2>2, <3>1, SettledIsNat
  <2>3. QED
    BY <2>1, <2>2
<1>5. QED
  BY <1>1, <1>2, <1>4 DEF t, k

\* A reversal ends one settlement and touches no other.
LEMMA ReversalIs ==
  ASSUME settlements \in Seq(Settlement), NEW m \in DOMAIN settlements, ReverseSettlement(m)
  PROVE  /\ settlements' \in Seq(Settlement) /\ DOMAIN settlements' = DOMAIN settlements
         /\ \A n \in DOMAIN settlements :
              /\ settlements'[n].from = settlements[n].from
              /\ settlements'[n].entry = settlements[n].entry
              /\ settlements'[n].cents = settlements[n].cents
              /\ n # m => settlements'[n] = settlements[n]
         /\ settlements[m].live /\ ~settlements'[m].live
<1>1. /\ DOMAIN settlements' = DOMAIN settlements
      /\ \A n \in DOMAIN settlements : n # m => settlements'[n] = settlements[n]
      /\ settlements'[m] = [settlements[m] EXCEPT !.live = FALSE]
      /\ settlements[m].live
  BY DEF ReverseSettlement
<1>2. settlements[m] \in Settlement
  BY SettlementsAre
<1>3. /\ settlements'[m] \in Settlement /\ ~settlements'[m].live
      /\ settlements'[m].from = settlements[m].from
      /\ settlements'[m].entry = settlements[m].entry
      /\ settlements'[m].cents = settlements[m].cents
  BY <1>1, <1>2 DEF Settlement
<1>4. settlements' \in Seq(Settlement)
  <2>1. settlements' = [settlements EXCEPT ![m] = settlements'[m]]
    BY <1>1 DEF ReverseSettlement
  <2>2. QED
    BY <1>3, <2>1
<1>5. QED
  BY <1>1, <1>3, <1>4

\* It takes back what that settlement paid.
LEMMA ReversalUnsettles ==
  ASSUME NEW s \in Seq(Settlement), NEW t \in Seq(Settlement), NEW m \in DOMAIN s, NEW e,
         DOMAIN t = DOMAIN s, s[m].live, ~t[m].live,
         \A n \in DOMAIN s : t[n].entry = s[n].entry /\ t[n].cents = s[n].cents,
         \A n \in DOMAIN s : n # m => t[n] = s[n]
  PROVE  /\ LiveOf(t, e) \subseteq LiveOf(s, e)
         /\ SettledCents(t, e)
              = SettledCents(s, e) - (IF e = s[m].entry THEN s[m].cents ELSE 0)
<1>1. s[m].cents \in Nat
  BY SettlementsAre
<1>2. LiveOf(t, e) = LiveOf(s, e) \ {m}
  BY <1>1 DEF LiveOf
<1>3. /\ \A n \in LiveOf(s, e) : CentsIn(t)[n] = CentsIn(s)[n]
      /\ m \in LiveOf(s, e) <=> e = s[m].entry
      /\ CentsIn(s)[m] = s[m].cents
  BY <1>1 DEF CentsIn, LiveOf
<1>4. SettledCents(t, e) = SettledCents(s, e) - (IF e = s[m].entry THEN s[m].cents ELSE 0)
  <2>1. CASE e = s[m].entry
    <3>1. IsFiniteSet(LiveOf(s, e)) /\ \A n \in LiveOf(s, e) : CentsIn(s)[n] \in Int
      BY LiveOfIsFinite
    <3>2. SumFunctionOnSet(CentsIn(s), LiveOf(s, e))
            = CentsIn(s)[m] + SumFunctionOnSet(CentsIn(s), LiveOf(s, e) \ {m})
      BY <1>3, <2>1, <3>1, SumRemove
    <3>3. SumFunctionOnSet(CentsIn(s), LiveOf(t, e)) = SumFunctionOnSet(CentsIn(t), LiveOf(t, e))
      <4>1. IsFiniteSet(LiveOf(t, e)) /\ \A n \in LiveOf(t, e) : CentsIn(s)[n] = CentsIn(t)[n]
        BY <1>1, <1>2, <1>3, LiveOfIsFinite
      <4>2. QED
        BY <4>1, SumEqual
    <3>4. SettledCents(s, e) = s[m].cents + SettledCents(t, e)
      BY <1>2, <1>3, <3>2, <3>3 DEF SettledCents
    <3>5. QED
      BY <1>1, <2>1, <3>4, SettledIsNat
  <2>2. CASE e # s[m].entry
    <3>1. LiveOf(t, e) = LiveOf(s, e)
      BY <1>2, <1>3, <2>2
    <3>2. SettledCents(t, e) = SettledCents(s, e)
      BY <1>1, <1>3, <3>1, SettledOfSame
    <3>3. QED
      BY <2>2, <3>2, SettledIsNat
  <2>3. QED
    BY <2>1, <2>2
<1>5. QED
  BY <1>1, <1>2, <1>4

LEMMA FinanceInitKeepsInv == FinanceInit => FinanceInv
<1> SUFFICES ASSUME FinanceInit
             PROVE  FinanceInv
  OBVIOUS
<1>1. settlements \in Seq(Settlement) /\ \A e \in Entry : LiveOf(settlements, e) = {}
  BY DEF FinanceInit, LiveOf
<1>2. \A e \in Entry : SettledCents(settlements, e) = 0
  BY <1>1, SettledIsNat
<1>3. EntriesAreExplained
  BY <1>1, <1>2, FinanceAssumption DEF FinanceInit, EntriesAreExplained, Live
<1>4. FinanceTypeOK
  BY DEF FinanceInit, FinanceTypeOK
<1>5. BankMoneyUsedOnce
  BY DEF FinanceInit, BankMoneyUsedOnce, UsedOnce, Accepted, InTransfer
<1>6. QED
  BY <1>3, <1>4, <1>5 DEF FinanceInv

\* settleEntry keeps the ledger explained, whoever asks for it.
LEMMA SettledKeepsEntries ==
  ASSUME FinanceTypeOK, EntriesAreExplained,
         NEW e \in Entry, NEW c \in 1..EntryCents[e], NEW source \in BankRow \union {NoRow},
         Settled(e, c, source)
  PROVE  /\ settlements' \in Seq(Settlement)
         /\ entryIs' \in [Entry -> {"NONE", "OPEN", "PARTIAL", "SETTLED", "CANCELLED"}]
         /\ EntriesAreExplained'
<1> DEFINE x == [entry |-> e, cents |-> c, from |-> source, live |-> TRUE]
<1>1. x \in Settlement /\ x.live /\ x.entry = e /\ x.cents = c /\ c \in Nat \ {0}
  BY FinanceAssumption DEF Settlement
<1>2. /\ settlements \in Seq(Settlement)
      /\ entryIs \in [Entry -> {"NONE", "OPEN", "PARTIAL", "SETTLED", "CANCELLED"}]
  BY DEF FinanceTypeOK
<1>3. settlements' = Append(settlements, x)
  BY DEF Settled
<1> HIDE DEF x
<1>4. settlements' \in Seq(Settlement)
  BY <1>1, <1>2, <1>3, AppendSettles
<1>5. ASSUME NEW f \in Entry
      PROVE  /\ SettledCents(settlements', f)
                  = SettledCents(settlements, f) + (IF f = e THEN c ELSE 0)
             /\ f # e => LiveOf(settlements', f) = LiveOf(settlements, f)
  BY <1>1, <1>2, <1>3, AppendSettles
<1>6. \A f \in Entry : SettledCents(settlements, f) \in Nat /\ SettledCents(settlements', f) \in Nat
  BY <1>2, <1>4, SettledIsNat
<1>7. /\ StatusWith(settlements', e) \in {"OPEN", "PARTIAL", "SETTLED"}
      /\ entryIs'[e] = StatusWith(settlements', e)
      /\ \A f \in Entry \ {e} : entryIs'[f] = entryIs[f]
      /\ entryIs' \in [Entry -> {"NONE", "OPEN", "PARTIAL", "SETTLED", "CANCELLED"}]
  <2>1. StatusWith(settlements', e) \in {"OPEN", "PARTIAL", "SETTLED"}
    BY DEF StatusWith
  <2>2. QED
    BY <1>2, <2>1 DEF Settled
<1>8. SettledCents(settlements', e) <= EntryCents[e]
  <2>1. c <= EntryCents[e] - SettledCents(settlements, e)
    BY <1>1 DEF Settled, Fits, OpenCents
  <2>2. QED
    BY <1>1, <1>5, <1>6, <2>1, FinanceAssumption
<1>9. ASSUME NEW f \in Entry
      PROVE  /\ SettledCents(settlements', f) <= EntryCents[f]
             /\ IF Live(f)' THEN entryIs'[f] = StatusWith(settlements', f)
                ELSE LiveOf(settlements', f) = {}
  <2>1. CASE f = e
    BY <1>7, <1>8, <2>1 DEF Live
  <2>2. CASE f # e
    <3>1. /\ SettledCents(settlements', f) = SettledCents(settlements, f)
          /\ LiveOf(settlements', f) = LiveOf(settlements, f)
          /\ entryIs'[f] = entryIs[f]
      BY <1>5, <1>6, <1>7, <2>2
    <3>2. StatusWith(settlements', f) = StatusWith(settlements, f) /\ (Live(f)' <=> Live(f))
      BY <3>1 DEF StatusWith, Live
    <3>3. QED
      BY <3>1, <3>2 DEF EntriesAreExplained
  <2>3. QED
    BY <2>1, <2>2
<1>10. QED
  BY <1>4, <1>7, <1>9 DEF EntriesAreExplained

LEMMA SettleEntryKeepsInv ==
  ASSUME FinanceInv, NEW e \in Entry, NEW c \in 1..EntryCents[e], SettleEntry(e, c)
  PROVE  FinanceInv'
<1>1. /\ FinanceTypeOK /\ EntriesAreExplained /\ BankMoneyUsedOnce
      /\ Settled(e, c, NoRow)
  BY DEF FinanceInv, SettleEntry
<1>2. /\ settlements' \in Seq(Settlement)
      /\ entryIs' \in [Entry -> {"NONE", "OPEN", "PARTIAL", "SETTLED", "CANCELLED"}]
      /\ EntriesAreExplained'
  BY <1>1, SettledKeepsEntries
<1>3. FinanceTypeOK'
  BY <1>1, <1>2 DEF FinanceTypeOK, SettleEntry
<1>4. \A n \in DOMAIN settlements' :
        \/ n \in DOMAIN settlements /\ settlements'[n] = settlements[n]
        \/ settlements'[n].from = NoRow
  <2>1. settlements \in Seq(Settlement)
    BY <1>1 DEF FinanceTypeOK
  <2>2. QED
    BY <1>1, <2>1 DEF Settled
<1>5. BankMoneyUsedOnce'
  BY <1>1, <1>4 DEF SettleEntry, BankMoneyUsedOnce, UsedOnce, Accepted, Backed
<1>6. QED
  BY <1>2, <1>3, <1>5 DEF FinanceInv

LEMMA ConfirmMatchKeepsInv ==
  ASSUME FinanceInv, NEW r \in BankRow, NEW e \in Entry, NEW c \in 1..EntryCents[e],
         ConfirmMatch(r, e, c)
  PROVE  FinanceInv'
<1> DEFINE k == Len(settlements) + 1
           l == Len(decisions) + 1
           d == [row |-> r, entry |-> e, accepted |-> TRUE, cents |-> c, settlement |-> k]
<1>1. /\ FinanceTypeOK /\ EntriesAreExplained /\ BankMoneyUsedOnce
      /\ Settled(e, c, r) /\ r # NoRow
      /\ c \in Nat
  BY FinanceAssumption DEF FinanceInv, ConfirmMatch
<1>2. /\ settlements' \in Seq(Settlement)
      /\ entryIs' \in [Entry -> {"NONE", "OPEN", "PARTIAL", "SETTLED", "CANCELLED"}]
      /\ EntriesAreExplained'
  BY <1>1, SettledKeepsEntries
<1>3. /\ DOMAIN settlements' = DOMAIN settlements \union {k} /\ k \in Nat
      /\ \A n \in DOMAIN settlements : settlements'[n] = settlements[n]
      /\ settlements'[k] = [entry |-> e, cents |-> c, from |-> r, live |-> TRUE]
      /\ Len(settlements') = k
  <2>1. settlements \in Seq(Settlement)
    BY <1>1 DEF FinanceTypeOK
  <2>2. QED
    BY <1>1, <2>1 DEF Settled
<1>4. /\ decisions \in Seq(Decision) /\ d \in Decision
      /\ decisions' = Append(decisions, d)
  BY <1>1, <1>3 DEF FinanceTypeOK, Decision, ConfirmMatch, Decided
<1>5. /\ decisions' \in Seq(Decision)
      /\ DOMAIN decisions' = DOMAIN decisions \union {l} /\ l \notin DOMAIN decisions
      /\ \A i \in DOMAIN decisions : decisions'[i] = decisions[i]
      /\ decisions'[l] = d
  BY <1>4
<1>6. /\ rowIs[r] = "UNMATCHED" /\ rowIs'[r] = "MATCHED"
      /\ \A q \in BankRow \ {r} : rowIs'[q] = rowIs[q]
      /\ rowIs' \in [BankRow -> {"NONE", "UNMATCHED", "MATCHED", "TRANSFERRED"}]
      /\ bankTransfers' = bankTransfers /\ c <= RowCents[r]
  BY <1>1 DEF FinanceTypeOK, ConfirmMatch
<1>7. FinanceTypeOK'
  BY <1>1, <1>2, <1>5, <1>6 DEF FinanceTypeOK
<1> HIDE DEF k, l
<1>8. \A q \in BankRow : Accepted(q)' = Accepted(q) \union (IF q = r THEN {l} ELSE {})
  BY <1>5 DEF Accepted
<1>9. ASSUME NEW q \in BankRow
      PROVE  UsedOnce(q)'
  <2>1. CASE q = r
    <3>1. Accepted(q)' = {l} /\ ~ \E t \in bankTransfers : InTransfer(q, t)
      BY <1>1, <1>6, <1>8, <2>1 DEF BankMoneyUsedOnce, UsedOnce
    <3>2. QED
      BY <1>6, <2>1, <3>1 DEF UsedOnce, InTransfer
  <2>2. CASE q # r
    <3>1. UsedOnce(q) /\ Accepted(q)' = Accepted(q)
      BY <1>1, <1>8, <2>2 DEF BankMoneyUsedOnce
    <3>2. QED
      BY <1>6, <2>2, <3>1 DEF UsedOnce, InTransfer
  <2>3. QED
    BY <2>1, <2>2
<1>10. ASSUME NEW n \in DOMAIN settlements', settlements'[n].from # NoRow
       PROVE  Backed(n)'
  <2>1. CASE n = k
    <3>1. l \in Accepted(r)'
      BY <1>8
    <3>2. QED
      BY <1>3, <1>5, <1>6, <2>1, <3>1 DEF Backed
  <2>2. CASE n \in DOMAIN settlements
    <3>1. Backed(n) /\ settlements'[n] = settlements[n] /\ settlements[n].from \in BankRow
      <4>1. settlements \in Seq(Settlement) /\ settlements'[n] = settlements[n]
        BY <1>1, <1>3, <2>2 DEF FinanceTypeOK
      <4>2. settlements[n].from \in BankRow \union {NoRow}
        BY <2>2, <4>1, SettlementsAre
      <4>3. QED
        BY <1>1, <1>10, <2>2, <4>1, <4>2 DEF BankMoneyUsedOnce
    <3>2. \A i \in Accepted(settlements[n].from) :
             i \in Accepted(settlements[n].from)' /\ decisions'[i] = decisions[i]
      BY <1>5, <1>8, <3>1 DEF Accepted
    <3>3. QED
      BY <3>1, <3>2 DEF Backed, Accepted
  <2>3. QED
    BY <1>3, <2>1, <2>2
<1>11. BankMoneyUsedOnce'
  BY <1>9, <1>10 DEF BankMoneyUsedOnce
<1>12. QED
  BY <1>2, <1>7, <1>11 DEF FinanceInv

LEMMA ReverseSettlementKeepsInv ==
  ASSUME FinanceInv, NEW m \in DOMAIN settlements, ReverseSettlement(m)
  PROVE  FinanceInv'
<1> DEFINE e == settlements[m].entry
<1>1. /\ FinanceTypeOK /\ EntriesAreExplained /\ BankMoneyUsedOnce
      /\ settlements \in Seq(Settlement) /\ settlements[m].live
      /\ entryIs \in [Entry -> {"NONE", "OPEN", "PARTIAL", "SETTLED", "CANCELLED"}]
      /\ e \in Entry /\ settlements[m].cents \in Nat
  <2>1. /\ FinanceTypeOK /\ EntriesAreExplained /\ BankMoneyUsedOnce
        /\ settlements \in Seq(Settlement) /\ settlements[m].live
        /\ entryIs \in [Entry -> {"NONE", "OPEN", "PARTIAL", "SETTLED", "CANCELLED"}]
    BY DEF FinanceInv, FinanceTypeOK, ReverseSettlement
  <2>2. QED
    BY <2>1, SettlementsAre
<1>2. /\ settlements' \in Seq(Settlement) /\ DOMAIN settlements' = DOMAIN settlements
      /\ \A n \in DOMAIN settlements :
           /\ settlements'[n].from = settlements[n].from
           /\ settlements'[n].entry = settlements[n].entry
           /\ settlements'[n].cents = settlements[n].cents
      /\ \A f \in Entry :
           /\ LiveOf(settlements', f) \subseteq LiveOf(settlements, f)
           /\ SettledCents(settlements', f)
                = SettledCents(settlements, f) - (IF f = e THEN settlements[m].cents ELSE 0)
  <2>1. /\ settlements' \in Seq(Settlement) /\ DOMAIN settlements' = DOMAIN settlements
        /\ \A n \in DOMAIN settlements :
             /\ settlements'[n].from = settlements[n].from
             /\ settlements'[n].entry = settlements[n].entry
             /\ settlements'[n].cents = settlements[n].cents
             /\ n # m => settlements'[n] = settlements[n]
        /\ ~settlements'[m].live
    BY <1>1, ReversalIs
  <2>2. ASSUME NEW f \in Entry
        PROVE  /\ LiveOf(settlements', f) \subseteq LiveOf(settlements, f)
               /\ SettledCents(settlements', f)
                    = SettledCents(settlements, f)
                        - (IF f = settlements[m].entry THEN settlements[m].cents ELSE 0)
    BY <1>1, <2>1, ReversalUnsettles
  <2>3. QED
    BY <1>1, <2>1, <2>2
<1>3. entryIs[e] # "CANCELLED" /\ Live(e)
  <2>1. m \in LiveOf(settlements, e)
    BY <1>1 DEF LiveOf
  <2>2. QED
    BY <1>1, <2>1 DEF EntriesAreExplained, Live
<1>4. /\ entryIs'[e] = StatusWith(settlements', e)
      /\ StatusWith(settlements', e) \in {"OPEN", "PARTIAL", "SETTLED"}
      /\ \A f \in Entry \ {e} : entryIs'[f] = entryIs[f]
      /\ entryIs' \in [Entry -> {"NONE", "OPEN", "PARTIAL", "SETTLED", "CANCELLED"}]
  <2>1. StatusWith(settlements', e) \in {"OPEN", "PARTIAL", "SETTLED"}
    BY DEF StatusWith
  <2>2. QED
    BY <1>1, <1>3, <2>1 DEF ReverseSettlement
<1> HIDE DEF e
<1>5. \A f \in Entry : SettledCents(settlements, f) \in Nat /\ SettledCents(settlements', f) \in Nat
  BY <1>1, <1>2, SettledIsNat
<1>6. ASSUME NEW f \in Entry
      PROVE  /\ SettledCents(settlements', f) <= EntryCents[f]
             /\ IF Live(f)' THEN entryIs'[f] = StatusWith(settlements', f)
                ELSE LiveOf(settlements', f) = {}
  <2>1. SettledCents(settlements, f) <= EntryCents[f]
    BY <1>1 DEF EntriesAreExplained
  <2>2. SettledCents(settlements', f) <= EntryCents[f]
    <3>1. /\ SettledCents(settlements', f)
               = SettledCents(settlements, f) - (IF f = e THEN settlements[m].cents ELSE 0)
          /\ settlements[m].cents \in Nat /\ EntryCents[f] \in Nat
          /\ SettledCents(settlements, f) \in Nat
      BY <1>1, <1>2, <1>5, FinanceAssumption
    <3>2. QED
      BY <2>1, <3>1
  <2>3. CASE f = e
    BY <1>4, <2>2, <2>3 DEF Live
  <2>4. CASE f # e
    <3>1. /\ SettledCents(settlements', f) = SettledCents(settlements, f)
          /\ LiveOf(settlements', f) \subseteq LiveOf(settlements, f)
          /\ entryIs'[f] = entryIs[f]
      BY <1>2, <1>4, <1>5, <2>4
    <3>2. StatusWith(settlements', f) = StatusWith(settlements, f) /\ (Live(f)' <=> Live(f))
      BY <3>1 DEF StatusWith, Live
    <3>3. QED
      BY <1>1, <2>2, <3>1, <3>2 DEF EntriesAreExplained
  <2>5. QED
    BY <2>3, <2>4
<1>7. EntriesAreExplained'
  BY <1>6 DEF EntriesAreExplained
<1>8. BankMoneyUsedOnce'
  BY <1>1, <1>2 DEF ReverseSettlement, BankMoneyUsedOnce, UsedOnce, Accepted, InTransfer, Backed
<1>9. FinanceTypeOK'
  BY <1>1, <1>2, <1>4 DEF FinanceTypeOK, ReverseSettlement
<1>10. QED
  BY <1>7, <1>8, <1>9 DEF FinanceInv

LEMMA EntryStepKeepsInv ==
  ASSUME FinanceInv, NEW e \in Entry, CreateEntry(e) \/ CancelEntry(e)
  PROVE  FinanceInv'
<1>1. /\ FinanceTypeOK /\ EntriesAreExplained /\ BankMoneyUsedOnce
      /\ settlements \in Seq(Settlement)
      /\ entryIs \in [Entry -> {"NONE", "OPEN", "PARTIAL", "SETTLED", "CANCELLED"}]
      /\ UNCHANGED <<settlements, rowIs, decisions, bankTransfers>>
  BY DEF FinanceInv, FinanceTypeOK, CreateEntry, CancelEntry
<1>2. LiveOf(settlements, e) = {} /\ entryIs'[e] \in {"OPEN", "CANCELLED"}
  BY <1>1 DEF CreateEntry, CancelEntry, EntriesAreExplained, Live
<1>3. SettledCents(settlements, e) = 0 /\ StatusWith(settlements, e) = "OPEN"
  <2>1. SettledCents(settlements, e) = 0
    BY <1>1, <1>2, SettledIsNat
  <2>2. QED
    BY <2>1 DEF StatusWith
<1>4. \A f \in Entry \ {e} : entryIs'[f] = entryIs[f]
  BY <1>1 DEF CreateEntry, CancelEntry
<1>5. EntriesAreExplained'
  <2>1. \A f \in Entry : /\ SettledCents(settlements', f) = SettledCents(settlements, f)
                         /\ LiveOf(settlements', f) = LiveOf(settlements, f)
                         /\ StatusWith(settlements', f) = StatusWith(settlements, f)
    BY <1>1
  <2>2. QED
    BY <1>1, <1>2, <1>3, <1>4, <2>1 DEF EntriesAreExplained, Live
<1>6. BankMoneyUsedOnce'
  BY <1>1 DEF BankMoneyUsedOnce, UsedOnce, Accepted, InTransfer, Backed
<1>7. FinanceTypeOK'
  BY <1>1 DEF FinanceTypeOK, CreateEntry, CancelEntry
<1>8. QED
  BY <1>5, <1>6, <1>7 DEF FinanceInv

LEMMA EntriesStayExplained ==
  ASSUME EntriesAreExplained, UNCHANGED ledger
  PROVE  EntriesAreExplained'
  BY DEF EntriesAreExplained, ledger, Live, LiveOf, SettledCents, CentsIn, StatusWith

LEMMA RowStepKeepsInv ==
  ASSUME FinanceInv,
         \/ \E file \in SUBSET BankRow : CommitStatement(file)
         \/ \E debit, credit \in BankRow : ConfirmTransfer(debit, credit)
  PROVE  FinanceInv'
<1>1. /\ FinanceTypeOK /\ EntriesAreExplained /\ BankMoneyUsedOnce
      /\ rowIs \in [BankRow -> {"NONE", "UNMATCHED", "MATCHED", "TRANSFERRED"}]
      /\ UNCHANGED <<ledger, decisions>>
  BY DEF FinanceInv, FinanceTypeOK, CommitStatement, ConfirmTransfer
<1>2. EntriesAreExplained'
  BY <1>1, EntriesStayExplained
<1>3. \A n \in DOMAIN settlements : Backed(n)' <=> Backed(n)
  BY <1>1 DEF Backed, Accepted, ledger
<1>4. \A r \in BankRow : Accepted(r)' = Accepted(r)
  BY <1>1 DEF Accepted
<1>5. FinanceTypeOK' /\ \A r \in BankRow : UsedOnce(r)'
  <2>1. CASE \E file \in SUBSET BankRow : CommitStatement(file)
    <3>1. PICK file \in SUBSET BankRow : CommitStatement(file)
      BY <2>1
    <3>2. /\ bankTransfers' = bankTransfers
          /\ rowIs' \in [BankRow -> {"NONE", "UNMATCHED", "MATCHED", "TRANSFERRED"}]
          /\ \A r \in BankRow : rowIs'[r] # rowIs[r] => rowIs[r] = "NONE" /\ rowIs'[r] = "UNMATCHED"
      BY <1>1, <3>1 DEF CommitStatement, Imported
    <3>3. FinanceTypeOK'
      BY <1>1, <3>2 DEF FinanceTypeOK, ledger
    <3>4. ASSUME NEW r \in BankRow
          PROVE  UsedOnce(r)'
      <4>1. UsedOnce(r)
        BY <1>1 DEF BankMoneyUsedOnce
      <4>2. QED
        BY <1>4, <3>2, <4>1 DEF UsedOnce, InTransfer
    <3>5. QED
      BY <3>3, <3>4
  <2>2. CASE \E debit, credit \in BankRow : ConfirmTransfer(debit, credit)
    <3>1. PICK debit, credit \in BankRow : ConfirmTransfer(debit, credit)
      BY <2>2
    <3>2. /\ bankTransfers' = bankTransfers \union {<<debit, credit>>}
          /\ rowIs[debit] = "UNMATCHED" /\ rowIs[credit] = "UNMATCHED"
          /\ rowIs' \in [BankRow -> {"NONE", "UNMATCHED", "MATCHED", "TRANSFERRED"}]
          /\ \A r \in BankRow :
               rowIs'[r] = IF r = debit \/ r = credit THEN "TRANSFERRED" ELSE rowIs[r]
      BY <1>1, <3>1 DEF ConfirmTransfer, MayMove
    <3>3. FinanceTypeOK'
      BY <1>1, <3>2 DEF FinanceTypeOK, ledger
    <3>4. ASSUME NEW r \in BankRow
          PROVE  UsedOnce(r)'
      <4>1. /\ UsedOnce(r)
            /\ InTransfer(r, <<debit, credit>>) <=> r = debit \/ r = credit
        BY <1>1 DEF BankMoneyUsedOnce, InTransfer
      <4>2. CASE r = debit \/ r = credit
        <5>1. Accepted(r) = {} /\ ~ \E t \in bankTransfers : InTransfer(r, t)
          BY <3>2, <4>1, <4>2 DEF UsedOnce
        <5>2. QED
          BY <1>4, <3>2, <4>1, <4>2, <5>1 DEF UsedOnce
      <4>3. CASE ~(r = debit \/ r = credit)
        BY <1>4, <3>2, <4>1, <4>3 DEF UsedOnce
      <4>4. QED
        BY <4>2, <4>3
    <3>5. QED
      BY <3>3, <3>4
  <2>3. QED
    BY <2>1, <2>2
<1>6. BankMoneyUsedOnce'
  BY <1>1, <1>3, <1>5 DEF BankMoneyUsedOnce, ledger
<1>7. QED
  BY <1>2, <1>5, <1>6 DEF FinanceInv

LEMMA RejectMatchKeepsInv ==
  ASSUME FinanceInv, NEW r \in BankRow, NEW e \in Entry, RejectMatch(r, e)
  PROVE  FinanceInv'
<1> DEFINE d == [row |-> r, entry |-> e, accepted |-> FALSE, cents |-> 0, settlement |-> 0]
           l == Len(decisions) + 1
<1>1. /\ FinanceTypeOK /\ EntriesAreExplained /\ BankMoneyUsedOnce
      /\ UNCHANGED <<ledger, rowIs, bankTransfers>>
      /\ decisions \in Seq(Decision) /\ d \in Decision
      /\ decisions' = Append(decisions, d)
  BY DEF FinanceInv, FinanceTypeOK, RejectMatch, Decided, Decision
<1>2. /\ decisions' \in Seq(Decision)
      /\ DOMAIN decisions' = DOMAIN decisions \union {l}
      /\ \A i \in DOMAIN decisions : decisions'[i] = decisions[i]
      /\ ~decisions'[l].accepted
  BY <1>1
<1> HIDE DEF d, l
<1>3. \A q : Accepted(q)' = Accepted(q)
  BY <1>2 DEF Accepted
<1>4. EntriesAreExplained'
  BY <1>1, EntriesStayExplained
<1>5. \A q \in BankRow : UsedOnce(q)'
  BY <1>1, <1>3 DEF BankMoneyUsedOnce, UsedOnce, InTransfer
<1>6. ASSUME NEW n \in DOMAIN settlements, Backed(n)
      PROVE  Backed(n)'
  <2>1. \A i \in Accepted(settlements[n].from) : decisions'[i] = decisions[i]
    BY <1>2 DEF Accepted
  <2>2. settlements' = settlements
    BY <1>1 DEF ledger
  <2>3. QED
    BY <1>3, <1>6, <2>1, <2>2 DEF Backed
<1>7. BankMoneyUsedOnce'
  BY <1>1, <1>5, <1>6 DEF BankMoneyUsedOnce, ledger
<1>8. FinanceTypeOK'
  BY <1>1, <1>2 DEF FinanceTypeOK, ledger
<1>9. QED
  BY <1>4, <1>7, <1>8 DEF FinanceInv

LEMMA FinanceNextKeepsInv ==
  ASSUME FinanceInv, [FinanceNext]_financeVars
  PROVE  FinanceInv'
<1>1. CASE UNCHANGED financeVars
  <2>1. EntriesAreExplained'
    BY <1>1, EntriesStayExplained DEF FinanceInv, financeVars
  <2>2. FinanceTypeOK' /\ BankMoneyUsedOnce'
    BY <1>1 DEF FinanceInv, financeVars, ledger, FinanceTypeOK, BankMoneyUsedOnce,
                UsedOnce, Accepted, InTransfer, Backed
  <2>3. QED
    BY <2>1, <2>2 DEF FinanceInv
<1>2. CASE FinanceNext
  BY <1>2, EntryStepKeepsInv, SettleEntryKeepsInv, ReverseSettlementKeepsInv,
     RowStepKeepsInv, RejectMatchKeepsInv, ConfirmMatchKeepsInv
  DEF FinanceNext
<1>3. QED
  BY <1>1, <1>2

(* Entries, settlements, rows of the bank and decisions keep their types.  *)
THEOREM FinanceTypeCorrect == FinanceSpec => []FinanceTypeOK
<1>1. FinanceInv => FinanceTypeOK
  BY DEF FinanceInv
<1>2. QED
  BY <1>1, FinanceInitKeepsInv, FinanceNextKeepsInv, PTL DEF FinanceSpec

(* For any number of entries, settlements and rows of the bank, whatever   *)
(* is settled and reversed, an entry is paid by its live settlements and   *)
(* the money of the bank is used once.                                     *)
THEOREM LedgerStaysExplained == FinanceSpec => []LedgerIsExplained
<1>1. FinanceInv => LedgerIsExplained
  BY DEF FinanceInv, LedgerIsExplained
<1>2. QED
  BY <1>1, FinanceInitKeepsInv, FinanceNextKeepsInv, PTL DEF FinanceSpec

-----------------------------------------------------------------------------
(* The queue of telemetry: what is left of a sequence.                     *)

LEMMA NatSetInduction ==
  ASSUME NEW P, 0 \in P, \A n \in Nat : n \in P => n + 1 \in P
  PROVE  \A n \in Nat : n \in P
<1> SUFFICES ASSUME NEW k \in Nat, k \notin P
             PROVE  FALSE
  OBVIOUS
<1> DEFINE Rest == {n \in Nat : n \notin P}
<1>1. Rest \subseteq Nat /\ Rest # {}
  OBVIOUS
<1> HIDE DEF Rest
<1>2. PICK m \in Rest : \A n \in Rest : <<n, m>> \notin OpToRel(<, Nat)
  BY <1>1, WFMin, NatLessThanWellFounded
<1>3. \A n \in Rest : ~(n < m)
  BY <1>1, <1>2 DEF OpToRel
<1>4. CASE m = 0
  BY <1>4 DEF Rest
<1>5. CASE m # 0
  <2>1. m - 1 \in Nat /\ m - 1 < m /\ (m - 1) + 1 = m /\ m \notin P
    BY <1>5 DEF Rest
  <2>2. m - 1 \in P
    BY <1>3, <2>1 DEF Rest
  <2>3. QED
    BY <2>1, <2>2
<1>6. QED
  BY <1>4, <1>5

\* The recursion of Among, up to the n-th event.
IsKept(g, s, some, n) ==
  g = [m \in 0..n |->
         IF m = 0 THEN <<>>
         ELSE IF s[m] \in some THEN Append(g[m - 1], s[m])
         ELSE g[m - 1]]

LEMMA KeptExists ==
  ASSUME NEW s, NEW some
  PROVE  \A n \in Nat : \E g : IsKept(g, s, some, n)
<1> DEFINE P == {n \in Nat : \E g : IsKept(g, s, some, n)}
<1>1. 0 \in P
  <2> DEFINE g == [m \in 0..0 |-> <<>>]
  <2>1. IsKept(g, s, some, 0)
    BY DEF IsKept
  <2>2. QED
    BY <2>1
<1>2. ASSUME NEW n \in Nat, n \in P
      PROVE  n + 1 \in P
  <2>1. PICK g : IsKept(g, s, some, n)
    BY <1>2
  <2> DEFINE h == [m \in 0..(n + 1) |->
                     IF m <= n THEN g[m]
                     ELSE IF s[m] \in some THEN Append(g[m - 1], s[m])
                     ELSE g[m - 1]]
             Step(m) == IF m = 0 THEN <<>>
                        ELSE IF s[m] \in some THEN Append(h[m - 1], s[m])
                        ELSE h[m - 1]
  <2>2. ASSUME NEW m \in 0..(n + 1)
        PROVE  h[m] = Step(m)
    <3>1. m # 0 => m - 1 \in 0..n /\ h[m - 1] = g[m - 1]
      OBVIOUS
    <3>2. CASE m <= n
      <4>1. h[m] = g[m] /\ m \in 0..n
        BY <3>2
      <4>2. g[m] = IF m = 0 THEN <<>>
                   ELSE IF s[m] \in some THEN Append(g[m - 1], s[m])
                   ELSE g[m - 1]
        BY <2>1, <4>1 DEF IsKept
      <4>3. QED
        BY <3>1, <4>1, <4>2
    <3>3. CASE m = n + 1
      <4>1. h[m] = IF s[m] \in some THEN Append(g[m - 1], s[m]) ELSE g[m - 1]
        BY <3>3
      <4>2. QED
        BY <3>1, <3>3, <4>1
    <3>4. QED
      BY <3>2, <3>3
  <2>3. h = [m \in 0..(n + 1) |-> h[m]]
    OBVIOUS
  <2> HIDE DEF h
  <2>4. IsKept(h, s, some, n + 1)
    BY <2>2, <2>3 DEF IsKept
  <2>5. QED
    BY <2>4
<1> HIDE DEF P
<1>3. \A n \in Nat : n \in P
  BY <1>1, <1>2, NatSetInduction
<1>4. QED
  BY <1>3 DEF P

LEMMA AmongIsKept ==
  ASSUME NEW T, NEW s \in Seq(T), NEW some
  PROVE  \E g : IsKept(g, s, some, Len(s)) /\ Among(s, some) = g[Len(s)]
<1> DEFINE g == CHOOSE g : IsKept(g, s, some, Len(s))
<1>1. IsKept(g, s, some, Len(s))
  BY KeptExists
<1>2. Among(s, some) = g[Len(s)]
  BY DEF Among, IsKept
<1>3. QED
  BY <1>1, <1>2

\* What is kept of the first n events.
Keeps(w, s, some, n, T) ==
  /\ w \in Seq(T) /\ Len(w) <= n
  /\ \A i \in DOMAIN w : \E m \in 1..n : w[i] = s[m] /\ s[m] \in some
  /\ \A m \in 1..n : s[m] \in some => \E i \in DOMAIN w : w[i] = s[m]
  /\ IsInjective(s) => IsInjective(w)
  /\ (\E m \in 1..n : s[m] \notin some) => Len(w) < n

LEMMA KeepsStep ==
  ASSUME NEW T, NEW s \in Seq(T), NEW some, NEW n \in Nat, n < Len(s),
         NEW v, Keeps(v, s, some, n, T),
         NEW w, w = IF s[n + 1] \in some THEN Append(v, s[n + 1]) ELSE v
  PROVE  Keeps(w, s, some, n + 1, T)
<1>1. n + 1 \in 1..Len(s) /\ s[n + 1] \in T /\ DOMAIN s = 1..Len(s)
  OBVIOUS
<1>2. v \in Seq(T) /\ Len(v) <= n /\ Len(v) \in Nat /\ DOMAIN v = 1..Len(v)
  BY DEF Keeps
<1>3. CASE s[n + 1] \in some
  <2>1. /\ w \in Seq(T) /\ Len(w) = Len(v) + 1 /\ DOMAIN w = DOMAIN v \union {Len(v) + 1}
        /\ \A i \in DOMAIN v : w[i] = v[i]
        /\ w[Len(v) + 1] = s[n + 1]
    BY <1>1, <1>2, <1>3
  <2>2. \A i \in DOMAIN w : \E m \in 1..(n + 1) : w[i] = s[m] /\ s[m] \in some
    <3> SUFFICES ASSUME NEW i \in DOMAIN w
                 PROVE  \E m \in 1..(n + 1) : w[i] = s[m] /\ s[m] \in some
      OBVIOUS
    <3>1. CASE i \in DOMAIN v
      <4>1. PICK m \in 1..n : v[i] = s[m] /\ s[m] \in some
        BY <3>1 DEF Keeps
      <4>2. QED
        BY <2>1, <3>1, <4>1
    <3>2. CASE i = Len(v) + 1
      BY <1>3, <2>1, <3>2
    <3>3. QED
      BY <2>1, <3>1, <3>2
  <2>3. \A m \in 1..(n + 1) : s[m] \in some => \E i \in DOMAIN w : w[i] = s[m]
    <3> SUFFICES ASSUME NEW m \in 1..(n + 1), s[m] \in some
                 PROVE  \E i \in DOMAIN w : w[i] = s[m]
      OBVIOUS
    <3>1. CASE m = n + 1
      BY <2>1, <3>1
    <3>2. CASE m # n + 1
      <4>1. PICK i \in DOMAIN v : v[i] = s[m]
        BY <3>2 DEF Keeps
      <4>2. QED
        BY <2>1, <4>1
    <3>3. QED
      BY <3>1, <3>2
  <2>4. ASSUME IsInjective(s)
        PROVE  IsInjective(w)
    <3>1. \A i \in DOMAIN v : v[i] # s[n + 1]
      <4> SUFFICES ASSUME NEW i \in DOMAIN v, v[i] = s[n + 1]
                   PROVE  FALSE
        OBVIOUS
      <4>1. PICK m \in 1..n : v[i] = s[m]
        BY DEF Keeps
      <4>2. m \in DOMAIN s /\ n + 1 \in DOMAIN s /\ m # n + 1
        BY <1>1, <4>1
      <4>3. QED
        BY <2>4, <4>1, <4>2 DEF IsInjective
    <3>2. \A i, j \in DOMAIN v : v[i] = v[j] => i = j
      BY <2>4 DEF Keeps, IsInjective
    <3>3. \A i \in DOMAIN w : i \in DOMAIN v \/ i = Len(v) + 1
      BY <2>1
    <3>4. QED
      BY <2>1, <3>1, <3>2, <3>3 DEF IsInjective
  <2>5. (\E m \in 1..(n + 1) : s[m] \notin some) => Len(w) < n + 1
    <3> SUFFICES ASSUME NEW m \in 1..(n + 1), s[m] \notin some
                 PROVE  Len(w) < n + 1
      OBVIOUS
    <3>1. m \in 1..n
      BY <1>3
    <3>2. Len(v) < n
      BY <3>1 DEF Keeps
    <3>3. QED
      BY <1>2, <2>1, <3>2
  <2>6. Len(w) <= n + 1
    BY <1>2, <2>1
  <2>7. w \in Seq(T)
    BY <2>1
  <2>8. QED
    BY <2>2, <2>3, <2>4, <2>5, <2>6, <2>7 DEF Keeps
<1>4. CASE s[n + 1] \notin some
  <2>1. w = v
    BY <1>4
  <2>2. \A m \in 1..(n + 1) : s[m] \in some => m \in 1..n
    BY <1>4
  <2>3. \A m \in 1..n : m \in 1..(n + 1)
    OBVIOUS
  <2>4. Len(v) < n + 1 /\ Len(v) <= n + 1
    BY <1>2
  <2>5. QED
    BY <2>1, <2>2, <2>3, <2>4 DEF Keeps
<1>5. QED
  BY <1>3, <1>4

LEMMA AmongKeeps ==
  ASSUME NEW T, NEW s \in Seq(T), NEW some
  PROVE  Keeps(Among(s, some), s, some, Len(s), T)
<1>1. PICK g : IsKept(g, s, some, Len(s)) /\ Among(s, some) = g[Len(s)]
  BY AmongIsKept
<1> DEFINE P == {n \in Nat : n <= Len(s) => Keeps(g[n], s, some, n, T)}
<1>2. 0 \in P
  <2>1. g[0] = <<>>
    BY <1>1 DEF IsKept
  <2>2. Keeps(<<>>, s, some, 0, T)
    BY DEF Keeps, IsInjective
  <2>3. QED
    BY <2>1, <2>2
<1>3. ASSUME NEW n \in Nat, n \in P
      PROVE  n + 1 \in P
  <2> SUFFICES ASSUME n + 1 <= Len(s)
               PROVE  Keeps(g[n + 1], s, some, n + 1, T)
    OBVIOUS
  <2>1. n + 1 \in 0..Len(s) /\ n + 1 # 0 /\ (n + 1) - 1 = n /\ n < Len(s)
    OBVIOUS
  <2>2. g[n + 1] = IF s[n + 1] \in some THEN Append(g[n], s[n + 1]) ELSE g[n]
    BY <1>1, <2>1 DEF IsKept
  <2>3. Keeps(g[n], s, some, n, T)
    BY <1>3, <2>1
  <2>4. QED
    BY <2>1, <2>2, <2>3, KeepsStep
<1> HIDE DEF P
<1>4. Len(s) \in P
  BY <1>2, <1>3, NatSetInduction
<1>5. QED
  BY <1>1, <1>4 DEF P

\* Those that are some of those given are left, in their order and once each.
LEMMA AmongIs ==
  ASSUME NEW T, NEW s \in Seq(T), NEW some
  PROVE  /\ Among(s, some) \in Seq(T)
         /\ Range(Among(s, some)) = Range(s) \intersect some
         /\ IsInjective(s) => IsInjective(Among(s, some))
         /\ Len(Among(s, some)) <= Len(s)
         /\ ~(Range(s) \subseteq some) => Len(Among(s, some)) < Len(s)
<1> DEFINE w == Among(s, some)
<1>1. Keeps(w, s, some, Len(s), T) /\ DOMAIN s = 1..Len(s)
  BY AmongKeeps
<1> HIDE DEF w
<1>2. Range(w) \subseteq Range(s) \intersect some
  BY <1>1 DEF Keeps, Range
<1>3. Range(s) \intersect some \subseteq Range(w)
  BY <1>1 DEF Keeps, Range
<1>4. ~(Range(s) \subseteq some) => \E m \in 1..Len(s) : s[m] \notin some
  BY <1>1 DEF Range
<1>5. QED
  BY <1>1, <1>2, <1>3, <1>4 DEF Keeps, w

-----------------------------------------------------------------------------
(* The queue of telemetry.                                                 *)

Batch == [events : Seq(Event), client : {"WAITING", "DONE"},
          worker : {"NONE", "OPEN", "ACCEPTED", "INVALID", "FORBIDDEN", "FAILED"},
          next : Nat \ {0}, held : BOOLEAN]

OutboundKept ==
  /\ allowed \in BOOLEAN
  /\ queue \in Seq(Event) /\ later \subseteq Range(queue) /\ Range(queue) \subseteq recorded
  /\ recorded \subseteq Event /\ dropped \subseteq recorded
  /\ points \subseteq recorded

CloudKept ==
  /\ errorReceipts \subseteq ErrorEvent \intersect points
  /\ errorCounts \in [ErrorEvent -> Nat] /\ purged \in [ErrorEvent -> Nat]
  /\ batches \in Seq(Batch)

\* A worker has written what is behind it in its batch.
BatchKept(b) ==
  /\ InBatch(b) \subseteq recorded
  /\ \A m \in DOMAIN batches[b].events :
       m < batches[b].next => batches[b].events[m] \in points
  /\ batches[b].worker = "NONE" => ~batches[b].held
  /\ batches[b].worker = "ACCEPTED" => InBatch(b) \subseteq points
  /\ batches[b].held => /\ batches[b].next \in DOMAIN batches[b].events
                        /\ Current(b) \in ErrorEvent \intersect points

BatchesKept == \A b \in DOMAIN batches : BatchKept(b)

\* A failure whose receipt was new is held by one worker until it is counted.
Holds(b) == batches[b].worker = "OPEN" /\ batches[b].held

HeldOnce ==
  /\ \A b \in DOMAIN batches : Holds(b) =>
       Current(b) \in errorReceipts /\ errorCounts[Current(b)] <= purged[Current(b)]
  /\ \A b, c \in DOMAIN batches : Holds(b) /\ Holds(c) /\ Current(b) = Current(c) => b = c

CountsExplained ==
  \A e \in ErrorEvent :
    /\ errorCounts[e] <= purged[e] + (IF e \in errorReceipts THEN 1 ELSE 0)
    /\ errorCounts[e] > 0 => e \in points

CloudInv == CloudKept /\ BatchesKept /\ HeldOnce /\ CountsExplained
OutboundInv == OutboundKept /\ WithinLimit /\ NoneLost
TelemetryInv == OutboundInv /\ CloudInv

LEMMA TelemetryInitKeepsInv == TelemetryInit => TelemetryInv
  BY TelemetryAssumption
  DEF TelemetryInit, TelemetryInv, OutboundInv, OutboundKept, WithinLimit, NoneLost, IsInjective,
      Range, CloudInv, CloudKept, BatchesKept, HeldOnce, CountsExplained

-----------------------------------------------------------------------------
(* The queue.                                                              *)

\* What leaves the queue is in points already or is given up.
LEMMA QueueLosesSome ==
  ASSUME OutboundInv, NEW gone, queue' = Without(queue, gone),
         later' \subseteq later \ gone, UNCHANGED <<allowed, recorded, points>>,
         dropped \subseteq dropped', dropped' \subseteq recorded,
         Range(queue) \intersect gone \subseteq points \union dropped'
  PROVE  OutboundInv'
<1>1. queue \in Seq(Event) /\ IsInjective(queue) /\ Range(queue) \subseteq Event
  BY DEF OutboundInv, OutboundKept, WithinLimit
<1>2. /\ queue' \in Seq(Event) /\ IsInjective(queue')
      /\ Range(queue') = Range(queue) \intersect (Event \ gone)
      /\ Len(queue') <= Len(queue)
  BY <1>1, AmongIs DEF Without
<1>3. Range(queue') = Range(queue) \ gone
  BY <1>1, <1>2
<1>4. OutboundKept'
  BY <1>2, <1>3 DEF OutboundInv, OutboundKept
<1>5. WithinLimit'
  BY <1>1, <1>2, TelemetryAssumption DEF OutboundInv, WithinLimit
<1>6. NoneLost'
  BY <1>3 DEF OutboundInv, NoneLost
<1>7. QED
  BY <1>4, <1>5, <1>6 DEF OutboundInv

LEMMA AppendRange ==
  ASSUME NEW T, NEW s \in Seq(T), NEW x \in T
  PROVE  /\ Append(s, x) \in Seq(T) /\ Len(Append(s, x)) = Len(s) + 1
         /\ Range(Append(s, x)) = Range(s) \union {x}
         /\ IsInjective(s) /\ x \notin Range(s) => IsInjective(Append(s, x))
<1> DEFINE t == Append(s, x)
<1>1. /\ t \in Seq(T) /\ Len(t) = Len(s) + 1 /\ DOMAIN t = DOMAIN s \union {Len(s) + 1}
      /\ \A i \in DOMAIN s : t[i] = s[i]
      /\ t[Len(s) + 1] = x /\ Len(s) + 1 \notin DOMAIN s
  OBVIOUS
<1> HIDE DEF t
<1>2. Range(t) = Range(s) \union {x}
  BY <1>1 DEF Range
<1>3. IsInjective(s) /\ x \notin Range(s) => IsInjective(t)
  BY <1>1 DEF Range, IsInjective
<1>4. QED
  BY <1>1, <1>2, <1>3 DEF t

LEMMA VictimIsIn ==
  ASSUME NEW s \in Seq(Event), s # <<>>
  PROVE  Victim(s) \in Range(s)
<1>1. CASE Range(s) \intersect Plain # {}
  <2>1. Among(s, Plain) \in Seq(Event) /\ Range(Among(s, Plain)) = Range(s) \intersect Plain
    BY AmongIs
  <2>2. Among(s, Plain) # <<>>
    BY <1>1, <2>1 DEF Range
  <2>3. Among(s, Plain)[1] \in Range(Among(s, Plain))
    BY <2>1, <2>2 DEF Range
  <2>4. QED
    BY <1>1, <2>1, <2>3 DEF Victim
<1>2. CASE Range(s) \intersect Plain = {}
  BY <1>2 DEF Victim, Range
<1>3. QED
  BY <1>1, <1>2

LEMMA RecordKeepsQueue ==
  ASSUME OutboundInv, NEW e \in Event, Record(e)
  PROVE  OutboundInv'
<1> DEFINE longer == Append(queue, e)
           out == Overflow(longer)
<1>1. /\ queue \in Seq(Event) /\ IsInjective(queue) /\ Len(queue) <= MaxPending
      /\ e \notin Range(queue) /\ e \notin recorded
      /\ UNCHANGED <<allowed, batches, points>>
  BY DEF OutboundInv, OutboundKept, WithinLimit, Record, cloud
<1>2. /\ longer \in Seq(Event) /\ Len(longer) = Len(queue) + 1
      /\ Range(longer) = Range(queue) \union {e} /\ IsInjective(longer)
  BY <1>1, AppendRange
<1>3. /\ queue' = Among(longer, Event \ out) /\ later' = later \ out
      /\ recorded' = recorded \union {e} /\ dropped' = dropped \union out
  BY DEF Record, Without
<1>4. out \subseteq Range(longer) /\ (Len(longer) > MaxPending => out # {})
  <2>1. longer # <<>>
    BY <1>1
  <2>2. Victim(longer) \in Range(longer)
    BY <1>2, <2>1, VictimIsIn
  <2>3. QED
    BY <2>2 DEF Overflow
<1> HIDE DEF longer, out
<1>5. /\ queue' \in Seq(Event) /\ IsInjective(queue')
      /\ Range(queue') = Range(longer) \intersect (Event \ out)
      /\ Len(queue') <= Len(longer)
      /\ ~(Range(longer) \subseteq Event \ out) => Len(queue') < Len(longer)
  BY <1>2, <1>3, AmongIs
<1>6. Range(longer) \subseteq Event
  BY <1>2, <1>1 DEF OutboundInv, OutboundKept
<1>7. Range(queue') = (Range(queue) \union {e}) \ out
  BY <1>2, <1>5, <1>6
<1>8. Len(queue') <= MaxPending
  <2>1. /\ Len(queue) \in Nat /\ Len(queue') \in Nat /\ MaxPending \in Nat
        /\ Len(longer) = Len(queue) + 1
    BY <1>1, <1>2, <1>5, TelemetryAssumption
  <2>2. CASE Len(longer) > MaxPending
    <3>1. Len(queue') < Len(longer)
      BY <1>4, <1>5, <2>2
    <3>2. QED
      BY <1>1, <2>1, <3>1
  <2>3. CASE ~(Len(longer) > MaxPending)
    BY <1>5, <2>1, <2>3
  <2>4. QED
    BY <2>2, <2>3
<1>9. OutboundKept'
  <2>1. out \subseteq Range(queue) \union {e}
    BY <1>2, <1>4
  <2>2. QED
    BY <1>1, <1>3, <1>5, <1>7, <2>1 DEF OutboundInv, OutboundKept
<1>10. NoneLost'
  BY <1>1, <1>3, <1>7 DEF OutboundInv, NoneLost
<1>11. QED
  BY <1>5, <1>8, <1>9, <1>10 DEF OutboundInv, WithinLimit

LEMMA WithdrawKeepsQueue ==
  ASSUME OutboundInv, Withdraw
  PROVE  OutboundInv'
<1>1. /\ queue' = <<>> /\ later' = {} /\ dropped' = dropped \union Range(queue)
      /\ allowed' = FALSE /\ UNCHANGED <<recorded, points>>
  BY DEF Withdraw, cloud
<1>2. Range(queue') = {} /\ queue' \in Seq(Event) /\ IsInjective(queue') /\ Len(queue') = 0
  BY <1>1 DEF Range, IsInjective
<1>3. OutboundKept'
  BY <1>1, <1>2 DEF OutboundInv, OutboundKept
<1>4. WithinLimit' /\ NoneLost'
  BY <1>1, <1>2, TelemetryAssumption DEF OutboundInv, WithinLimit, NoneLost
<1>5. QED
  BY <1>3, <1>4 DEF OutboundInv

\* The worker writes more of what was recorded, or the queue is only put off.
LEMMA QueueStays ==
  ASSUME OutboundInv, UNCHANGED <<queue, recorded, dropped>>, allowed' \in BOOLEAN,
         later' \subseteq Range(queue), points \subseteq points', points' \subseteq recorded
  PROVE  OutboundInv'
<1>1. OutboundKept'
  BY DEF OutboundInv, OutboundKept
<1>2. WithinLimit' /\ NoneLost'
  BY DEF OutboundInv, WithinLimit, NoneLost
<1>3. QED
  BY <1>1, <1>2 DEF OutboundInv

-----------------------------------------------------------------------------
(* The batches.                                                            *)

LEMMA BatchIs ==
  ASSUME CloudKept, NEW b \in DOMAIN batches
  PROVE  /\ batches[b].events \in Seq(Event) /\ batches[b].next \in Nat \ {0}
         /\ batches[b].held \in BOOLEAN
         /\ DOMAIN batches[b].events = 1..Len(batches[b].events)
         /\ Len(batches[b].events) \in Nat
<1>1. batches[b] \in Batch
  BY DEF CloudKept
<1>2. batches[b].events \in Seq(Event)
  BY <1>1 DEF Batch
<1>3. QED
  BY <1>1, <1>2 DEF Batch

\* How a step leaves the batches that it does not take an event of.
SameProgress ==
  /\ batches' \in Seq(Batch) /\ DOMAIN batches' = DOMAIN batches
  /\ \A b \in DOMAIN batches :
       /\ batches'[b].events = batches[b].events
       /\ batches'[b].next = batches[b].next
       /\ batches'[b].held = batches[b].held
       /\ batches'[b].worker # batches[b].worker =>
            /\ batches'[b].worker # "NONE"
            /\ batches'[b].worker = "ACCEPTED" =>
                 batches[b].next > Len(batches[b].events)
            /\ batches'[b].worker = "OPEN" => batches[b].worker = "NONE"

LEMMA SameProgressKeepsCloud ==
  ASSUME CloudInv, SameProgress, UNCHANGED cloud, recorded \subseteq recorded'
  PROVE  CloudInv'
<1>1. CloudKept /\ BatchesKept /\ HeldOnce /\ CountsExplained
  BY DEF CloudInv
<1>2. UNCHANGED <<points, errorReceipts, errorCounts, purged>>
  BY DEF cloud
<1>3. CloudKept'
  BY <1>1, <1>2 DEF CloudKept, SameProgress
<1>4. \A b \in DOMAIN batches : InBatch(b)' = InBatch(b) /\ Current(b)' = Current(b)
  BY DEF SameProgress, InBatch, Current
<1>5. ASSUME NEW b \in DOMAIN batches
      PROVE  BatchKept(b)' /\ (Holds(b)' => Holds(b))
  <2>1. BatchKept(b)
    BY <1>1 DEF BatchesKept
  <2>2. /\ batches'[b].events = batches[b].events
        /\ batches'[b].next = batches[b].next
        /\ batches'[b].held = batches[b].held
        /\ batches'[b].worker # batches[b].worker =>
             /\ batches'[b].worker # "NONE"
             /\ batches'[b].worker = "ACCEPTED" =>
                  batches[b].next > Len(batches[b].events)
             /\ batches'[b].worker = "OPEN" => batches[b].worker = "NONE"
    BY DEF SameProgress
  <2>3. batches[b].next > Len(batches[b].events) => InBatch(b) \subseteq points
    <3> SUFFICES ASSUME batches[b].next > Len(batches[b].events)
                 PROVE  InBatch(b) \subseteq points
      OBVIOUS
    <3>1. \A m \in DOMAIN batches[b].events : m < batches[b].next
      BY <1>1, BatchIs
    <3>2. QED
      BY <2>1, <3>1 DEF BatchKept, InBatch, Range
  <2>4. Holds(b)' => Holds(b)
    BY <2>1, <2>2 DEF Holds, BatchKept
  <2>5. InBatch(b)' \subseteq recorded'
    BY <1>4, <2>1 DEF BatchKept
  <2>6. \A m \in DOMAIN batches'[b].events :
          m < batches'[b].next => batches'[b].events[m] \in points'
    BY <1>2, <2>1, <2>2 DEF BatchKept
  <2>7. /\ batches'[b].worker = "NONE" => ~batches'[b].held
        /\ batches'[b].worker = "ACCEPTED" => InBatch(b)' \subseteq points'
    BY <1>2, <1>4, <2>1, <2>2, <2>3 DEF BatchKept
  <2>8. batches'[b].held => /\ batches'[b].next \in DOMAIN batches'[b].events
                            /\ Current(b)' \in ErrorEvent \intersect points'
    BY <1>2, <1>4, <2>1, <2>2 DEF BatchKept
  <2>9. QED
    BY <2>4, <2>5, <2>6, <2>7, <2>8 DEF BatchKept
<1>6. DOMAIN batches' = DOMAIN batches
  BY DEF SameProgress
<1>7. BatchesKept'
  BY <1>5, <1>6 DEF BatchesKept
<1>8. HeldOnce'
  BY <1>1, <1>2, <1>4, <1>5, <1>6 DEF HeldOnce
<1>9. CountsExplained'
  BY <1>1, <1>2 DEF CountsExplained
<1>10. QED
  BY <1>3, <1>7, <1>8, <1>9 DEF CloudInv

LEMMA CloudStays ==
  ASSUME CloudInv, UNCHANGED <<batches, cloud>>, recorded \subseteq recorded'
  PROVE  CloudInv'
<1>1. SameProgress
  BY DEF SameProgress, CloudInv, CloudKept
<1>2. QED
  BY <1>1, SameProgressKeepsCloud

-----------------------------------------------------------------------------
(* What each step keeps.                                                   *)

WorkerOutcome == {"NONE", "OPEN", "ACCEPTED", "INVALID", "FORBIDDEN", "FAILED"}

LEMMA WorkerChanges ==
  ASSUME CloudKept, NEW b \in DOMAIN batches, NEW outcome \in WorkerOutcome \ {"NONE"},
         batches' = [batches EXCEPT ![b].worker = outcome],
         outcome = "ACCEPTED" => batches[b].next > Len(batches[b].events),
         outcome = "OPEN" => batches[b].worker = "NONE"
  PROVE  SameProgress
<1>1. batches \in Seq(Batch) /\ batches[b] \in Batch
  BY DEF CloudKept
<1>2. /\ DOMAIN batches' = DOMAIN batches
      /\ \A c \in DOMAIN batches : c # b => batches'[c] = batches[c]
      /\ batches'[b] = [batches[b] EXCEPT !.worker = outcome]
  BY <1>1
<1>3. /\ batches'[b].events = batches[b].events /\ batches'[b].next = batches[b].next
      /\ batches'[b].held = batches[b].held /\ batches'[b].worker = outcome
      /\ batches'[b] \in Batch
  BY <1>1, <1>2 DEF Batch, WorkerOutcome
<1>4. batches' \in Seq(Batch)
  <2>1. batches' = [batches EXCEPT ![b] = batches'[b]]
    BY <1>2
  <2>2. QED
    BY <1>1, <1>3, <2>1
<1>5. QED
  BY <1>2, <1>3, <1>4 DEF SameProgress, WorkerOutcome

LEMMA ClientEnds ==
  ASSUME CloudKept, NEW b \in DOMAIN batches, Ended(b)
  PROVE  SameProgress
<1>1. batches \in Seq(Batch) /\ batches[b] \in Batch
  BY DEF CloudKept
<1>2. /\ DOMAIN batches' = DOMAIN batches
      /\ \A c \in DOMAIN batches : c # b => batches'[c] = batches[c]
      /\ batches'[b] = [batches[b] EXCEPT !.client = "DONE"]
  BY <1>1 DEF Ended
<1>3. /\ batches'[b].events = batches[b].events /\ batches'[b].next = batches[b].next
      /\ batches'[b].held = batches[b].held /\ batches'[b].worker = batches[b].worker
      /\ batches'[b] \in Batch
  BY <1>1, <1>2 DEF Batch
<1>4. batches' \in Seq(Batch)
  <2>1. batches' = [batches EXCEPT ![b] = batches'[b]]
    BY <1>2 DEF Ended
  <2>2. QED
    BY <1>1, <1>3, <2>1
<1>5. QED
  BY <1>2, <1>3, <1>4 DEF SameProgress

LEMMA ClientsStop ==
  ASSUME CloudKept, batches' = Stopped
  PROVE  SameProgress
<1>1. batches \in Seq(Batch) /\ \A c \in DOMAIN batches : batches[c] \in Batch
  BY DEF CloudKept
<1>2. /\ DOMAIN batches' = DOMAIN batches
      /\ \A c \in DOMAIN batches : batches'[c] = [batches[c] EXCEPT !.client = "DONE"]
  BY DEF Stopped
<1>3. \A c \in DOMAIN batches :
        /\ batches'[c].events = batches[c].events /\ batches'[c].next = batches[c].next
        /\ batches'[c].held = batches[c].held /\ batches'[c].worker = batches[c].worker
        /\ batches'[c] \in Batch
  BY <1>1, <1>2 DEF Batch
<1>4. batches' \in Seq(Batch)
  <2>1. batches' = [c \in 1..Len(batches) |-> batches'[c]] /\ Len(batches) \in Nat
    BY <1>1, <1>2 DEF Stopped
  <2>2. QED
    BY <1>1, <1>3, <2>1
<1>5. QED
  BY <1>2, <1>3, <1>4 DEF SameProgress

LEMMA ConsentStepKeepsInv ==
  ASSUME TelemetryInv, CutInWithdraw \/ Allow \/ Restart
  PROVE  TelemetryInv'
<1>1. /\ OutboundInv /\ CloudInv /\ CloudKept
      /\ UNCHANGED <<queue, later, recorded, dropped, cloud>> /\ allowed' \in BOOLEAN
      /\ later \subseteq Range(queue) /\ points \subseteq recorded
  BY DEF TelemetryInv, OutboundInv, OutboundKept, CloudInv, CutInWithdraw, Allow, Restart, outbound
<1>2. SameProgress
  <2>1. CASE batches' = Stopped
    BY <1>1, <2>1, ClientsStop
  <2>2. CASE UNCHANGED batches
    BY <1>1, <2>2 DEF SameProgress, CloudKept
  <2>3. QED
    BY <2>1, <2>2 DEF CutInWithdraw, Allow, Restart
<1>3. CloudInv'
  BY <1>1, <1>2, SameProgressKeepsCloud
<1>4. OutboundInv'
  BY <1>1, QueueStays DEF cloud
<1>5. QED
  BY <1>3, <1>4 DEF TelemetryInv

LEMMA QueueStepKeepsInv ==
  ASSUME TelemetryInv, (\E e \in Event : Record(e)) \/ Withdraw
  PROVE  TelemetryInv'
<1>1. OutboundInv'
  BY RecordKeepsQueue, WithdrawKeepsQueue DEF TelemetryInv
<1>2. CloudInv'
  BY CloudStays DEF TelemetryInv, Record, Withdraw
<1>3. QED
  BY <1>1, <1>2 DEF TelemetryInv

LEMMA WorkerStepKeepsInv ==
  ASSUME TelemetryInv, NEW b \in DOMAIN batches,
         \/ Receive(b) \/ Fail(b) \/ Accept(b)
         \/ \E outcome \in {"INVALID", "FORBIDDEN"} : Refuse(b, outcome)
  PROVE  TelemetryInv'
<1>1. /\ OutboundInv /\ CloudInv /\ CloudKept /\ UNCHANGED <<outbound, cloud>>
      /\ later \subseteq Range(queue) /\ points \subseteq recorded /\ allowed \in BOOLEAN
  BY DEF TelemetryInv, OutboundInv, OutboundKept, CloudInv, Receive, Fail, Accept, Refuse
<1>2. PICK outcome \in WorkerOutcome \ {"NONE"} :
        /\ batches' = [batches EXCEPT ![b].worker = outcome]
        /\ outcome = "ACCEPTED" => batches[b].next > Len(batches[b].events)
        /\ outcome = "OPEN" => batches[b].worker = "NONE"
  BY DEF Receive, Fail, Accept, Refuse, WorkerOutcome
<1>3. SameProgress
  BY <1>1, <1>2, WorkerChanges
<1>4. CloudInv'
  BY <1>1, <1>3, SameProgressKeepsCloud DEF outbound
<1>5. OutboundInv'
  BY <1>1, QueueStays DEF outbound, cloud
<1>6. QED
  BY <1>4, <1>5 DEF TelemetryInv

LEMMA AnswerKeepsInv ==
  ASSUME TelemetryInv, NEW b \in DOMAIN batches,
         Acknowledge(b) \/ Discard(b) \/ Pause(b) \/ Reschedule(b)
  PROVE  TelemetryInv'
<1>1. /\ OutboundInv /\ CloudInv /\ CloudKept /\ UNCHANGED <<allowed, recorded, cloud>> /\ Ended(b)
      /\ later \subseteq Range(queue) /\ points \subseteq recorded /\ allowed \in BOOLEAN
      /\ Range(queue) \subseteq recorded /\ dropped \subseteq recorded
  BY DEF TelemetryInv, OutboundInv, OutboundKept, CloudInv, Acknowledge, Discard, Pause,
         Reschedule, outbound
<1>2. CloudInv'
  BY <1>1, ClientEnds, SameProgressKeepsCloud
<1>3. CASE Acknowledge(b)
  <2>1. InBatch(b) \subseteq points
    BY <1>1, <1>3 DEF CloudInv, BatchesKept, BatchKept, Acknowledge
  <2>2. OutboundInv'
    BY <1>1, <1>3, <2>1, QueueLosesSome DEF Acknowledge, cloud
  <2>3. QED
    BY <1>2, <2>2 DEF TelemetryInv
<1>4. CASE Discard(b)
  <2>1. OutboundInv'
    BY <1>1, <1>4, QueueLosesSome DEF Discard, cloud
  <2>2. QED
    BY <1>2, <2>1 DEF TelemetryInv
<1>5. CASE Pause(b) \/ Reschedule(b)
  <2>1. OutboundInv'
    BY <1>1, <1>5, QueueStays DEF Pause, Reschedule, outbound, cloud
  <2>2. QED
    BY <1>2, <2>1 DEF TelemetryInv
<1>6. QED
  BY <1>3, <1>4, <1>5

LEMMA ByPriorityIs ==
  ASSUME NEW s \in Seq(Event)
  PROVE  ByPriority(s) \in Seq(Event) /\ Range(ByPriority(s)) \subseteq Range(s)
<1> DEFINE v == Among(s, ErrorEvent)
           w == Among(s, Plain)
<1>1. /\ v \in Seq(Event) /\ Range(v) \subseteq Range(s)
      /\ w \in Seq(Event) /\ Range(w) \subseteq Range(s)
  BY AmongIs
<1> HIDE DEF v, w
<1>2. /\ v \o w \in Seq(Event) /\ DOMAIN (v \o w) = 1..(Len(v) + Len(w))
      /\ Len(v) \in Nat /\ Len(w) \in Nat /\ DOMAIN v = 1..Len(v) /\ DOMAIN w = 1..Len(w)
  BY <1>1
<1>3. ASSUME NEW i \in DOMAIN (v \o w)
      PROVE  (v \o w)[i] \in Range(v) \union Range(w)
  <2>1. CASE i <= Len(v)
    BY <1>1, <1>2, <2>1 DEF Range
  <2>2. CASE i > Len(v)
    <3>1. (v \o w)[i] = w[i - Len(v)] /\ i - Len(v) \in DOMAIN w
      BY <1>1, <1>2, <2>2
    <3>2. QED
      BY <3>1 DEF Range
  <2>3. QED
    BY <1>2, <2>1, <2>2
<1>4. Range(v \o w) \subseteq Range(s)
  <2>1. Range(v \o w) \subseteq Range(v) \union Range(w)
    BY <1>3 DEF Range
  <2>2. QED
    BY <1>1, <2>1
<1>5. QED
  BY <1>2, <1>4 DEF ByPriority, v, w

LEMMA FlushKeepsInv ==
  ASSUME TelemetryInv, NEW ripe \in SUBSET later, Flush(ripe)
  PROVE  TelemetryInv'
<1> DEFINE due == ByPriority(Among(queue, (Event \ later) \union ripe))
           n == IF Len(due) < BatchSize THEN Len(due) ELSE BatchSize
           x == [events |-> SubSeq(due, 1, n), client |-> "WAITING", worker |-> "NONE",
                 next |-> 1, held |-> FALSE]
<1>1. /\ OutboundInv /\ CloudInv /\ UNCHANGED <<outbound, cloud>>
      /\ queue \in Seq(Event) /\ Range(queue) \subseteq recorded
      /\ batches \in Seq(Batch) /\ batches' = Append(batches, x)
  BY DEF TelemetryInv, OutboundInv, OutboundKept, CloudInv, CloudKept, Flush
<1>2. due \in Seq(Event) /\ Range(due) \subseteq recorded
  <2>1. /\ Among(queue, (Event \ later) \union ripe) \in Seq(Event)
        /\ Range(Among(queue, (Event \ later) \union ripe)) \subseteq Range(queue)
    BY <1>1, AmongIs
  <2>2. QED
    BY <1>1, <2>1, ByPriorityIs
<1> HIDE DEF due
<1>3. n \in 0..Len(due)
  BY <1>2, TelemetryAssumption
<1> HIDE DEF n
<1>4. SubSeq(due, 1, n) \in Seq(Event) /\ Range(SubSeq(due, 1, n)) \subseteq recorded
  <2>1. SubSeq(due, 1, n) = [i \in 1..n |-> due[i]]
    BY <1>2, <1>3
  <2>2. \A i \in 1..n : i \in DOMAIN due
    BY <1>2, <1>3
  <2>3. QED
    BY <1>2, <1>3, <2>1, <2>2 DEF Range
<1>5. x \in Batch
  BY <1>4 DEF Batch
<1>6. /\ Range(x.events) \subseteq recorded /\ x.worker = "NONE" /\ ~x.held /\ x.next = 1
      /\ DOMAIN x.events \subseteq Nat \ {0}
  BY <1>4
<1> HIDE DEF x
<1>7. PICK k \in Nat : k = Len(batches) + 1
  BY <1>1
<1>8. /\ batches' \in Seq(Batch) /\ DOMAIN batches' = DOMAIN batches \union {k}
      /\ \A b \in DOMAIN batches : batches'[b] = batches[b]
      /\ batches'[k] = x /\ k \notin DOMAIN batches
  BY <1>1, <1>5, <1>7
<1>9. /\ UNCHANGED points /\ UNCHANGED errorReceipts /\ UNCHANGED errorCounts
      /\ UNCHANGED purged /\ UNCHANGED recorded
  BY <1>1 DEF outbound, cloud
<1>10. /\ batches'[k].worker = "NONE" /\ ~batches'[k].held /\ batches'[k].next = 1
      /\ DOMAIN batches'[k].events \subseteq Nat \ {0}
      /\ Range(batches'[k].events) \subseteq recorded
  BY <1>6, <1>8
<1>11. /\ ~Holds(k)'
      /\ \A b \in DOMAIN batches :
           /\ InBatch(b)' = InBatch(b) /\ Current(b)' = Current(b)
           /\ Holds(b)' <=> Holds(b)
  BY <1>10, <1>8 DEF InBatch, Current, Holds
<1>12. BatchesKept'
  <2>1. ASSUME NEW b \in DOMAIN batches
        PROVE  BatchKept(b)'
    <3>1. BatchKept(b)
      BY <1>1 DEF CloudInv, BatchesKept
    <3>2. batches'[b] = batches[b] /\ InBatch(b)' = InBatch(b) /\ Current(b)' = Current(b)
      BY <1>8, <1>11
    <3>3. QED
      BY <1>9, <3>1, <3>2 DEF BatchKept
  <2>2. BatchKept(k)'
    <3>1. \A m \in DOMAIN batches'[k].events : ~(m < batches'[k].next)
      BY <1>10
    <3>2. InBatch(k)' \subseteq recorded'
      BY <1>10, <1>9 DEF InBatch
    <3>3. QED
      BY <1>10, <3>1, <3>2 DEF BatchKept
  <2>3. ASSUME NEW b \in DOMAIN batches'
        PROVE  BatchKept(b)'
    <3>1. CASE b = k
      BY <2>2, <3>1
    <3>2. CASE b \in DOMAIN batches
      BY <2>1, <3>2
    <3>3. QED
      BY <1>8, <3>1, <3>2
  <2>4. QED
    BY <2>3 DEF BatchesKept
<1>13. HeldOnce'
  <2>1. \A b \in DOMAIN batches' : Holds(b)' =>
          b \in DOMAIN batches /\ Holds(b) /\ Current(b)' = Current(b)
    BY <1>8, <1>11
  <2>2. HeldOnce
    BY <1>1 DEF CloudInv
  <2>3. QED
    BY <1>9, <2>1, <2>2 DEF HeldOnce
<1>14. CloudKept' /\ CountsExplained'
  BY <1>1, <1>8, <1>9 DEF CloudInv, CloudKept, CountsExplained
<1>15. OutboundInv'
  BY <1>1, QueueStays DEF OutboundInv, OutboundKept, outbound, cloud
<1>16. QED
  BY <1>12, <1>13, <1>14, <1>15 DEF TelemetryInv, CloudInv

LEMMA TakeEventKeepsInv ==
  ASSUME TelemetryInv, NEW b \in DOMAIN batches, TakeEvent(b)
  PROVE  TelemetryInv'
<1> DEFINE e == Current(b)
<1>1. /\ OutboundInv /\ CloudKept /\ BatchesKept /\ HeldOnce /\ CountsExplained
      /\ UNCHANGED <<outbound, errorCounts, purged>>
      /\ batches \in Seq(Batch) /\ batches[b] \in Batch
  BY DEF TelemetryInv, CloudInv, CloudKept, TakeEvent
<1>2. /\ batches[b].next \in DOMAIN batches[b].events /\ batches[b].next \in Nat
      /\ batches[b].worker = "OPEN" /\ ~batches[b].held
      /\ e \in InBatch(b) /\ e \in recorded
  <2>1. batches[b].next \in DOMAIN batches[b].events /\ batches[b].next \in Nat
    BY <1>1, BatchIs DEF TakeEvent, Ready
  <2>2. e \in InBatch(b)
    BY <2>1 DEF InBatch, Range, Current
  <2>3. QED
    BY <1>1, <2>1, <2>2 DEF TakeEvent, Ready, BatchesKept, BatchKept
<1>3. /\ points' = points \union {e}
      /\ errorReceipts' = IF e \in ErrorEvent THEN errorReceipts \union {e} ELSE errorReceipts
  BY DEF TakeEvent
<1>4. /\ DOMAIN batches' = DOMAIN batches /\ batches' \in Seq(Batch)
      /\ \A c \in DOMAIN batches : c # b => batches'[c] = batches[c]
      /\ batches'[b].events = batches[b].events
      /\ batches'[b].worker = "OPEN"
      /\ batches'[b].held = First(e)
      /\ batches'[b].next = IF First(e) THEN batches[b].next ELSE batches[b].next + 1
  <2>1. /\ DOMAIN batches' = DOMAIN batches
        /\ \A c \in DOMAIN batches : c # b => batches'[c] = batches[c]
        /\ batches'[b] = [batches[b] EXCEPT !.held = First(e),
                                            !.next = IF First(e) THEN @ ELSE @ + 1]
    BY <1>1 DEF TakeEvent
  <2>2. /\ batches'[b].events = batches[b].events
        /\ batches'[b].client = batches[b].client
        /\ batches'[b].worker = batches[b].worker
        /\ batches'[b].held = First(e)
        /\ batches'[b].next = IF First(e) THEN batches[b].next ELSE batches[b].next + 1
        /\ DOMAIN batches'[b] = DOMAIN batches[b]
    BY <1>1, <2>1 DEF Batch
  <2>3. batches'[b] \in Batch
    <3>1. First(e) \in BOOLEAN
      BY DEF First
    <3>2. /\ batches[b].events \in Seq(Event) /\ batches[b].client \in {"WAITING", "DONE"}
          /\ batches[b].next \in Nat \ {0}
          /\ batches[b] = [events |-> batches[b].events, client |-> batches[b].client,
                           worker |-> batches[b].worker, next |-> batches[b].next,
                           held |-> batches[b].held]
      BY <1>1 DEF Batch
    <3>3. batches'[b] = [events |-> batches[b].events, client |-> batches[b].client,
                         worker |-> "OPEN", held |-> First(e),
                         next |-> IF First(e) THEN batches[b].next ELSE batches[b].next + 1]
      BY <1>2, <2>1, <3>2
    <3>4. QED
      BY <3>1, <3>2, <3>3 DEF Batch
  <2>4. batches' \in Seq(Batch)
    <3>1. batches' = [batches EXCEPT ![b] = batches'[b]]
      BY <2>1 DEF TakeEvent
    <3>2. QED
      BY <1>1, <2>3, <3>1
  <2>5. QED
    BY <1>2, <2>1, <2>2, <2>4
<1> HIDE DEF e
<1>5. /\ \A c \in DOMAIN batches : InBatch(c)' = InBatch(c)
      /\ \A c \in DOMAIN batches : c # b => Current(c)' = Current(c) /\ (Holds(c)' <=> Holds(c))
      /\ Holds(b)' <=> First(e)
      /\ First(e) => Current(b)' = e
  BY <1>4 DEF InBatch, Current, Holds, e
<1>6. BatchesKept'
  <2>1. ASSUME NEW c \in DOMAIN batches, c # b
        PROVE  BatchKept(c)'
    <3>1. BatchKept(c)
      BY <1>1 DEF BatchesKept
    <3>2. QED
      BY <1>1, <1>3, <1>4, <1>5, <2>1, <3>1 DEF BatchKept, outbound
  <2>2. BatchKept(b)'
    <3>1. BatchKept(b)
      BY <1>1 DEF BatchesKept
    <3>2. \A m \in DOMAIN batches[b].events :
             m < batches[b].next + 1 => batches[b].events[m] \in points'
      <4>1. batches[b].events[batches[b].next] = e
        BY DEF e, Current
      <4>2. \A m \in DOMAIN batches[b].events :
              m < batches[b].next + 1 => m < batches[b].next \/ m = batches[b].next
        BY <1>1, <1>2, BatchIs
      <4>3. QED
        BY <1>3, <3>1, <4>1, <4>2 DEF BatchKept
    <3>3. \A m \in DOMAIN batches'[b].events :
             m < batches'[b].next => batches'[b].events[m] \in points'
      <4>1. CASE First(e)
        BY <1>3, <1>4, <3>1, <4>1 DEF BatchKept
      <4>2. CASE ~First(e)
        BY <1>4, <3>2, <4>2
      <4>3. QED
        BY <4>1, <4>2
    <3>4. batches'[b].held => /\ batches'[b].next \in DOMAIN batches'[b].events
                              /\ Current(b)' \in ErrorEvent \intersect points'
      BY <1>2, <1>3, <1>4, <1>5 DEF First
    <3>5. InBatch(b)' \subseteq recorded'
      BY <1>1, <1>5, <3>1 DEF BatchKept, outbound
    <3>6. batches'[b].worker # "NONE" /\ batches'[b].worker # "ACCEPTED"
      BY <1>4
    <3>7. QED
      BY <3>3, <3>4, <3>5, <3>6 DEF BatchKept
  <2>3. QED
    BY <1>4, <2>1, <2>2 DEF BatchesKept
<1>7. HeldOnce'
  <2>1. First(e) => /\ e \in ErrorEvent /\ e \notin errorReceipts /\ e \in errorReceipts'
                    /\ errorCounts[e] <= purged[e]
    BY <1>1, <1>3 DEF First, CountsExplained, CloudKept
  <2>2. ASSUME NEW c \in DOMAIN batches, c # b, Holds(c)'
        PROVE  /\ Holds(c) /\ Current(c)' = Current(c) /\ Current(c) \in errorReceipts
               /\ errorCounts[Current(c)] <= purged[Current(c)]
    BY <1>1, <1>5, <2>2 DEF HeldOnce
  <2>3. errorReceipts \subseteq errorReceipts' /\ errorCounts' = errorCounts /\ purged' = purged
    BY <1>1, <1>3
  <2>4. ASSUME NEW c \in DOMAIN batches', Holds(c)'
        PROVE  /\ Current(c)' \in errorReceipts'
               /\ errorCounts'[Current(c)'] <= purged'[Current(c)']
    <3>1. CASE c = b
      BY <1>5, <2>1, <2>3, <2>4, <3>1
    <3>2. CASE c # b
      BY <1>4, <2>2, <2>3, <2>4, <3>2
    <3>3. QED
      BY <3>1, <3>2
  <2>5. ASSUME NEW c \in DOMAIN batches', NEW d \in DOMAIN batches', Holds(c)', Holds(d)',
               Current(c)' = Current(d)'
        PROVE  c = d
    <3>1. CASE c = b /\ d # b
      BY <1>4, <1>5, <2>1, <2>2, <2>5, <3>1
    <3>2. CASE c # b /\ d = b
      BY <1>4, <1>5, <2>1, <2>2, <2>5, <3>2
    <3>3. CASE c # b /\ d # b
      BY <1>1, <1>4, <2>2, <2>5, <3>3 DEF HeldOnce
    <3>4. QED
      BY <3>1, <3>2, <3>3
  <2>6. QED
    BY <2>4, <2>5 DEF HeldOnce
<1>8. CountsExplained'
  BY <1>1, <1>3 DEF CountsExplained, CloudKept
<1>9. CloudKept'
  BY <1>1, <1>3, <1>4 DEF CloudKept
<1>10. OutboundInv'
  BY <1>1, <1>2, <1>3, QueueStays DEF OutboundInv, OutboundKept, outbound
<1>11. QED
  BY <1>6, <1>7, <1>8, <1>9, <1>10 DEF TelemetryInv, CloudInv

LEMMA CountErrorKeepsInv ==
  ASSUME TelemetryInv, NEW b \in DOMAIN batches, CountError(b)
  PROVE  TelemetryInv'
<1> DEFINE e == Current(b)
<1>1. /\ OutboundInv /\ CloudKept /\ BatchesKept /\ HeldOnce /\ CountsExplained
      /\ UNCHANGED <<outbound, points, errorReceipts, purged>>
      /\ batches \in Seq(Batch) /\ batches[b] \in Batch
  BY DEF TelemetryInv, CloudInv, CloudKept, CountError
<1>2. /\ batches[b].next \in Nat /\ Holds(b) /\ batches[b].worker = "OPEN" /\ batches[b].held
      /\ e \in ErrorEvent \intersect points
      /\ e \in errorReceipts /\ errorCounts[e] <= purged[e]
      /\ \A c \in DOMAIN batches : Holds(c) /\ Current(c) = e => c = b
  <2>1. batches[b].next \in Nat /\ Holds(b) /\ batches[b].worker = "OPEN" /\ batches[b].held
    BY <1>1, BatchIs DEF CountError, Holds
  <2>2. BatchKept(b)
    BY <1>1 DEF BatchesKept
  <2>3. QED
    BY <1>1, <2>1, <2>2 DEF BatchKept, HeldOnce
<1>3. /\ errorCounts' \in [ErrorEvent -> Nat] /\ errorCounts'[e] = errorCounts[e] + 1
      /\ \A f \in ErrorEvent : f # e => errorCounts'[f] = errorCounts[f]
      /\ errorCounts[e] \in Nat /\ purged[e] \in Nat
  BY <1>1, <1>2 DEF CountError, CloudKept
<1>4. /\ DOMAIN batches' = DOMAIN batches /\ batches' \in Seq(Batch)
      /\ \A c \in DOMAIN batches : c # b => batches'[c] = batches[c]
      /\ batches'[b].events = batches[b].events
      /\ batches'[b].worker = "OPEN"
      /\ batches'[b].held = FALSE
      /\ batches'[b].next = batches[b].next + 1
  <2>1. /\ DOMAIN batches' = DOMAIN batches
        /\ \A c \in DOMAIN batches : c # b => batches'[c] = batches[c]
        /\ batches'[b] = [batches[b] EXCEPT !.held = FALSE, !.next = @ + 1]
    BY <1>1 DEF CountError
  <2>2. /\ batches'[b].events = batches[b].events
        /\ batches'[b].worker = "OPEN"
        /\ batches'[b].held = FALSE
        /\ batches'[b].next = batches[b].next + 1
        /\ batches'[b] \in Batch
    <3>1. /\ batches[b].events \in Seq(Event) /\ batches[b].client \in {"WAITING", "DONE"}
          /\ batches[b].next \in Nat \ {0}
          /\ batches[b] = [events |-> batches[b].events, client |-> batches[b].client,
                           worker |-> batches[b].worker, next |-> batches[b].next,
                           held |-> batches[b].held]
      BY <1>1 DEF Batch
    <3>2. batches'[b] = [events |-> batches[b].events, client |-> batches[b].client,
                         worker |-> "OPEN", held |-> FALSE, next |-> batches[b].next + 1]
      BY <1>2, <2>1, <3>1
    <3>3. QED
      BY <3>1, <3>2 DEF Batch
  <2>3. batches' \in Seq(Batch)
    <3>1. batches' = [batches EXCEPT ![b] = batches'[b]]
      BY <2>1 DEF CountError
    <3>2. QED
      BY <1>1, <2>2, <3>1
  <2>4. QED
    BY <1>2, <2>1, <2>2, <2>3
<1> HIDE DEF e
<1>5. /\ \A c \in DOMAIN batches : InBatch(c)' = InBatch(c)
      /\ \A c \in DOMAIN batches : c # b => Current(c)' = Current(c) /\ (Holds(c)' <=> Holds(c))
      /\ ~Holds(b)'
  BY <1>4 DEF InBatch, Current, Holds
<1>6. BatchesKept'
  <2>1. ASSUME NEW c \in DOMAIN batches, c # b
        PROVE  BatchKept(c)'
    <3>1. BatchKept(c)
      BY <1>1 DEF BatchesKept
    <3>2. QED
      BY <1>1, <1>4, <1>5, <2>1, <3>1 DEF BatchKept, outbound
  <2>2. BatchKept(b)'
    <3>1. BatchKept(b)
      BY <1>1 DEF BatchesKept
    <3>2. batches[b].events[batches[b].next] \in points
      BY <1>2 DEF e, Current
    <3>3. \A m \in DOMAIN batches[b].events :
            m < batches[b].next + 1 => m < batches[b].next \/ m = batches[b].next
      BY <1>1, <1>2, BatchIs
    <3>4. \A m \in DOMAIN batches'[b].events :
             m < batches'[b].next => batches'[b].events[m] \in points'
      BY <1>1, <1>4, <3>1, <3>2, <3>3 DEF BatchKept
    <3>5. InBatch(b)' \subseteq recorded'
      BY <1>1, <1>5, <3>1 DEF BatchKept, outbound
    <3>6. ~batches'[b].held /\ batches'[b].worker # "NONE" /\ batches'[b].worker # "ACCEPTED"
      BY <1>4
    <3>7. QED
      BY <3>4, <3>5, <3>6 DEF BatchKept
  <2>3. QED
    BY <1>4, <2>1, <2>2 DEF BatchesKept
<1>7. HeldOnce'
  <2>1. ASSUME NEW c \in DOMAIN batches', Holds(c)'
        PROVE  /\ c \in DOMAIN batches /\ c # b /\ Holds(c) /\ Current(c)' = Current(c)
               /\ Current(c) # e /\ Current(c) \in errorReceipts
               /\ errorCounts[Current(c)] <= purged[Current(c)]
    BY <1>1, <1>2, <1>4, <1>5, <2>1 DEF HeldOnce
  <2>2. errorReceipts \subseteq ErrorEvent
    BY <1>1 DEF CloudKept
  <2>3. QED
    BY <1>1, <1>3, <2>1, <2>2 DEF HeldOnce
<1>8. CountsExplained'
  BY <1>1, <1>2, <1>3 DEF CountsExplained
<1>9. CloudKept'
  BY <1>1, <1>3, <1>4 DEF CloudKept
<1>10. OutboundInv'
  BY <1>1, QueueStays DEF OutboundInv, OutboundKept, outbound
<1>11. QED
  BY <1>6, <1>7, <1>8, <1>9, <1>10 DEF TelemetryInv, CloudInv

LEMMA PurgeReceiptKeepsInv ==
  ASSUME TelemetryInv, NEW e \in ErrorEvent, PurgeReceipt(e)
  PROVE  TelemetryInv'
<1>1. /\ OutboundInv /\ CloudKept /\ BatchesKept /\ HeldOnce /\ CountsExplained
      /\ UNCHANGED <<outbound, batches, points, errorCounts>>
      /\ e \in errorReceipts /\ errorReceipts' = errorReceipts \ {e}
      /\ \A b \in DOMAIN batches : ~Holds(b)
  BY DEF TelemetryInv, CloudInv, PurgeReceipt, Holds
<1>2. /\ purged' \in [ErrorEvent -> Nat] /\ purged'[e] = purged[e] + 1
      /\ \A f \in ErrorEvent : f # e => purged'[f] = purged[f]
      /\ purged \in [ErrorEvent -> Nat] /\ errorCounts \in [ErrorEvent -> Nat]
  BY <1>1 DEF CloudKept, PurgeReceipt
<1>3. CountsExplained'
  BY <1>1, <1>2 DEF CountsExplained
<1>4. HeldOnce'
  BY <1>1 DEF HeldOnce, Holds
<1>5. BatchesKept'
  BY <1>1 DEF BatchesKept, BatchKept, InBatch, Current, outbound
<1>6. CloudKept'
  BY <1>1, <1>2 DEF CloudKept
<1>7. OutboundInv'
  BY <1>1, QueueStays DEF OutboundInv, OutboundKept, outbound
<1>8. QED
  BY <1>3, <1>4, <1>5, <1>6, <1>7 DEF TelemetryInv, CloudInv

LEMMA TelemetryNextKeepsInv ==
  ASSUME TelemetryInv, [TelemetryNext]_telemetryVars
  PROVE  TelemetryInv'
<1>1. CASE UNCHANGED telemetryVars
  <2>1. CloudInv'
    BY <1>1, CloudStays DEF TelemetryInv, telemetryVars, outbound
  <2>2. OutboundInv'
    BY <1>1, QueueStays
    DEF TelemetryInv, OutboundInv, OutboundKept, telemetryVars, outbound, cloud
  <2>3. QED
    BY <2>1, <2>2 DEF TelemetryInv
<1>2. CASE TelemetryNext
  BY <1>2, QueueStepKeepsInv, ConsentStepKeepsInv, FlushKeepsInv, WorkerStepKeepsInv,
     TakeEventKeepsInv, CountErrorKeepsInv, AnswerKeepsInv, PurgeReceiptKeepsInv
  DEF TelemetryNext
<1>3. QED
  BY <1>1, <1>2

(* The queue holds events, and what is remembered of them was recorded.    *)
THEOREM TelemetryTypeCorrect == TelemetrySpec => []TelemetryTypeOK
<1>1. TelemetryInv => TelemetryTypeOK
  <2>1. ASSUME TelemetryInv, NEW b \in DOMAIN batches
        PROVE  /\ batches[b].client \in {"WAITING", "DONE"}
               /\ batches[b].worker \in {"NONE", "OPEN", "ACCEPTED", "INVALID", "FORBIDDEN",
                                         "FAILED"}
    <3>1. batches \in Seq(Batch)
      BY <2>1 DEF TelemetryInv, CloudInv, CloudKept
    <3>2. batches[b] \in Batch
      BY <3>1
    <3>3. QED
      BY <3>2 DEF Batch
  <2>2. QED
    BY <2>1 DEF TelemetryInv, OutboundInv, OutboundKept, CloudInv, CloudKept, TelemetryTypeOK
<1>2. QED
  BY <1>1, TelemetryInitKeepsInv, TelemetryNextKeepsInv, PTL DEF TelemetrySpec

(* For any events, batches and losses of answers the queue stays within    *)
(* its limit, no event is lost without being given up, and a failure is    *)
(* counted once for each receipt there has been of it.                     *)
THEOREM EventsStayAccountedFor == TelemetrySpec => []EventsAreAccountedFor
<1>1. TelemetryInv => EventsAreAccountedFor
  BY DEF TelemetryInv, OutboundInv, CloudInv, CloudKept, CountsExplained, CountedOnce,
         EventsAreAccountedFor
<1>2. QED
  BY <1>1, TelemetryInitKeepsInv, TelemetryNextKeepsInv, PTL DEF TelemetrySpec

-----------------------------------------------------------------------------
(* The prices of a sale: what the blocks of a row have.                    *)

LEMMA MaximalExists ==
  ASSUME NEW S, IsFiniteSet(S), S # {}, NEW R,
         \A a \in S : <<a, a>> \notin R,
         \A a, b, c \in S : <<a, b>> \in R /\ <<b, c>> \in R => <<a, c>> \in R
  PROVE  \E m \in S : \A x \in S : <<m, x>> \notin R
<1> DEFINE P == {T \in SUBSET S : T # {} => \E m \in T : \A x \in T : <<m, x>> \notin R}
<1>1. {} \in P
  OBVIOUS
<1>2. ASSUME NEW T \in SUBSET S, T # {}
      PROVE  \E x \in T : T \ {x} \in P => T \in P
  <2>1. PICK e \in T : TRUE
    BY <1>2
  <2>2. ASSUME T \ {e} \in P
        PROVE  \E m \in T : \A x \in T : <<m, x>> \notin R
    <3>1. CASE T \ {e} = {}
      <4>1. \A x \in T : x = e
        BY <3>1
      <4>2. QED
        BY <4>1
    <3>2. CASE T \ {e} # {}
      <4>1. PICK m \in T \ {e} : \A x \in T \ {e} : <<m, x>> \notin R
        BY <2>2, <3>2
      <4>2. CASE <<m, e>> \notin R
        BY <4>1, <4>2
      <4>3. CASE <<m, e>> \in R
        <5>1. \A x \in T : <<e, x>> \notin R
          BY <4>1, <4>3
        <5>2. QED
          BY <5>1
      <4>4. QED
        BY <4>2, <4>3
    <3>3. QED
      BY <3>1, <3>2
  <2>3. QED
    BY <2>2
<1> HIDE DEF P
<1>3. S \in P
  BY <1>1, <1>2, SubsetInduction
<1>4. QED
  BY <1>3 DEF P

IsCart(lines) == \A i \in Item : lines[i].pieces \in Nat /\ lines[i].unit \in Nat

LEMMA ProductsAreFinite == ASSUME NEW S \in SUBSET Item PROVE IsFiniteSet(S)
<1>1. 1 \in Int /\ Items \in Int
  BY PricingAssumption
<1>2. IsFiniteSet(Item)
  BY <1>1, FS_Interval DEF Item
<1>3. QED
  BY <1>2, FS_Subset

LEMMA RowIsNat ==
  ASSUME NEW lines, IsCart(lines), NEW S \in SUBSET Item
  PROVE  /\ InRow(lines, S) \in Nat
         /\ \A e \in S : InRow(lines, S) = lines[e].pieces + InRow(lines, S \ {e})
         /\ InRow(lines, {}) = 0
<1> DEFINE f == [i \in Item |-> lines[i].pieces]
<1>1. \A i \in S : f[i] \in Nat /\ f[i] = lines[i].pieces
  BY DEF IsCart
<1>2. \A i \in S : f[i] \in Int
  BY <1>1
<1> HIDE DEF f
<1>3. SumFunctionOnSet(f, S) \in Nat
  BY <1>1, ProductsAreFinite, SumIsNat
<1>4. \A e \in S : SumFunctionOnSet(f, S) = f[e] + SumFunctionOnSet(f, S \ {e})
  BY <1>2, ProductsAreFinite, SumRemove
<1>5. SumFunctionOnSet(f, {}) = 0
  BY SumEmpty
<1>6. QED
  BY <1>1, <1>3, <1>4, <1>5 DEF InRow, f

LEMMA LastInRow ==
  ASSUME NEW lines, IsCart(lines), NEW T \in SUBSET Item, T # {}
  PROVE  \E e \in T :
           /\ Before(lines, T, e) = InRow(lines, T \ {e})
           /\ \A i \in T \ {e} : Before(lines, T, i) = Before(lines, T \ {e}, i)
<1> DEFINE R == {p \in Item \X Item : Dearer(lines, p[1], p[2])}
<1>1. \A i \in T : i \in Int /\ lines[i].unit \in Int
  BY DEF IsCart, Item
<1>2. \A a, b \in T : <<a, b>> \in R <=> Dearer(lines, a, b)
  OBVIOUS
<1> HIDE DEF R
<1>3. \A a \in T : <<a, a>> \notin R
  BY <1>1, <1>2 DEF Dearer
<1>4. \A a, b, c \in T : <<a, b>> \in R /\ <<b, c>> \in R => <<a, c>> \in R
  BY <1>1, <1>2 DEF Dearer
<1>5. PICK e \in T : \A x \in T : <<e, x>> \notin R
  BY <1>3, <1>4, ProductsAreFinite, MaximalExists
<1>6. {j \in T : Dearer(lines, j, e)} = T \ {e}
  <2>1. \A j \in T : ~Dearer(lines, e, j)
    BY <1>2, <1>5
  <2>2. \A j \in T : Dearer(lines, j, e) <=> j # e
    BY <1>1, <2>1 DEF Dearer
  <2>3. QED
    BY <2>2
<1>7. \A i \in T \ {e} : {j \in T : Dearer(lines, j, i)} = {j \in T \ {e} : Dearer(lines, j, i)}
  BY <1>2, <1>5
<1>8. QED
  BY <1>6, <1>7 DEF Before

LEMMA InBlockIs ==
  ASSUME NEW size \in Nat \ {0}, NEW n \in Nat \ {0}
  PROVE  /\ \A x \in Nat : InBlock(x, size, n) \in Nat
         /\ \A x, y \in Nat : InBlock(x + y, size, n) >= InBlock(x, size, n)
         /\ InBlock(0, size, n) = 0
         /\ \A x \in Nat : n * size <= x => InBlock(x, size, n) = size
<1> DEFINE hi == n * size
           lo == (n - 1) * size
<1>1. hi \in Nat /\ lo \in Nat /\ hi = lo + size
  OBVIOUS
<1> HIDE DEF hi, lo
<1>2. \A x : InBlock(x, size, n) = Lesser(x, hi) - Lesser(x, lo)
  BY DEF InBlock, hi, lo
<1>3. /\ \A x \in Nat : InBlock(x, size, n) \in Nat
      /\ \A x, y \in Nat : InBlock(x + y, size, n) >= InBlock(x, size, n)
      /\ InBlock(0, size, n) = 0
      /\ \A x \in Nat : hi <= x => InBlock(x, size, n) = size
  BY <1>1, <1>2 DEF Lesser
<1>4. QED
  BY <1>3 DEF hi

LEMMA BeforeIsNat ==
  ASSUME NEW lines, IsCart(lines), NEW S \in SUBSET Item, NEW i
  PROVE  Before(lines, S, i) \in Nat
<1>1. {j \in S : Dearer(lines, j, i)} \in SUBSET Item
  OBVIOUS
<1>2. QED
  BY <1>1, RowIsNat DEF Before

\* The n-th block of a row has what the whole row has in it.
LEMMA BlockOfRow ==
  ASSUME NEW lines, IsCart(lines), NEW S \in SUBSET Item,
         NEW size \in Nat \ {0}, NEW n \in Nat \ {0}
  PROVE  SumFunctionOnSet(Block(lines, S, size, n), S) = InBlock(InRow(lines, S), size, n)
<1> DEFINE B(T) == Block(lines, T, size, n)
           P == {T \in SUBSET S :
                   SumFunctionOnSet(B(T), T) = InBlock(InRow(lines, T), size, n)}
<1>1. {} \in P
  BY SumEmpty, RowIsNat, InBlockIs
<1>2. ASSUME NEW T \in SUBSET S, T # {}
      PROVE  \E x \in T : T \ {x} \in P => T \in P
  <2>1. PICK e \in T :
          /\ Before(lines, T, e) = InRow(lines, T \ {e})
          /\ \A i \in T \ {e} : Before(lines, T, i) = Before(lines, T \ {e}, i)
    BY <1>2, LastInRow
  <2>2. /\ T \in SUBSET Item /\ T \ {e} \in SUBSET Item /\ e \in Item
        /\ IsFiniteSet(T) /\ IsFiniteSet(T \ {e}) /\ lines[e].pieces \in Nat
    BY ProductsAreFinite DEF IsCart
  <2>3. /\ InRow(lines, T) \in Nat /\ InRow(lines, T \ {e}) \in Nat
        /\ InRow(lines, T) = InRow(lines, T \ {e}) + lines[e].pieces
    BY <2>2, RowIsNat
  <2>4. \A i \in T : B(T)[i] \in Int
    <3>1. ASSUME NEW i \in T
          PROVE  B(T)[i] \in Int
      <4>1. /\ B(T)[i] = InBlock(Before(lines, T, i) + lines[i].pieces, size, n)
                           - InBlock(Before(lines, T, i), size, n)
            /\ lines[i].pieces \in Nat
        BY DEF Block, IsCart
      <4>2. Before(lines, T, i) \in Nat
        BY <2>2, BeforeIsNat
      <4>3. QED
        BY <4>1, <4>2, InBlockIs
    <3>2. QED
      BY <3>1
  <2>5. B(T)[e] = InBlock(InRow(lines, T), size, n) - InBlock(InRow(lines, T \ {e}), size, n)
    BY <2>1, <2>2, <2>3 DEF Block
  <2>6. \A i \in T \ {e} : B(T)[i] = B(T \ {e})[i]
    BY <2>1, <2>2 DEF Block
  <2> HIDE DEF B
  <2>7. /\ SumFunctionOnSet(B(T), T) = B(T)[e] + SumFunctionOnSet(B(T), T \ {e})
        /\ SumFunctionOnSet(B(T), T \ {e}) = SumFunctionOnSet(B(T \ {e}), T \ {e})
    BY <2>2, <2>4, <2>6, SumRemove, SumEqual
  <2>8. InBlock(InRow(lines, T), size, n) \in Nat /\ InBlock(InRow(lines, T \ {e}), size, n) \in Nat
    BY <2>3, InBlockIs
  <2>9. SumFunctionOnSet(B(T \ {e}), T \ {e}) = InBlock(InRow(lines, T \ {e}), size, n)
          => SumFunctionOnSet(B(T), T) = InBlock(InRow(lines, T), size, n)
    BY <2>5, <2>7, <2>8
  <2>10. QED
    BY <2>9
<1>3. IsFiniteSet(S)
  BY ProductsAreFinite
<1> HIDE DEF P
<1>4. S \in P
  BY <1>1, <1>2, <1>3, SubsetInduction
<1>5. QED
  BY <1>4 DEF P

LEMMA BlockIs ==
  ASSUME NEW lines, IsCart(lines), NEW S \in SUBSET Item,
         NEW size \in Nat \ {0}, NEW n \in 1..(InRow(lines, S) \div size)
  PROVE  /\ Block(lines, S, size, n) \in [Item -> Nat]
         /\ \A i \in Item \ S : Block(lines, S, size, n)[i] = 0
         /\ SumFunctionOnSet(Block(lines, S, size, n), S) = size
<1>1. InRow(lines, S) \in Nat
  BY RowIsNat
<1>2. n \in Nat \ {0} /\ n * size <= InRow(lines, S)
  <2> DEFINE a == InRow(lines, S)
             q == a \div size
  <2>1. q \in Nat /\ size * q <= a /\ n <= q /\ n \in Nat \ {0}
    BY <1>1
  <2> HIDE DEF a, q
  <2>2. n * size <= size * q
    BY <2>1
  <2>3. n * size \in Int /\ size * q \in Int /\ a \in Int
    BY <1>1, <2>1 DEF a
  <2>4. QED
    BY <2>1, <2>2, <2>3 DEF a
<1>3. ASSUME NEW i \in S
      PROVE  Block(lines, S, size, n)[i] \in Nat
  <2>1. Before(lines, S, i) \in Nat /\ lines[i].pieces \in Nat
    BY BeforeIsNat DEF IsCart
  <2>2. Block(lines, S, size, n)[i] = InBlock(Before(lines, S, i) + lines[i].pieces, size, n)
                                        - InBlock(Before(lines, S, i), size, n)
    BY DEF Block
  <2>3. Before(lines, S, i) + lines[i].pieces \in Nat
    BY <2>1
  <2>4. /\ InBlock(Before(lines, S, i) + lines[i].pieces, size, n) \in Nat
        /\ InBlock(Before(lines, S, i), size, n) \in Nat
        /\ InBlock(Before(lines, S, i) + lines[i].pieces, size, n)
             >= InBlock(Before(lines, S, i), size, n)
    BY <1>2, <2>1, <2>3, InBlockIs
  <2>5. QED
    BY <2>2, <2>4
<1>4. \A i \in Item \ S : Block(lines, S, size, n)[i] = 0
  BY DEF Block
<1>5. Block(lines, S, size, n) \in [Item -> Nat]
  <2>1. Block(lines, S, size, n) = [i \in Item |-> Block(lines, S, size, n)[i]]
    BY DEF Block
  <2>2. \A i \in Item : Block(lines, S, size, n)[i] \in Nat
    BY <1>3, <1>4
  <2>3. QED
    BY <2>1, <2>2
<1>6. SumFunctionOnSet(Block(lines, S, size, n), S) = size
  <2>1. InBlock(InRow(lines, S), size, n) = size
    BY <1>1, <1>2, InBlockIs
  <2>2. QED
    BY <1>2, <2>1, BlockOfRow
<1>7. QED
  BY <1>4, <1>5, <1>6

-----------------------------------------------------------------------------
(* The prices of a sale: what a combo may take, and what all take.         *)

\* What is known of a candidate of rule r, whatever it takes.
IsCandidate(c, r) ==
  /\ c.rule = r /\ c.first \in Int /\ c.n \in Int /\ c.cents \in Nat \ {0}
  /\ c.takes \in [Item -> Nat]
  /\ \A i \in Item \ Combo[r].products : c.takes[i] = 0
  /\ SumFunctionOnSet(c.takes, Combo[r].products) = Combo[r].size

LEMMA CombosAre ==
  ASSUME NEW r \in Rule
  PROVE  /\ Combo[r].same \in BOOLEAN /\ Combo[r].products \in SUBSET Item
         /\ Combo[r].size \in Nat \ {0} /\ Combo[r].cents \in Nat /\ Combo[r].cap \in Nat \ {0}
<1>1. Combo[r] \in [same : BOOLEAN, products : SUBSET Item, size : Nat \ {0},
                    cents : Nat, cap : Nat \ {0}, manual : BOOLEAN]
  BY PricingAssumption
<1>2. QED
  BY <1>1

LEMMA ImageIsFinite ==
  ASSUME NEW S, IsFiniteSet(S), NEW f
  PROVE  IsFiniteSet({f[x] : x \in S})
<1> DEFINE g == [x \in S |-> f[x]]
<1>1. g \in Surjection(S, {f[x] : x \in S})
  BY DEF Surjection
<1>2. QED
  BY <1>1, FS_Surjection

LEMMA CentsAreInt ==
  ASSUME NEW lines, IsCart(lines), NEW takes \in [Item -> Nat]
  PROVE  CentsOf(lines, takes) \in Nat
<1> DEFINE f == [i \in Item |-> takes[i] * lines[i].unit]
<1>1. \A i \in Item : takes[i] * lines[i].unit \in Nat
  BY DEF IsCart
<1>2. \A i \in Item : f[i] \in Nat
  BY <1>1
<1> HIDE DEF f
<1>3. SumFunctionOnSet(f, Item) \in Nat
  BY <1>2, ProductsAreFinite, SumIsNat
<1>4. QED
  BY <1>3 DEF CentsOf, f

LEMMA CandidatesOfAre ==
  ASSUME NEW lines, IsCart(lines), NEW r \in Rule, NEW S \in SUBSET Combo[r].products,
         NEW first \in Int
  PROVE  /\ IsFiniteSet(CandidatesOf(r, lines, S, first))
         /\ \A c \in CandidatesOf(r, lines, S, first) : IsCandidate(c, r)
<1> DEFINE size == Combo[r].size
           times == Lesser(InRow(lines, S) \div Combo[r].size, Combo[r].cap)
           all == {Candidate(r, lines, S, first, n) : n \in 1..times}
<1>1. S \in SUBSET Item /\ InRow(lines, S) \in Nat /\ size \in Nat \ {0}
  BY CombosAre, RowIsNat
<1>2. times \in Nat /\ times <= InRow(lines, S) \div size
  BY <1>1, CombosAre DEF Lesser
<1>3. ASSUME NEW n \in 1..times, Candidate(r, lines, S, first, n).cents > 0
      PROVE  IsCandidate(Candidate(r, lines, S, first, n), r)
  <2> DEFINE takes == Block(lines, S, size, n)
             c == Candidate(r, lines, S, first, n)
  <2>1. n \in 1..(InRow(lines, S) \div size)
    BY <1>1, <1>2
  <2>2. /\ takes \in [Item -> Nat] /\ \A i \in Item \ S : takes[i] = 0
        /\ SumFunctionOnSet(takes, S) = size
    BY <1>1, <2>1, BlockIs
  <2>3. /\ c.rule = r /\ c.first = first /\ c.n = n /\ c.takes = takes
        /\ c.cents = CentsOf(lines, takes) - Combo[r].cents
    BY DEF Candidate
  <2> HIDE DEF takes, c
  <2>4. c.cents \in Int
    BY <2>2, <2>3, CentsAreInt, CombosAre
  <2>5. SumFunctionOnSet(takes, Combo[r].products) = size
    <3> DEFINE more == Combo[r].products \ S
    <3>1. /\ IsFiniteSet(S) /\ IsFiniteSet(more) /\ S \intersect more = {}
          /\ Combo[r].products = S \union more /\ more \subseteq Item
      BY <1>1, CombosAre, ProductsAreFinite
    <3>2. \A i \in S \union more : takes[i] \in Int
      BY <1>1, <2>2, <3>1
    <3>3. \A i \in more : takes[i] = 0
      BY <2>2, <3>1
    <3> HIDE DEF more
    <3>4. SumFunctionOnSet(takes, more) = 0
      BY <3>1, <3>3, SumOfZeros
    <3>5. SumFunctionOnSet(takes, S \union more)
            = SumFunctionOnSet(takes, S) + SumFunctionOnSet(takes, more)
      BY <3>1, <3>2, SumOfUnion
    <3>6. QED
      BY <1>1, <2>2, <3>1, <3>4, <3>5
  <2>6. \A i \in Item \ Combo[r].products : takes[i] = 0
    BY <2>2
  <2>7. c.cents > 0
    BY <1>3 DEF c
  <2>8. QED
    BY <2>2, <2>3, <2>4, <2>5, <2>6, <2>7 DEF IsCandidate, c
<1>4. CandidatesOf(r, lines, S, first) = {c \in all : c.cents > 0}
  BY DEF CandidatesOf
<1>5. IsFiniteSet(all)
  <2>1. IsFiniteSet(1..times)
    BY <1>2, FS_Interval
  <2> DEFINE f == [n \in 1..times |-> Candidate(r, lines, S, first, n)]
  <2>2. all = {f[n] : n \in 1..times}
    OBVIOUS
  <2> HIDE DEF times, f, all
  <2>3. QED
    BY <2>1, <2>2, ImageIsFinite
<1>6. \A c \in all : c.cents > 0 => IsCandidate(c, r)
  BY <1>3
<1> HIDE DEF all
<1>7. IsFiniteSet(CandidatesOf(r, lines, S, first))
  BY <1>4, <1>5, FS_Subset
<1>8. QED
  BY <1>4, <1>6, <1>7

LEMMA CandidatesAre ==
  ASSUME NEW lines, IsCart(lines), NEW r \in Rule
  PROVE  /\ IsFiniteSet(Candidates(r, lines))
         /\ \A c \in Candidates(r, lines) : IsCandidate(c, r)
<1> DEFINE one == {CandidatesOf(r, lines, {i}, i) : i \in Combo[r].products}
<1>1. Combo[r].products \in SUBSET Item /\ Item \subseteq Int
  BY CombosAre DEF Item
<1>2. CASE Combo[r].same
  <2>1. IsFiniteSet(Combo[r].products)
    BY <1>1, ProductsAreFinite
  <2>2. \A i \in Combo[r].products :
          /\ IsFiniteSet(CandidatesOf(r, lines, {i}, i))
          /\ \A c \in CandidatesOf(r, lines, {i}, i) : IsCandidate(c, r)
    BY <1>1, CandidatesOfAre
  <2>3. IsFiniteSet(one)
    <3> DEFINE f == [i \in Combo[r].products |-> CandidatesOf(r, lines, {i}, i)]
    <3>1. one = {f[i] : i \in Combo[r].products}
      OBVIOUS
    <3> HIDE DEF f, one
    <3>2. QED
      BY <2>1, <3>1, ImageIsFinite
  <2>4. \A T \in one : IsFiniteSet(T) /\ \A c \in T : IsCandidate(c, r)
    BY <2>2
  <2>5. Candidates(r, lines) = UNION one
    BY <1>2 DEF Candidates
  <2> HIDE DEF one
  <2>6. IsFiniteSet(UNION one)
    BY <2>3, <2>4, FS_UNION
  <2>7. QED
    BY <2>4, <2>5, <2>6
<1>3. CASE ~Combo[r].same
  BY <1>1, <1>3, CandidatesOfAre DEF Candidates
<1>4. QED
  BY <1>2, <1>3

\* There is a last one of some candidates, and it is one of them.
LEMMA LastOfIs ==
  ASSUME NEW S, IsFiniteSet(S), S # {}, \A c \in S : \E r \in Rule : IsCandidate(c, r)
  PROVE  LastOf(S) \in S
<1> DEFINE R == {p \in S \X S : Precedes(p[1], p[2])}
<1>1. \A c \in S : c.cents \in Int /\ c.rule \in Int /\ c.first \in Int /\ c.n \in Int
  BY DEF IsCandidate, Rule
<1>2. \A a, b \in S : <<a, b>> \in R <=> Precedes(a, b)
  OBVIOUS
<1> HIDE DEF R
<1>3. \A a \in S : <<a, a>> \notin R
  BY <1>1, <1>2 DEF Precedes
<1>4. ASSUME NEW a \in S, NEW b \in S, NEW c \in S, <<a, b>> \in R, <<b, c>> \in R
      PROVE  <<a, c>> \in R
  <2>1. Precedes(a, b) /\ Precedes(b, c)
    BY <1>2, <1>4
  <2>2. Precedes(a, c)
    BY <1>1, <2>1 DEF Precedes
  <2>3. QED
    BY <1>2, <2>2
<1>5. PICK e \in S : \A x \in S : <<e, x>> \notin R
  BY <1>3, <1>4, MaximalExists
<1>6. \A x \in S : ~Precedes(e, x)
  BY <1>2, <1>5
<1>7. QED
  BY <1>6 DEF LastOf

-----------------------------------------------------------------------------
(* The prices of a sale: what the combos take one after the other.         *)

NextDeal(g, none, s) == IF s = {} THEN none ELSE Take(g[s \ {LastOf(s)}], LastOf(s))
IsDeals(g, none, S) == g = [s \in SUBSET S |-> NextDeal(g, none, s)]
HasLasts(S) == \A s \in SUBSET S : s # {} => LastOf(s) \in s

LEMMA DealsAreUnique ==
  ASSUME NEW none, NEW S, IsFiniteSet(S), HasLasts(S), NEW T \in SUBSET S,
         NEW g, IsDeals(g, none, S), NEW h, IsDeals(h, none, T)
  PROVE  g[T] = h[T]
<1> DEFINE P == {U \in SUBSET T : g[U] = h[U]}
<1>1. IsFiniteSet(T)
  BY FS_Subset
<1>2. ASSUME NEW U \in SUBSET T, \A V \in SUBSET U : V # U => V \in P
      PROVE  U \in P
  <2>1. g[U] = NextDeal(g, none, U) /\ h[U] = NextDeal(h, none, U)
    BY DEF IsDeals
  <2>2. CASE U = {}
    BY <2>1, <2>2 DEF NextDeal
  <2>3. CASE U # {}
    <3>1. U \ {LastOf(U)} \in SUBSET U /\ U \ {LastOf(U)} # U
      BY <2>3 DEF HasLasts
    <3>2. g[U \ {LastOf(U)}] = h[U \ {LastOf(U)}]
      BY <1>2, <3>1
    <3>3. QED
      BY <2>1, <2>3, <3>2 DEF NextDeal
  <2>4. QED
    BY <2>2, <2>3
<1> HIDE DEF P
<1>3. T \in P
  BY <1>1, <1>2, StrongSubsetInduction
<1>4. QED
  BY <1>3 DEF P

LEMMA DealsExist ==
  ASSUME NEW none, NEW S, IsFiniteSet(S), HasLasts(S)
  PROVE  \E g : IsDeals(g, none, S)
<1> DEFINE P == {T \in SUBSET S : \E g : IsDeals(g, none, T)}
           Deals(U) == CHOOSE h : IsDeals(h, none, U)
<1>1. ASSUME NEW T \in SUBSET S, \A U \in SUBSET T : U # T => U \in P
      PROVE  T \in P
  <2> DEFINE g == [s \in SUBSET T |-> IF s = {} THEN none
                   ELSE Take(Deals(s \ {LastOf(s)})[s \ {LastOf(s)}], LastOf(s))]
  <2>1. \A U \in SUBSET T : U # T => IsDeals(Deals(U), none, U)
    BY <1>1
  <2>2. ASSUME NEW U \in SUBSET T, U # T
        PROVE  g[U] = Deals(U)[U]
    <3>1. Deals(U)[U] = NextDeal(Deals(U), none, U)
      BY <2>1, <2>2 DEF IsDeals
    <3>2. CASE U = {}
      BY <3>1, <3>2 DEF NextDeal
    <3>3. CASE U # {}
      <4> DEFINE V == U \ {LastOf(U)}
      <4>1. V \in SUBSET U /\ V \in SUBSET T /\ V # T /\ IsFiniteSet(U) /\ HasLasts(U)
        BY <2>2, <3>3, FS_Subset DEF HasLasts
      <4>2. IsDeals(Deals(U), none, U) /\ IsDeals(Deals(V), none, V)
        BY <2>1, <2>2, <4>1
      <4> HIDE DEF Deals
      <4>3. Deals(U)[V] = Deals(V)[V]
        BY <4>1, <4>2, DealsAreUnique
      <4>4. QED
        BY <3>1, <3>3, <4>3 DEF NextDeal
    <3>4. QED
      BY <3>2, <3>3
  <2>3. ASSUME NEW s \in SUBSET T
        PROVE  g[s] = NextDeal(g, none, s)
    <3>1. CASE s = {}
      BY <3>1 DEF NextDeal
    <3>2. CASE s # {}
      <4>1. s \ {LastOf(s)} \in SUBSET T /\ s \ {LastOf(s)} # T
        BY <3>2 DEF HasLasts
      <4>2. g[s \ {LastOf(s)}] = Deals(s \ {LastOf(s)})[s \ {LastOf(s)}]
        BY <2>2, <4>1
      <4> HIDE DEF Deals
      <4>3. g[s] = Take(Deals(s \ {LastOf(s)})[s \ {LastOf(s)}], LastOf(s))
        BY <3>2
      <4> HIDE DEF g
      <4>4. QED
        BY <3>2, <4>2, <4>3 DEF NextDeal
    <3>3. QED
      BY <3>1, <3>2
  <2>4. IsDeals(g, none, T)
    <3>1. g = [s \in SUBSET T |-> g[s]]
      OBVIOUS
    <3> HIDE DEF g
    <3>2. QED
      BY <2>3, <3>1 DEF IsDeals
  <2>5. QED
    BY <2>4
<1> HIDE DEF P
<1>2. S \in P
  BY <1>1, StrongSubsetInduction
<1>3. QED
  BY <1>2 DEF P

LEMMA DealtIsOfDeals ==
  ASSUME NEW none, NEW S, IsFiniteSet(S), HasLasts(S)
  PROVE  \E g : IsDeals(g, none, S) /\ Dealt(none, S) = g[S]
<1> DEFINE g == CHOOSE g : IsDeals(g, none, S)
<1>1. IsDeals(g, none, S)
  BY DealsExist
<1>2. Dealt(none, S) = g[S]
  BY DEF Dealt, MapThenFoldSet, IsDeals, NextDeal
<1>3. QED
  BY <1>1, <1>2

-----------------------------------------------------------------------------
(* The prices of a sale: no piece is taken twice.                          *)

ProductsOf(rules) == UNION {Combo[r].products : r \in rules}

\* The combos of any rules have taken pieces of their products enough.
IsDeal(lines, deal) ==
  /\ deal.left \in [Item -> Nat] /\ deal.times \in [Rule -> Nat] /\ deal.cents \in Nat
  /\ \A i \in Item : deal.left[i] <= lines[i].pieces
  /\ \A r \in Rule : deal.times[r] <= Combo[r].cap
  /\ \A rules \in SUBSET Rule :
       SumFunctionOnSet([r \in Rule |-> deal.times[r] * Combo[r].size], rules) <=
       SumFunctionOnSet([i \in Item |-> lines[i].pieces - deal.left[i]], ProductsOf(rules))

LEMMA RulesAreFinite ==
  ASSUME NEW rules \in SUBSET Rule
  PROVE  IsFiniteSet(rules) /\ ProductsOf(rules) \in SUBSET Item
<1>1. 1 \in Int /\ Rules \in Int
  BY PricingAssumption
<1>2. IsFiniteSet(Rule)
  BY <1>1, FS_Interval DEF Rule
<1>3. ProductsOf(rules) \in SUBSET Item
  BY CombosAre DEF ProductsOf
<1>4. QED
  BY <1>2, <1>3, FS_Subset

LEMMA TakeKeepsDeal ==
  ASSUME NEW lines, IsCart(lines), NEW deal, IsDeal(lines, deal),
         NEW r \in Rule, NEW c, IsCandidate(c, r)
  PROVE  IsDeal(lines, Take(deal, c))
<1>1. CASE ~FitsIn(c, deal)
  BY <1>1 DEF Take
<1>2. CASE FitsIn(c, deal)
  <2> DEFINE d == Take(deal, c)
             t(x) == [q \in Rule |-> x.times[q] * Combo[q].size]
             u(x) == [i \in Item |-> lines[i].pieces - x.left[i]]
  <2>1. /\ d.left = [i \in Item |-> deal.left[i] - c.takes[i]]
        /\ d.times = [deal.times EXCEPT ![r] = @ + 1] /\ d.cents = deal.cents + c.cents
    BY <1>2 DEF Take, IsCandidate
  <2>2. /\ deal.left \in [Item -> Nat] /\ deal.times \in [Rule -> Nat] /\ deal.cents \in Nat
        /\ c.takes \in [Item -> Nat] /\ c.cents \in Nat
        /\ \A i \in Item : c.takes[i] <= deal.left[i] /\ deal.left[i] <= lines[i].pieces
        /\ deal.times[r] < Combo[r].cap /\ Combo[r].size \in Nat
        /\ \A q \in Rule : deal.times[q] <= Combo[q].cap
        /\ \A i \in Item : lines[i].pieces \in Nat
    BY <1>2, CombosAre DEF IsDeal, IsCandidate, FitsIn, IsCart
  <2>3. /\ d.left \in [Item -> Nat]
        /\ \A i \in Item : d.left[i] = deal.left[i] - c.takes[i]
    <3>1. \A i \in Item : deal.left[i] - c.takes[i] \in Nat
      BY <2>2
    <3>2. QED
      BY <2>1, <3>1
  <2>4. /\ d.times \in [Rule -> Nat] /\ d.times[r] = deal.times[r] + 1
        /\ \A q \in Rule \ {r} : d.times[q] = deal.times[q]
    BY <2>1, <2>2
  <2>5. d.cents \in Nat
    BY <2>1, <2>2
  <2> HIDE DEF d
  <2>6. \A i \in Item : d.left[i] <= lines[i].pieces
    BY <2>2, <2>3
  <2>7. \A q \in Rule : d.times[q] <= Combo[q].cap
    BY <2>2, <2>4, CombosAre
  <2>8. ASSUME NEW rules \in SUBSET Rule
        PROVE  SumFunctionOnSet(t(d), rules) <= SumFunctionOnSet(u(d), ProductsOf(rules))
    <3> DEFINE Y == ProductsOf(rules)
               a == SumFunctionOnSet(t(deal), rules)
               b == SumFunctionOnSet(u(deal), Y)
               k == SumFunctionOnSet(c.takes, Y)
    <3>1. IsFiniteSet(rules) /\ Y \in SUBSET Item /\ IsFiniteSet(Y)
      BY RulesAreFinite, ProductsAreFinite
    <3>2. /\ \A q \in rules : t(deal)[q] \in Int /\ t(d)[q] \in Int
          /\ \A i \in Y : u(deal)[i] \in Int /\ u(d)[i] \in Int /\ c.takes[i] \in Int
                          /\ u(d)[i] = u(deal)[i] + c.takes[i]
      <4>1. \A q \in Rule : Combo[q].size \in Int /\ deal.times[q] \in Int /\ d.times[q] \in Int
        BY <2>2, <2>4, CombosAre
      <4>2. \A q \in Rule : deal.times[q] * Combo[q].size \in Int
                            /\ d.times[q] * Combo[q].size \in Int
        BY <4>1
      <4>3. \A i \in Item : /\ lines[i].pieces - deal.left[i] \in Int
                            /\ lines[i].pieces - d.left[i] \in Int /\ c.takes[i] \in Int
                            /\ lines[i].pieces - d.left[i]
                                 = (lines[i].pieces - deal.left[i]) + c.takes[i]
        <5>1. ASSUME NEW i \in Item
              PROVE  /\ lines[i].pieces \in Nat /\ deal.left[i] \in Nat /\ c.takes[i] \in Nat
                     /\ d.left[i] = deal.left[i] - c.takes[i]
          BY <2>2, <2>3
        <5>2. QED
          BY <5>1
      <4>4. QED
        BY <3>1, <4>2, <4>3
    <3>3. a <= b
      <4>1. \A some \in SUBSET Rule :
              SumFunctionOnSet(t(deal), some) <= SumFunctionOnSet(u(deal), ProductsOf(some))
        BY DEF IsDeal
      <4> HIDE DEF t, u
      <4>2. QED
        BY <4>1
    <3>4. SumFunctionOnSet(u(d), Y) = b + k
      <4>1. \A i \in Y : /\ u(deal)[i] \in Int /\ c.takes[i] \in Int
                         /\ u(d)[i] = u(deal)[i] + c.takes[i]
        BY <3>2
      <4> HIDE DEF t, u, Y
      <4>2. QED
        BY <3>1, <4>1, SumOfSums
    <3>5. a \in Int /\ b \in Int
      BY <3>1, <3>2, SumIsInt
    <3>6. k \in Nat
      BY <2>2, <3>1, SumIsNat
    <3>7. CASE r \notin rules
      <4>1. \A q \in rules : t(deal)[q] = t(d)[q]
        BY <2>4, <3>7
      <4>2. a = SumFunctionOnSet(t(d), rules)
        BY <3>1, <4>1, SumEqual
      <4> HIDE DEF a, b, k, t, u, Y
      <4>3. QED
        BY <3>3, <3>4, <3>5, <3>6, <4>2 DEF Y
    <3>8. CASE r \in rules
      <4>1. /\ \A q \in rules \ {r} : t(d)[q] = t(deal)[q]
            /\ t(d)[r] = (deal.times[r] + 1) * Combo[r].size
            /\ t(deal)[r] = deal.times[r] * Combo[r].size
        BY <2>4
      <4>2. t(d)[r] = t(deal)[r] + Combo[r].size /\ t(d)[r] \in Int /\ t(deal)[r] \in Int
        <5>1. \A x, y \in Int : (x + 1) * y = x * y + y /\ (x + 1) * y \in Int /\ x * y \in Int
          OBVIOUS
        <5>2. deal.times[r] \in Int /\ Combo[r].size \in Int
          BY <2>2
        <5> HIDE DEF t
        <5>3. QED
          BY <4>1, <5>1, <5>2
      <4>3. SumFunctionOnSet(t(d), rules) = a - t(deal)[r] + t(d)[r]
        <5>1. /\ \A q \in rules : t(deal)[q] \in Int
              /\ \A q \in rules \ {r} : t(d)[q] = t(deal)[q]
          BY <3>2, <4>1
        <5> HIDE DEF t
        <5>2. QED
          BY <3>1, <3>8, <4>2, <5>1, SumChange
      <4>4. Combo[r].size <= k
        <5>1. Combo[r].products \in SUBSET Y /\ \A i \in Y : c.takes[i] \in Nat
          BY <2>2, <3>1, <3>8 DEF ProductsOf
        <5>2. SumFunctionOnSet(c.takes, Combo[r].products) <= k
          BY <3>1, <5>1, SumOfPart
        <5>3. QED
          BY <5>2 DEF IsCandidate
      <4> HIDE DEF a, b, k, t, u, Y
      <4>5. QED
        BY <2>2, <3>3, <3>4, <3>5, <3>6, <4>2, <4>3, <4>4 DEF Y
    <3>9. QED
      BY <3>7, <3>8
  <2>9. IsDeal(lines, d)
    BY <2>3, <2>4, <2>5, <2>6, <2>7, <2>8 DEF IsDeal
  <2>10. QED
    BY <2>9 DEF d
<1>3. QED
  BY <1>1, <1>2

LEMMA DealIs ==
  ASSUME NEW lines, IsCart(lines), offered \subseteq Rule
  PROVE  IsDeal(lines, Deal(lines))
<1> DEFINE S == UNION {Candidates(r, lines) : r \in offered}
           none == [left |-> [i \in Item |-> lines[i].pieces],
                    times |-> [r \in Rule |-> 0], cents |-> 0]
<1>1. Deal(lines) = Dealt(none, S)
  BY DEF Deal
<1>2. \A c \in S : \E r \in Rule : IsCandidate(c, r)
  BY CandidatesAre
<1>3. IsFiniteSet(S)
  <2> DEFINE f == [r \in offered |-> Candidates(r, lines)]
  <2>1. S = UNION {f[r] : r \in offered} /\ \A T \in {f[r] : r \in offered} : IsFiniteSet(T)
    BY CandidatesAre
  <2>2. IsFiniteSet(offered)
    BY RulesAreFinite
  <2> HIDE DEF f, S
  <2>3. IsFiniteSet({f[r] : r \in offered})
    BY <2>2, ImageIsFinite
  <2>4. QED
    BY <2>1, <2>3, FS_UNION
<1>4. IsDeal(lines, none)
  <2>1. /\ none.left = [i \in Item |-> lines[i].pieces] /\ none.times = [r \in Rule |-> 0]
        /\ none.cents = 0
    OBVIOUS
  <2> HIDE DEF none
  <2>2. ASSUME NEW rules \in SUBSET Rule
        PROVE  SumFunctionOnSet([r \in Rule |-> none.times[r] * Combo[r].size], rules) <=
               SumFunctionOnSet([i \in Item |-> lines[i].pieces - none.left[i]],
                                ProductsOf(rules))
    <3> DEFINE t == [r \in Rule |-> none.times[r] * Combo[r].size]
               u == [i \in Item |-> lines[i].pieces - none.left[i]]
    <3>1. IsFiniteSet(rules) /\ ProductsOf(rules) \in SUBSET Item /\ IsFiniteSet(ProductsOf(rules))
      BY RulesAreFinite, ProductsAreFinite
    <3>2. \A r \in rules : t[r] = 0
      BY <2>1, CombosAre
    <3>3. \A i \in ProductsOf(rules) : u[i] = 0
      BY <2>1, <3>1 DEF IsCart
    <3> HIDE DEF t, u
    <3>4. SumFunctionOnSet(t, rules) = 0 /\ SumFunctionOnSet(u, ProductsOf(rules)) = 0
      BY <3>1, <3>2, <3>3, SumOfZeros
    <3>5. QED
      BY <3>4 DEF t, u
  <2>3. /\ none.left \in [Item -> Nat] /\ none.times \in [Rule -> Nat] /\ none.cents \in Nat
        /\ \A i \in Item : none.left[i] <= lines[i].pieces
        /\ \A r \in Rule : none.times[r] <= Combo[r].cap
    BY <2>1, CombosAre DEF IsCart
  <2>4. QED
    BY <2>2, <2>3 DEF IsDeal
<1> HIDE DEF S, none
<1>5. HasLasts(S)
  <2>1. ASSUME NEW s \in SUBSET S, s # {}
        PROVE  LastOf(s) \in s
    <3>1. IsFiniteSet(s) /\ \A c \in s : \E r \in Rule : IsCandidate(c, r)
      BY <1>2, <1>3, FS_Subset
    <3>2. QED
      BY <2>1, <3>1, LastOfIs
  <2>2. QED
    BY <2>1 DEF HasLasts
<1>6. PICK g : IsDeals(g, none, S) /\ Dealt(none, S) = g[S]
  BY <1>3, <1>5, DealtIsOfDeals
<1> DEFINE P == {T \in SUBSET S : IsDeal(lines, g[T])}
<1>7. ASSUME NEW T \in SUBSET S, T # {}
      PROVE  \E x \in T : T \ {x} \in P => T \in P
  <2>1. LastOf(T) \in T /\ g[T] = Take(g[T \ {LastOf(T)}], LastOf(T))
    BY <1>5, <1>6, <1>7 DEF HasLasts, IsDeals, NextDeal
  <2>2. PICK r \in Rule : IsCandidate(LastOf(T), r)
    BY <1>2, <2>1
  <2>3. IsDeal(lines, g[T \ {LastOf(T)}]) => IsDeal(lines, g[T])
    BY <2>1, <2>2, TakeKeepsDeal
  <2>4. QED
    BY <2>1, <2>3
<1>8. {} \in P
  BY <1>4, <1>6 DEF IsDeals, NextDeal
<1> HIDE DEF P
<1>9. S \in P
  BY <1>3, <1>7, <1>8, SubsetInduction
<1>10. QED
  BY <1>1, <1>6, <1>9 DEF P

-----------------------------------------------------------------------------
(* The prices of a sale: what each operation keeps.                        *)

CartLine == [pieces : 0..MaxPieces, unit : Nat, listed : Nat \union {NotListed}, fixed : BOOLEAN]
Carts == [Item -> CartLine]

CatalogKept == price \in [Item -> Prices] /\ tiered \in BOOLEAN /\ offered \subseteq Rule
SaleKept ==
  /\ cart \in Carts /\ netted \subseteq Item
  /\ subtotal \in Nat /\ reduced \in Nat /\ manual \in Nat /\ promotion \in Nat
  /\ applied \in [Rule -> Nat] /\ interrupts \in 0..MaxInterrupts

LEMMA TypesAre ==
  PricingTypeOK <=>
    /\ CatalogKept /\ SaleKept /\ saleState \in {"OPEN", "SUSPENDED", "COMPLETED", "CANCELLED"}
    /\ revisions \in 0..MaxRevisions
  BY DEF PricingTypeOK, CatalogKept, SaleKept, Carts, CartLine

LEMMA CartLineIs ==
  ASSUME NEW lines \in Carts, NEW i \in Item
  PROVE  /\ lines[i] \in CartLine /\ lines[i].pieces \in 0..MaxPieces /\ lines[i].pieces \in Nat
         /\ lines[i].unit \in Nat /\ lines[i].listed \in Nat \union {NotListed}
         /\ lines[i].fixed \in BOOLEAN
<1>1. lines[i] \in CartLine
  BY DEF Carts
<1>2. QED
  BY <1>1, PricingAssumption DEF CartLine

LEMMA CartIs ==
  ASSUME NEW lines \in Carts
  PROVE  IsCart(lines) /\ SubtotalOf(lines) \in Nat
<1>1. IsCart(lines)
  BY CartLineIs DEF IsCart
<1> DEFINE f == [i \in Item |-> lines[i].pieces * lines[i].unit]
<1>2. \A i \in Item : lines[i].pieces * lines[i].unit \in Nat
  BY <1>1 DEF IsCart
<1>3. \A i \in Item : f[i] \in Nat
  BY <1>2
<1> HIDE DEF f
<1>4. SumFunctionOnSet(f, Item) \in Nat
  BY <1>3, ProductsAreFinite, SumIsNat
<1>5. QED
  BY <1>1, <1>4 DEF SubtotalOf, f

LEMMA PricedAre ==
  ASSUME CatalogKept, NEW lines \in Carts, NEW some
  PROVE  /\ PricedIn(lines, some) \in Carts
         /\ \A i \in Item : PricedIn(lines, some)[i].pieces = lines[i].pieces
<1>1. ASSUME NEW i \in Item
      PROVE  PricedIn(lines, some)[i] \in CartLine /\ PricedIn(lines, some)[i].pieces = lines[i].pieces
  <2>1. price[i] \in Nat /\ UnitPrice(i, lines[i].pieces) \in Nat
    BY PricingAssumption DEF CatalogKept, UnitPrice, Lesser
  <2>2. CASE i \in some
    <3> DEFINE p == price[i]
               u == UnitPrice(i, lines[i].pieces)
    <3>1. PricedIn(lines, some)[i] = [lines[i] EXCEPT !.unit = u, !.listed = p]
      BY <2>2 DEF PricedIn
    <3>2. p \in Nat /\ u \in Nat
      BY <2>1
    <3> HIDE DEF p, u
    <3>3. lines[i] \in CartLine
      BY CartLineIs
    <3>4. QED
      BY <3>1, <3>2, <3>3 DEF CartLine
  <2>3. CASE i \notin some
    BY <2>3, CartLineIs DEF PricedIn
  <2>4. QED
    BY <2>2, <2>3
<1>2. PricedIn(lines, some) \in Carts
  <2>1. PricedIn(lines, some) = [i \in Item |-> PricedIn(lines, some)[i]]
    BY DEF PricedIn
  <2>2. QED
    BY <1>1, <2>1 DEF Carts
<1>3. QED
  BY <1>1, <1>2

\* The two discounts never take more than the sale costs.
LEMMA DiscountsFit ==
  ASSUME NEW lines \in Carts, NEW deal, IsDeal(lines, deal), NEW wanted \in Nat
  PROVE  /\ PromotionOf(lines, deal) \in Nat /\ ManualLeft(lines, deal, wanted) \in Nat
         /\ PromotionOf(lines, deal) + ManualLeft(lines, deal, wanted) <= SubtotalOf(lines)
         /\ Blocks(deal) => ManualLeft(lines, deal, wanted) = 0
<1>1. SubtotalOf(lines) \in Nat /\ deal.cents \in Nat
  BY CartIs DEF IsDeal
<1>2. QED
  BY <1>1 DEF PromotionOf, ManualLeft, Lesser

LEMMA PriceSaleKeeps ==
  ASSUME CatalogKept, NEW lines \in Carts, NEW wanted \in Nat, NEW priced \in {Priced(lines)},
         NEW deal \in {Deal(priced)}, PriceSale(priced, deal, wanted)
  PROVE  /\ priced \in Carts /\ IsDeal(priced, deal)
         /\ cart' = priced /\ subtotal' \in Nat /\ reduced' \in Nat
         /\ subtotal' = SubtotalOf(priced) /\ reduced' <= subtotal'
         /\ reduced' = PromotionOf(priced, deal) + ManualLeft(priced, deal, wanted)
<1>1. priced \in Carts
  BY PricedAre DEF Priced
<1>2. IsDeal(priced, deal)
  BY <1>1, CartIs, DealIs DEF CatalogKept
<1>3. /\ PromotionOf(priced, deal) \in Nat /\ ManualLeft(priced, deal, wanted) \in Nat
      /\ PromotionOf(priced, deal) + ManualLeft(priced, deal, wanted) <= SubtotalOf(priced)
      /\ SubtotalOf(priced) \in Nat
  BY <1>1, <1>2, DiscountsFit, CartIs
<1>4. QED
  BY <1>1, <1>2, <1>3 DEF PriceSale, Recalculated, Lesser

LEMMA WriteStateKeeps ==
  ASSUME NEW lines \in Carts, NEW wanted \in Nat, NEW deal, IsDeal(lines, deal),
         WriteState(lines, deal, wanted)
  PROVE  /\ manual' \in Nat /\ promotion' \in Nat /\ applied' \in [Rule -> Nat]
         /\ applied' = deal.times /\ interrupts' = interrupts
  BY DiscountsFit DEF WriteState, IsDeal

LEMMA RepriceKeeps ==
  ASSUME CatalogKept, SaleKept, NEW lines \in Carts, NEW wanted \in Nat, NEW changed,
         Reprice(lines, changed, wanted)
  PROVE  SaleKept'
<1>0. PICK priced \in {Priced(lines)} : \E deal \in {Deal(priced)} :
        /\ PriceSale(priced, deal, wanted) /\ Touched(lines, changed)
        /\ WriteState(priced, deal, wanted) \/ Interrupt
  BY DEF Reprice
<1>1. PICK deal \in {Deal(priced)} :
        /\ PriceSale(priced, deal, wanted) /\ Touched(lines, changed)
        /\ WriteState(priced, deal, wanted) \/ Interrupt
  BY <1>0
<1>2. /\ priced \in Carts /\ IsDeal(priced, deal) /\ cart' = priced
      /\ subtotal' \in Nat /\ reduced' \in Nat
  BY <1>1, PriceSaleKeeps
<1>3. netted' \subseteq Item
  BY <1>1 DEF Touched, SaleKept
<1>4. CASE WriteState(priced, deal, wanted)
  BY <1>2, <1>3, <1>4, WriteStateKeeps DEF SaleKept
<1>5. CASE Interrupt
  <2>1. interrupts' \in 0..MaxInterrupts
    BY <1>5, PricingAssumption DEF Interrupt, SaleKept
  <2>2. QED
    BY <1>2, <1>3, <1>5, <2>1 DEF Interrupt, SaleKept, discountState
<1>6. QED
  BY <1>1, <1>4, <1>5

LEMMA RepricedKeeps ==
  ASSUME CatalogKept, SaleKept, NEW lines \in Carts, NEW wanted \in Nat, NEW changed,
         Repriced(lines, changed, wanted)
  PROVE  SaleKept'
<1>1. CASE Reprice(lines, changed, wanted)
  BY <1>1, RepriceKeeps
<1>2. CASE StopWithin(lines, changed)
  <2>1. PICK some : cart' = PricedIn(lines, some) /\ netted' = netted \ (changed \union some)
    BY <1>2 DEF StopWithin
  <2>2. cart' \in Carts /\ netted' \subseteq Item
    BY <2>1, PricedAre DEF SaleKept
  <2>3. subtotal' \in Nat /\ reduced' \in Nat
    <3>1. SubtotalOf(lines) \in Nat /\ subtotal \in Nat /\ reduced \in Nat
      BY CartIs DEF SaleKept
    <3>2. QED
      BY <1>2, <3>1 DEF StopWithin, Recalculated, Lesser, totals
  <2>4. interrupts' \in 0..MaxInterrupts
    BY <1>2, PricingAssumption DEF StopWithin, Interrupt, SaleKept
  <2>5. QED
    BY <1>2, <2>2, <2>3, <2>4 DEF StopWithin, Interrupt, SaleKept, discountState
<1>3. QED
  BY <1>1, <1>2 DEF Repriced

-----------------------------------------------------------------------------
(* The prices of a sale: what was paid.                                    *)

PricingInv == PricingTypeOK /\ PaidAsPriced

LEMMA PricingInitKeepsInv == PricingInit => PricingInv
<1> SUFFICES ASSUME PricingInit
             PROVE  PricingInv
  OBVIOUS
<1>1. CatalogKept /\ saleState = "OPEN" /\ revisions \in 0..MaxRevisions
  <2>1. tiered \in BOOLEAN
    BY Zenon DEF PricingInit
  <2>2. price \in [Item -> Prices] /\ offered \subseteq Rule
    BY DEF PricingInit
  <2>3. saleState = "OPEN" /\ revisions \in 0..MaxRevisions
    BY PricingAssumption DEF PricingInit
  <2>4. QED
    BY <2>1, <2>2, <2>3 DEF CatalogKept
<1>2. SaleKept
  <2>1. NoLine \in CartLine
    BY PricingAssumption DEF NoLine, CartLine
  <2>2. cart \in Carts
    BY <2>1 DEF PricingInit, Carts
  <2>3. QED
    BY <2>2, PricingAssumption DEF PricingInit, SaleKept
<1>3. QED
  BY <1>1, <1>2, TypesAre DEF PricingInv, PaidAsPriced

\* The operations on the lines of an open sale.
LEMMA LinesKeepInv ==
  ASSUME PricingInv, NEW i \in Item, NEW n \in 1..MaxPieces, NEW cents \in Prices,
         \/ AddItem(i, n) \/ UpdateItemQuantity(i, n) \/ OverrideItemPrice(i, cents)
         \/ RemoveItem(i)
  PROVE  PricingInv'
<1>1. /\ CatalogKept /\ SaleKept /\ cart \in Carts /\ manual \in Nat
      /\ cart[i] \in CartLine /\ cart[i].pieces \in 0..MaxPieces /\ cart[i].unit \in Nat
      /\ cart[i].listed \in Nat \union {NotListed} /\ price[i] \in Nat /\ cents \in Nat
      /\ n \in 0..MaxPieces /\ MaxPieces \in Nat
      /\ revisions \in 0..MaxRevisions
  <2>1. CatalogKept /\ SaleKept /\ revisions \in 0..MaxRevisions
    BY TypesAre DEF PricingInv
  <2>2. cart \in Carts /\ manual \in Nat
    BY <2>1 DEF SaleKept
  <2>3. Prices \subseteq Nat /\ MaxPieces \in Nat
    BY PricingAssumption
  <2>4. price[i] \in Nat /\ cents \in Nat
    BY <2>1, <2>3 DEF CatalogKept
  <2>5. n \in 0..MaxPieces
    BY <2>3
  <2>6. QED
    BY <2>1, <2>2, <2>3, <2>4, <2>5, CartLineIs
<1>2. \A line \in CartLine : [cart EXCEPT ![i] = line] \in Carts
  BY <1>1 DEF Carts
<1>3. /\ UNCHANGED <<catalog, revisions>> /\ saleState' = "OPEN"
      /\ \E line \in CartLine : Repriced([cart EXCEPT ![i] = line], {i}, manual)
  <2>1. CASE AddItem(i, n)
    <3> DEFINE more == IF cart[i].pieces = 0
                       THEN [NoLine EXCEPT !.pieces = n, !.unit = price[i]]
                       ELSE [cart[i] EXCEPT !.pieces = @ + n]
    <3>1. more.pieces <= MaxPieces /\ Repriced([cart EXCEPT ![i] = more], {i}, manual)
      BY <2>1 DEF AddItem
    <3>2. more \in CartLine
      <4>1. CASE cart[i].pieces = 0
        <5>1. more = [pieces |-> n, unit |-> price[i], listed |-> NotListed, fixed |-> FALSE]
          BY <4>1 DEF NoLine
        <5>2. QED
          BY <1>1, <5>1 DEF CartLine
      <4>2. CASE cart[i].pieces # 0
        <5>1. more = [cart[i] EXCEPT !.pieces = @ + n]
          BY <4>2
        <5>2. more.pieces = cart[i].pieces + n
          BY <1>1, <5>1 DEF CartLine
        <5>3. cart[i].pieces + n \in 0..MaxPieces
          BY <1>1, <3>1, <5>2
        <5>4. QED
          BY <1>1, <5>1, <5>3 DEF CartLine
      <4>3. QED
        BY <4>1, <4>2
    <3> HIDE DEF more
    <3>3. QED
      BY <2>1, <3>1, <3>2 DEF AddItem
  <2>2. CASE UpdateItemQuantity(i, n)
    <3>1. [cart[i] EXCEPT !.pieces = n] \in CartLine
      BY <1>1 DEF CartLine
    <3>2. [cart EXCEPT ![i].pieces = n] = [cart EXCEPT ![i] = [cart[i] EXCEPT !.pieces = n]]
      OBVIOUS
    <3>3. QED
      BY <2>2, <3>1, <3>2 DEF UpdateItemQuantity
  <2>3. CASE OverrideItemPrice(i, cents)
    <3> DEFINE listed == IF cart[i].listed = NotListed THEN cart[i].unit ELSE cart[i].listed
               line == [cart[i] EXCEPT !.unit = cents, !.listed = listed, !.fixed = TRUE]
    <3>1. Repriced([cart EXCEPT ![i] = line], {i}, manual)
      BY <2>3 DEF OverrideItemPrice
    <3>2. listed \in Nat \union {NotListed}
      BY <1>1
    <3> HIDE DEF listed
    <3>3. line \in CartLine
      BY <1>1, <3>2 DEF CartLine
    <3> HIDE DEF line
    <3>4. QED
      BY <2>3, <3>1, <3>3 DEF OverrideItemPrice
  <2>4. CASE RemoveItem(i)
    <3>1. NoLine \in CartLine
      BY PricingAssumption DEF NoLine, CartLine
    <3>2. QED
      BY <2>4, <3>1 DEF RemoveItem
  <2>5. QED
    BY <2>1, <2>2, <2>3, <2>4
<1>4. SaleKept'
  BY <1>1, <1>2, <1>3, RepricedKeeps
<1>5. CatalogKept' /\ revisions' \in 0..MaxRevisions
  BY <1>1, <1>3 DEF CatalogKept, catalog
<1>6. PricingTypeOK'
  <2>1. saleState' \in {"OPEN", "SUSPENDED", "COMPLETED", "CANCELLED"}
    BY <1>3
  <2>2. QED
    BY <1>4, <1>5, <2>1 DEF PricingTypeOK, CatalogKept, SaleKept, Carts, CartLine
<1>7. QED
  BY <1>3, <1>6 DEF PricingInv, PaidAsPriced

\* The operations that only reprice an open sale, or leave it suspended.
LEMMA RepricingKeepsInv ==
  ASSUME PricingInv,
         \/ \E cents \in Discounts : ApplyDiscount(cents)
         \/ RepriceSale \/ SuspendSale \/ ResumeSale
  PROVE  PricingInv'
<1>1. /\ CatalogKept /\ SaleKept /\ cart \in Carts /\ manual \in Nat
      /\ revisions \in 0..MaxRevisions
  BY TypesAre DEF PricingInv, SaleKept
<1>2. UNCHANGED <<catalog, revisions>> /\ saleState' \in {"OPEN", "SUSPENDED"}
  BY DEF ApplyDiscount, RepriceSale, SuspendSale, ResumeSale
<1>3. SaleKept'
  <2>1. CASE RepriceSale \/ ResumeSale
    BY <1>1, <2>1, RepricedKeeps DEF RepriceSale, ResumeSale
  <2>2. CASE SuspendSale
    BY <1>1, <2>2, RepriceKeeps DEF SuspendSale
  <2>3. CASE \E cents \in Discounts : ApplyDiscount(cents)
    <3>1. PICK cents \in Discounts : ApplyDiscount(cents)
      BY <2>3
    <3>2. PICK priced \in {Priced(cart)} :
            \/ /\ cart' = priced /\ Touched(cart, {})
               /\ UNCHANGED <<totals, discountState, interrupts>>
            \/ Repriced(cart, {}, cents)
      BY <3>1 DEF ApplyDiscount
    <3>3. cents \in Nat
      BY PricingAssumption
    <3>4. CASE Repriced(cart, {}, cents)
      BY <1>1, <3>3, <3>4, RepricedKeeps
    <3>5. CASE /\ cart' = priced /\ Touched(cart, {})
               /\ UNCHANGED <<totals, discountState, interrupts>>
      <4>1. cart' \in Carts
        BY <1>1, <3>5, PricedAre DEF Priced
      <4>2. QED
        BY <1>1, <3>5, <4>1 DEF SaleKept, Touched, totals, discountState
    <3>6. QED
      BY <3>2, <3>4, <3>5
  <2>4. QED
    BY <2>1, <2>2, <2>3
<1>4. CatalogKept' /\ revisions' \in 0..MaxRevisions
  BY <1>1, <1>2 DEF CatalogKept, catalog
<1>5. PricingTypeOK'
  <2>1. saleState' \in {"OPEN", "SUSPENDED", "COMPLETED", "CANCELLED"}
    BY <1>2
  <2>2. QED
    BY <1>3, <1>4, <2>1 DEF PricingTypeOK, CatalogKept, SaleKept, Carts, CartLine
<1>6. QED
  BY <1>2, <1>5 DEF PricingInv, PaidAsPriced

\* Pieces that were not taken twice when the sale was paid are not afterwards.
LEMMA PiecesStay ==
  ASSUME \A i \in Item : cart'[i].pieces = cart[i].pieces, applied' = applied, PiecesSuffice
  PROVE  PiecesSuffice'
<1>1. \A products : InRow(cart', products) = InRow(cart, products)
  <2>1. [i \in Item |-> cart'[i].pieces] = [i \in Item |-> cart[i].pieces]
    OBVIOUS
  <2>2. QED
    BY <2>1 DEF InRow
<1>2. QED
  BY <1>1 DEF PiecesSuffice

LEMMA OutOfTurnKeepsInv ==
  ASSUME PricingInv, RepriceOutOfTurn
  PROVE  PricingInv'
<1>1. /\ CatalogKept /\ SaleKept /\ cart \in Carts
      /\ revisions \in 0..MaxRevisions
      /\ saleState \in {"OPEN", "SUSPENDED", "COMPLETED", "CANCELLED"} /\ PaidAsPriced
  BY TypesAre DEF PricingInv, SaleKept
<1>2. cart' \in Carts /\ \A i \in Item : cart'[i].pieces = cart[i].pieces
  BY <1>1, PricedAre DEF RepriceOutOfTurn, Priced
<1>3. SaleKept'
  BY <1>1, <1>2 DEF RepriceOutOfTurn, SaleKept, Touched, totals, discountState
<1>4. PricingTypeOK'
  <2>1. /\ CatalogKept' /\ revisions' \in 0..MaxRevisions
        /\ saleState' \in {"OPEN", "SUSPENDED", "COMPLETED", "CANCELLED"}
    BY <1>1 DEF RepriceOutOfTurn, CatalogKept, catalog
  <2>2. QED
    BY <1>3, <2>1 DEF PricingTypeOK, CatalogKept, SaleKept, Carts, CartLine
<1>5. (\A i \in Item : cart'[i].pieces > 0 => i \in netted') =>
        /\ cart' = cart
        /\ \A i \in Item : cart[i].pieces > 0 => i \in netted
  <2> SUFFICES ASSUME \A i \in Item : cart'[i].pieces > 0 => i \in netted'
               PROVE  cart' = cart /\ \A i \in Item : cart[i].pieces > 0 => i \in netted
    OBVIOUS
  <2>1. \A i \in Item : ~IsStale(i, cart[i])
    BY <1>2 DEF RepriceOutOfTurn, Touched, StaleIn, IsStale
  <2>2. StaleIn(cart) = {}
    BY <2>1 DEF StaleIn
  <2>3. cart' = cart
    <3>1. cart' = [i \in Item |-> cart[i]]
      BY <2>2 DEF RepriceOutOfTurn, Priced, PricedIn
    <3>2. QED
      BY <1>1, <3>1 DEF Carts
  <2>4. QED
    BY <1>2, <2>3 DEF RepriceOutOfTurn, Touched
<1>6. PaidAsPriced'
  <2> SUFFICES ASSUME saleState' = "COMPLETED"
               PROVE  /\ (reduced = manual + promotion /\ reduced <= subtotal)'
                      /\ PiecesSuffice'
                      /\ ((\E r \in Rule : applied[r] > 0 /\ ~Combo[r].manual) => manual = 0)'
                      /\ ((\A i \in Item : cart[i].pieces > 0 => i \in netted) =>
                            subtotal = SubtotalOf(cart))'
    BY DEF PaidAsPriced
  <2>1. /\ saleState = "COMPLETED" /\ UNCHANGED <<subtotal, reduced, manual, promotion, applied>>
    BY DEF RepriceOutOfTurn, totals, discountState
  <2>2. PiecesSuffice'
    BY <1>1, <1>2, <2>1, PiecesStay DEF PaidAsPriced
  <2>3. (\A i \in Item : cart'[i].pieces > 0 => i \in netted') => subtotal' = SubtotalOf(cart')
    BY <1>1, <1>5, <2>1 DEF PaidAsPriced
  <2>4. QED
    BY <1>1, <2>1, <2>2, <2>3 DEF PaidAsPriced
<1>7. QED
  BY <1>4, <1>6 DEF PricingInv

\* The combos a paid sale was priced with have their pieces.
LEMMA PiecesAreThere ==
  ASSUME NEW lines \in Carts, NEW deal, IsDeal(lines, deal), cart' = lines, applied' = deal.times
  PROVE  PiecesSuffice'
<1>1. ASSUME NEW rules \in SUBSET Rule
      PROVE  SumFunctionOnSet([r \in Rule |-> deal.times[r] * Combo[r].size], rules) <=
               InRow(lines, ProductsOf(rules))
  <2> DEFINE Y == ProductsOf(rules)
             u == [i \in Item |-> lines[i].pieces - deal.left[i]]
             p == [i \in Item |-> lines[i].pieces]
             t == SumFunctionOnSet([r \in Rule |-> deal.times[r] * Combo[r].size], rules)
  <2>1. t <= SumFunctionOnSet(u, Y)
    BY DEF IsDeal
  <2>2. /\ IsFiniteSet(rules) /\ Y \in SUBSET Item /\ IsFiniteSet(Y)
    BY RulesAreFinite, ProductsAreFinite
  <2>3. \A i \in Item : lines[i].pieces \in Nat /\ deal.left[i] \in Nat
    BY CartLineIs DEF IsDeal
  <2>4. \A i \in Y : u[i] \in Int /\ p[i] \in Int /\ u[i] <= p[i]
    BY <2>2, <2>3
  <2>5. t \in Int
    <3> DEFINE f == [r \in Rule |-> deal.times[r] * Combo[r].size]
    <3>1. \A r \in Rule : deal.times[r] \in Int /\ Combo[r].size \in Int
      BY CombosAre DEF IsDeal
    <3>2. \A r \in rules : f[r] \in Int
      BY <3>1
    <3> HIDE DEF f
    <3>3. SumFunctionOnSet(f, rules) \in Int
      BY <2>2, <3>2, SumIsInt
    <3>4. QED
      BY <3>3 DEF f
  <2>6. SumFunctionOnSet(p, Y) = InRow(lines, Y)
    BY DEF InRow
  <2> HIDE DEF u, p, t, Y
  <2>7. SumFunctionOnSet(u, Y) <= SumFunctionOnSet(p, Y)
    BY <2>2, <2>4, SumIsMonotonic
  <2>8. SumFunctionOnSet(u, Y) \in Int /\ SumFunctionOnSet(p, Y) \in Int
    BY <2>2, <2>4, SumIsInt
  <2>9. t <= InRow(lines, Y)
    BY <2>1, <2>5, <2>6, <2>7, <2>8
  <2>10. QED
    BY <2>9 DEF t, Y
<1>2. QED
  BY <1>1 DEF PiecesSuffice, ProductsOf, IsDeal

LEMMA CompleteKeepsInv ==
  ASSUME PricingInv, CompletePriced
  PROVE  PricingInv'
<1>1. /\ CatalogKept /\ SaleKept /\ cart \in Carts /\ manual \in Nat
      /\ revisions \in 0..MaxRevisions
  BY TypesAre DEF PricingInv, SaleKept
<1>0. PICK priced \in {Priced(cart)} : \E deal \in {Deal(priced)} :
        PriceSale(priced, deal, manual) /\ WriteState(priced, deal, manual)
  BY DEF CompletePriced
<1>2. PICK deal \in {Deal(priced)} :
        PriceSale(priced, deal, manual) /\ WriteState(priced, deal, manual)
  BY <1>0
<1>3. /\ priced \in Carts /\ IsDeal(priced, deal)
      /\ cart' = priced /\ subtotal' \in Nat /\ reduced' \in Nat
      /\ subtotal' = SubtotalOf(priced) /\ reduced' <= subtotal'
      /\ reduced' = PromotionOf(priced, deal) + ManualLeft(priced, deal, manual)
  BY <1>1, <1>2, PriceSaleKeeps
<1>4. /\ manual' \in Nat /\ promotion' \in Nat /\ applied' \in [Rule -> Nat]
      /\ applied' = deal.times /\ interrupts' = interrupts
  BY <1>1, <1>2, <1>3, WriteStateKeeps
<1>5. /\ SaleKept' /\ saleState' = "COMPLETED" /\ CatalogKept' /\ revisions' \in 0..MaxRevisions
  BY <1>1, <1>3, <1>4 DEF CompletePriced, SaleKept, CatalogKept, catalog
<1>6. PricingTypeOK'
  BY <1>5 DEF PricingTypeOK, CatalogKept, SaleKept, Carts, CartLine
<1>7. promotion' = PromotionOf(priced, deal) /\ manual' = ManualLeft(priced, deal, manual)
  BY <1>2 DEF WriteState
<1>8. PaidAsPriced'
  <2>1. (reduced = manual + promotion /\ reduced <= subtotal)'
    BY <1>3, <1>4, <1>7
  <2>2. PiecesSuffice'
    BY <1>3, <1>4, PiecesAreThere
  <2>3. (\E r \in Rule : applied'[r] > 0 /\ ~Combo[r].manual) => manual' = 0
    BY <1>1, <1>3, <1>4, <1>7, DiscountsFit DEF Blocks
  <2>4. subtotal' = SubtotalOf(cart')
    BY <1>3
  <2>5. QED
    BY <2>1, <2>2, <2>3, <2>4 DEF PaidAsPriced
<1>9. QED
  BY <1>6, <1>8 DEF PricingInv

LEMMA CatalogKeepsInv ==
  ASSUME PricingInv, ReviseCatalog \/ CancelAnySale \/ UNCHANGED pricingVars
  PROVE  PricingInv'
<1>1. /\ CatalogKept /\ SaleKept /\ cart \in Carts /\ revisions \in 0..MaxRevisions
      /\ saleState \in {"OPEN", "SUSPENDED", "COMPLETED", "CANCELLED"}
  BY TypesAre DEF PricingInv, SaleKept
<1>2. /\ UNCHANGED <<cart, netted, totals, discountState, interrupts>>
      /\ saleState' = saleState \/ saleState' = "CANCELLED"
  BY DEF ReviseCatalog, CancelAnySale, pricingVars
<1>3. SaleKept'
  BY <1>1, <1>2 DEF SaleKept, totals, discountState
<1>4. CatalogKept' /\ revisions' \in 0..MaxRevisions
  <2>1. CASE UNCHANGED <<catalog, revisions>>
    BY <1>1, <2>1 DEF CatalogKept, catalog
  <2>2. CASE ReviseCatalog
    <3>1. revisions' \in 0..MaxRevisions
      BY <1>1, <2>2, PricingAssumption DEF ReviseCatalog
    <3>2. CASE /\ \E i \in Item, cents \in Prices : price' = [price EXCEPT ![i] = cents]
               /\ UNCHANGED <<tiered, offered>>
      BY <1>1, <3>1, <3>2 DEF CatalogKept
    <3>3. CASE tiered' = ~tiered /\ UNCHANGED <<price, offered>>
      BY <1>1, <3>1, <3>3 DEF CatalogKept
    <3>4. CASE /\ \E r \in Rule : offered' \in {offered \ {r}, offered \union {r}}
               /\ UNCHANGED <<price, tiered>>
      BY <1>1, <3>1, <3>4 DEF CatalogKept
    <3>5. QED
      BY <2>2, <3>2, <3>3, <3>4 DEF ReviseCatalog
  <2>3. QED
    BY <2>1, <2>2 DEF CancelAnySale, pricingVars
<1>5. PricingTypeOK'
  <2>1. saleState' \in {"OPEN", "SUSPENDED", "COMPLETED", "CANCELLED"}
    BY <1>1, <1>2
  <2>2. QED
    BY <1>3, <1>4, <2>1 DEF PricingTypeOK, CatalogKept, SaleKept, Carts, CartLine
<1>6. PaidAsPriced'
  <2>1. saleState' = "COMPLETED" => saleState = "COMPLETED"
    BY <1>2
  <2>2. PiecesSuffice => PiecesSuffice'
    BY <1>2, PiecesStay DEF discountState
  <2>3. UNCHANGED <<cart, netted, subtotal, reduced, manual, promotion, applied>>
    BY <1>2 DEF totals, discountState
  <2>4. QED
    BY <2>1, <2>2, <2>3 DEF PricingInv, PaidAsPriced
<1>7. QED
  BY <1>5, <1>6 DEF PricingInv

LEMMA PricingNextKeepsInv ==
  ASSUME PricingInv, [PricingNext]_pricingVars
  PROVE  PricingInv'
<1>1. ASSUME NEW i \in Item, NEW n \in 1..MaxPieces, AddItem(i, n) \/ UpdateItemQuantity(i, n)
      PROVE  PricingInv'
  <2>1. price[i] \in Prices
    BY DEF PricingInv, PricingTypeOK
  <2>2. QED
    BY <1>1, <2>1, LinesKeepInv
<1>2. ASSUME NEW i \in Item, NEW cents \in Prices, OverrideItemPrice(i, cents)
      PROVE  PricingInv'
  <2>1. cart[i].pieces \in 0..MaxPieces /\ cart[i].pieces > 0
    BY <1>2, CartLineIs, TypesAre DEF OverrideItemPrice, PricingInv, SaleKept
  <2>2. cart[i].pieces \in 1..MaxPieces
    BY <2>1
  <2>3. QED
    BY <1>2, <2>2, LinesKeepInv
<1>3. ASSUME NEW i \in Item, RemoveItem(i)
      PROVE  PricingInv'
  <2>1. cart[i].pieces \in 0..MaxPieces /\ cart[i].pieces > 0 /\ price[i] \in Prices
    BY <1>3, CartLineIs, TypesAre DEF RemoveItem, PricingInv, SaleKept, PricingTypeOK
  <2>2. cart[i].pieces \in 1..MaxPieces
    BY <2>1
  <2>3. QED
    BY <1>3, <2>1, <2>2, LinesKeepInv
<1>4. CASE UNCHANGED pricingVars
  BY <1>4, CatalogKeepsInv
<1>5. CASE PricingNext
  BY <1>1, <1>2, <1>3, <1>5, RepricingKeepsInv, OutOfTurnKeepsInv, CompleteKeepsInv,
     CatalogKeepsInv DEF PricingNext
<1>6. QED
  BY <1>4, <1>5

(* Lines, prices, discounts and the times of each combo keep their types.  *)
THEOREM PricingTypeCorrect == PricingSpec => []PricingTypeOK
<1>1. PricingInv => PricingTypeOK
  BY DEF PricingInv
<1>2. QED
  BY <1>1, PricingInitKeepsInv, PricingNextKeepsInv, PTL DEF PricingSpec

(* For any catalog and any combos a sale is paid with what its discounts   *)
(* say, none of them forbidden by a combo in use, and no piece is in two   *)
(* combos, wherever the process stopped before.                            *)
THEOREM PaidStaysAsPriced == PricingSpec => []PaidAsPriced
<1>1. PricingInv => PaidAsPriced
  BY DEF PricingInv
<1>2. QED
  BY <1>1, PricingInitKeepsInv, PricingNextKeepsInv, PTL DEF PricingSpec

-----------------------------------------------------------------------------
(* The cents of a sale: how its discount is shared out.                    *)

SaleSold ==
  /\ gross \in [Line -> Nat] /\ discount \in Nat /\ sold \in [Line -> Nat \ {0}]

IsLeft(f, k) ==
  f = [n \in 1..(k + 1) |->
         IF n = 1 THEN Applied ELSE f[n - 1] - ShareOf(n - 1, f[n - 1])]

LEMMA LeftExists == \A k \in Nat : \E f : IsLeft(f, k)
<1> DEFINE P == {k \in Nat : \E f : IsLeft(f, k)}
<1>1. 0 \in P
  <2> DEFINE f == [n \in 1..1 |-> Applied]
  <2>1. IsLeft(f, 0)
    BY DEF IsLeft
  <2>2. QED
    BY <2>1
<1>2. ASSUME NEW k \in Nat, k \in P
      PROVE  k + 1 \in P
  <2>1. PICK f : IsLeft(f, k)
    BY <1>2
  <2> DEFINE next == f[k + 1] - ShareOf(k + 1, f[k + 1])
             g == [n \in 1..(k + 2) |-> IF n = k + 2 THEN next ELSE f[n]]
  <2>2. \A n \in 1..(k + 1) : g[n] = f[n]
    OBVIOUS
  <2>3. \A n \in 1..(k + 1) :
          f[n] = IF n = 1 THEN Applied ELSE f[n - 1] - ShareOf(n - 1, f[n - 1])
    BY <2>1 DEF IsLeft
  <2>4. g[k + 2] = next
    OBVIOUS
  <2>5. g = [n \in 1..(k + 2) |-> g[n]]
    OBVIOUS
  <2> HIDE DEF g
  <2>6. ASSUME NEW n \in 1..(k + 2)
        PROVE  g[n] = IF n = 1 THEN Applied ELSE g[n - 1] - ShareOf(n - 1, g[n - 1])
    <3>1. CASE n = k + 2
      <4>1. n # 1 /\ n - 1 = k + 1 /\ g[k + 1] = f[k + 1]
        BY <2>2, <3>1
      <4>2. QED
        BY <2>4, <3>1, <4>1
    <3>2. CASE n = 1
      BY <2>2, <2>3, <3>2
    <3>3. CASE n # 1 /\ n # k + 2
      <4>1. n \in 1..(k + 1) /\ n - 1 \in 1..(k + 1)
        BY <3>3
      <4>2. g[n] = f[n] /\ g[n - 1] = f[n - 1]
        BY <2>2, <4>1
      <4>3. f[n] = f[n - 1] - ShareOf(n - 1, f[n - 1])
        BY <2>3, <3>3, <4>1
      <4>4. QED
        BY <3>3, <4>2, <4>3
    <3>4. QED
      BY <3>1, <3>2, <3>3
  <2>7. IsLeft(g, k + 1)
    <3>1. (k + 1) + 1 = k + 2
      OBVIOUS
    <3>2. QED
      BY <2>5, <2>6, <3>1 DEF IsLeft
  <2>8. QED
    BY <2>7
<1> HIDE DEF P
<1>3. \A k \in Nat : k \in P
  BY <1>1, <1>2, NatSetInduction
<1>4. QED
  BY <1>3 DEF P

LEMMA LeftIs ==
  \A n \in 1..(Lines + 1) :
    leftBefore[n] = IF n = 1 THEN Applied ELSE leftBefore[n - 1] - Share(n - 1)
<1>1. Lines \in Nat
  BY RefundsAssumption
<1>2. \E f : IsLeft(f, Lines)
  BY <1>1, LeftExists
<1>3. IsLeft(leftBefore, Lines)
  BY <1>2 DEF leftBefore, IsLeft
<1>4. QED
  BY <1>3 DEF IsLeft, Share

\* The sale stays as it was paid, and so do its shares.
LEMMA SharesStand ==
  ASSUME UNCHANGED sale
  PROVE  /\ Applied' = Applied /\ SharesAddUp' = SharesAddUp
         /\ \A l \in Line : Paid(l)' = Paid(l) /\ Commission(l)' = Commission(l)
<1>1. gross' = gross /\ discount' = discount
  BY DEF sale
<1>2. leftBefore' = leftBefore
  BY <1>1, Zenon DEF leftBefore, ShareOf, GrossFrom, Applied, Subtotal
<1>3. Applied' = Applied
  BY <1>1 DEF Applied, Subtotal, GrossFrom
<1>4. SharesAddUp' = SharesAddUp
  BY <1>1, <1>2, <1>3, Zenon DEF SharesAddUp, Share, ShareOf, GrossFrom
<1>5. ASSUME NEW l \in Line PROVE Paid(l)' = Paid(l)
  BY <1>1, <1>2 DEF Paid, Share, ShareOf, GrossFrom
<1>6. ASSUME NEW l \in Line PROVE Commission(l)' = Commission(l)
  BY <1>1, <1>3, Zenon DEF Commission, Base, ProportionalBase, Subtotal, GrossFrom
<1>7. QED
  BY <1>3, <1>4, <1>5, <1>6

LEMMA LinesAre ==
  /\ Lines \in Nat \ {0} /\ IsFiniteSet(Line) /\ Line = 1..Lines
  /\ \A n, m \in Int : IsFiniteSet(n..m)
  BY RefundsAssumption, FS_Interval DEF Line

LEMMA RoundedIs ==
  ASSUME NEW x \in Nat, NEW y \in Nat \ {0}
  PROVE  /\ Rounded(x, y) \in Nat
         /\ 2 * (Rounded(x, y) * y) <= 2 * x + y
         /\ 2 * x + y < 2 * (Rounded(x, y) * y) + 2 * y
<1> DEFINE a == 2 * x + y
           b == 2 * y
           q == a \div b
<1>1. a \in Nat /\ b \in Nat \ {0}
  OBVIOUS
<1>2. Rounded(x, y) = q
  BY DEF Rounded
<1> HIDE DEF a, b
<1>3. q \in Int /\ a = (b * q) + (a % b) /\ a % b \in 0..(b - 1)
  BY <1>1
<1>4. q \in Nat
  BY <1>1
<1> HIDE DEF q
<1>5. b * q = 2 * (q * y)
  BY <1>3 DEF b
<1>6. b * q \in Int /\ q * y \in Int
  BY <1>1, <1>3
<1>7. b * q <= a /\ a < b * q + b
  BY <1>1, <1>3, <1>6
<1>8. QED
  BY <1>2, <1>4, <1>5, <1>7 DEF a, b

LEMMA GrossIs ==
  ASSUME SaleSold
  PROVE  /\ \A n \in 1..(Lines + 1) : GrossFrom(n) \in Nat
         /\ \A n \in Line : GrossFrom(n) = gross[n] + GrossFrom(n + 1)
         /\ GrossFrom(Lines + 1) = 0
<1>1. \A n \in 1..(Lines + 1) : IsFiniteSet(n..Lines) /\ \A l \in n..Lines : gross[l] \in Nat
  BY LinesAre DEF SaleSold
<1>2. \A n \in 1..(Lines + 1) : GrossFrom(n) \in Nat
  BY <1>1, SumIsNat DEF GrossFrom
<1>3. ASSUME NEW n \in Line
      PROVE  GrossFrom(n) = gross[n] + GrossFrom(n + 1)
  <2>1. /\ n \in n..Lines /\ (n..Lines) \ {n} = (n + 1)..Lines
        /\ IsFiniteSet(n..Lines) /\ \A l \in n..Lines : gross[l] \in Int
    BY <1>1, LinesAre
  <2> DEFINE those == n..Lines
  <2>2. n \in those /\ IsFiniteSet(those) /\ \A l \in those : gross[l] \in Int
    BY <2>1
  <2> HIDE DEF those
  <2>3. SumFunctionOnSet(gross, those) = gross[n] + SumFunctionOnSet(gross, those \ {n})
    BY <2>2, SumRemove
  <2>4. QED
    BY <2>1, <2>3 DEF GrossFrom, those
<1>4. GrossFrom(Lines + 1) = 0
  <2>1. (Lines + 1)..Lines = {}
    BY LinesAre
  <2>2. QED
    BY <2>1, SumEmpty DEF GrossFrom
<1>5. QED
  BY <1>2, <1>3, <1>4

-----------------------------------------------------------------------------
(* The cents of a sale: no line gets more of the discount than it costs.   *)

\* A part rounded up or down leaves no more than the other lines cost.
LEMMA PartFits ==
  ASSUME NEW spare \in Nat, NEW cents \in Nat, NEW all \in Nat \ {0}, spare <= all, cents <= all
  PROVE  Rounded(spare * cents, all) >= spare + cents - all
<1> DEFINE x == spare * cents
           q == Rounded(x, all)
           less == spare + cents - all
<1>1. x \in Nat
  OBVIOUS
<1>2. q * all <= x + all /\ 2 * x + all < 2 * (q * all) + 2 * all /\ q \in Nat
  <2> HIDE DEF x
  <2>1. /\ q \in Nat /\ 2 * (q * all) <= 2 * x + all
        /\ 2 * x + all < 2 * (q * all) + 2 * all
    BY <1>1, RoundedIs
  <2>2. QED
    BY <1>1, <2>1
<1>3. (all - spare) * (all - cents) >= 0
  OBVIOUS
<1>4. (all - spare) * (all - cents) = x - less * all
  OBVIOUS
<1>5. x >= less * all
  BY <1>1, <1>3, <1>4
<1>6. SUFFICES ASSUME q < less PROVE FALSE
  BY <1>1, <1>2
<1>7. less \in Int /\ q + 1 <= less
  BY <1>1, <1>2, <1>6
<1> HIDE DEF x, q, less
<1>8. (q + 1) * all <= less * all
  BY <1>2, <1>7
<1>9. (q + 1) * all = q * all + all
  BY <1>2
<1>10. less * all \in Int /\ q * all \in Int
  BY <1>2, <1>7
<1>11. QED
  BY <1>1, <1>2, <1>5, <1>8, <1>9, <1>10

LEMMA ShareFits ==
  ASSUME SaleSold, NEW n \in Line, NEW spare \in Nat, spare <= GrossFrom(n)
  PROVE  /\ ShareOf(n, spare) \in 0..gross[n] /\ spare - ShareOf(n, spare) \in Nat
         /\ spare - ShareOf(n, spare) <= GrossFrom(n + 1)
<1> DEFINE all == GrossFrom(n)
           cents == gross[n]
           q == Rounded(spare * cents, all)
<1>1. /\ all \in Nat /\ GrossFrom(n + 1) \in Nat /\ all = cents + GrossFrom(n + 1)
      /\ cents \in Nat /\ cents <= all
  BY GrossIs, LinesAre DEF SaleSold
<1>2. ShareOf(n, spare) = IF spare = 0 \/ all = 0 THEN 0 ELSE Least(q, Least(cents, spare))
  BY DEF ShareOf
<1>3. CASE spare = 0 \/ all = 0
  BY <1>1, <1>2, <1>3
<1>4. CASE ~(spare = 0 \/ all = 0)
  <2>1. spare * cents \in Nat
    BY <1>1
  <2>2. q \in Nat /\ q >= spare + cents - all
    <3> HIDE DEF all, cents
    <3>1. all \in Nat \ {0}
      BY <1>1, <1>4
    <3>2. q >= spare + cents - all
      BY <1>1, <3>1, PartFits DEF all
    <3>3. q \in Nat
      BY <2>1, <3>1, RoundedIs
    <3>4. QED
      BY <3>2, <3>3
  <2> HIDE DEF q, all, cents
  <2>3. ShareOf(n, spare) = Least(q, Least(cents, spare))
    BY <1>2, <1>4
  <2>4. QED
    BY <1>1, <2>2, <2>3 DEF Least, all, cents
<1>5. QED
  BY <1>3, <1>4

LEMMA LeftFits ==
  ASSUME SaleSold
  PROVE  /\ \A n \in 1..(Lines + 1) : leftBefore[n] \in Nat /\ leftBefore[n] <= GrossFrom(n)
         /\ Applied \in Nat /\ Subtotal \in Nat /\ Applied <= Subtotal
         /\ leftBefore[1] = Applied /\ leftBefore[Lines + 1] = 0
<1>1. Lines \in Nat /\ 1 \in 1..(Lines + 1) /\ Line = 1..Lines
  BY LinesAre
<1>2. leftBefore[1] = Applied
  BY <1>1, LeftIs
<1>3. Applied \in Nat /\ Subtotal \in Nat /\ Applied <= Subtotal /\ Subtotal = GrossFrom(1)
  BY <1>1, GrossIs DEF Applied, Subtotal, Least, SaleSold
<1> DEFINE P == {k \in Nat : k <= Lines =>
                   leftBefore[k + 1] \in Nat /\ leftBefore[k + 1] <= GrossFrom(k + 1)}
<1>4. 0 \in P
  BY <1>1, <1>2, <1>3
<1>5. ASSUME NEW k \in Nat, k \in P
      PROVE  k + 1 \in P
  <2> SUFFICES ASSUME k + 1 <= Lines
               PROVE  leftBefore[k + 2] \in Nat /\ leftBefore[k + 2] <= GrossFrom(k + 2)
    <3>1. (k + 1) + 1 = k + 2 /\ k + 1 \in Nat
      OBVIOUS
    <3>2. QED
      BY <3>1
  <2>1. /\ k + 1 \in Line /\ k + 2 \in 1..(Lines + 1) /\ k + 2 # 1
        /\ (k + 2) - 1 = k + 1 /\ (k + 1) + 1 = k + 2
    BY <1>1
  <2>2. leftBefore[k + 1] \in Nat /\ leftBefore[k + 1] <= GrossFrom(k + 1)
    BY <1>1, <1>5
  <2>3. leftBefore[k + 2] = leftBefore[k + 1] - ShareOf(k + 1, leftBefore[k + 1])
    BY <2>1, LeftIs DEF Share
  <2>4. /\ leftBefore[k + 1] - ShareOf(k + 1, leftBefore[k + 1]) \in Nat
        /\ leftBefore[k + 1] - ShareOf(k + 1, leftBefore[k + 1]) <= GrossFrom(k + 2)
    BY <2>1, <2>2, ShareFits
  <2>5. QED
    BY <2>3, <2>4
<1> HIDE DEF P
<1>6. \A k \in Nat : k \in P
  BY <1>4, <1>5, NatSetInduction
<1>7. ASSUME NEW n \in 1..(Lines + 1)
      PROVE  leftBefore[n] \in Nat /\ leftBefore[n] <= GrossFrom(n)
  <2>1. n - 1 \in Nat /\ n - 1 <= Lines /\ (n - 1) + 1 = n
    BY <1>1
  <2>2. n - 1 \in P
    BY <1>6, <2>1
  <2>3. QED
    BY <2>1, <2>2 DEF P
<1>8. leftBefore[Lines + 1] = 0
  <2>1. Lines + 1 \in 1..(Lines + 1)
    BY <1>1
  <2>2. leftBefore[Lines + 1] \in Nat /\ leftBefore[Lines + 1] <= 0
    BY <1>7, <2>1, GrossIs
  <2>3. QED
    BY <2>2
<1>9. QED
  BY <1>2, <1>3, <1>7, <1>8

LEMMA SharesFit ==
  ASSUME SaleSold
  PROVE  /\ SharesAddUp
         /\ \A l \in Line : Share(l) \in Nat /\ Paid(l) \in Nat
<1>1. Lines \in Nat /\ Line = 1..Lines /\ IsFiniteSet(Line)
  BY LinesAre
<1>2. ASSUME NEW l \in Line
      PROVE  /\ Share(l) \in 0..gross[l] /\ leftBefore[l] \in Int /\ leftBefore[l + 1] \in Int
             /\ leftBefore[l + 1] = leftBefore[l] - Share(l) /\ gross[l] \in Nat
  <2>1. /\ l \in 1..(Lines + 1) /\ l + 1 \in 1..(Lines + 1) /\ l + 1 # 1 /\ (l + 1) - 1 = l
    BY <1>1
  <2>2. /\ leftBefore[l] \in Nat /\ leftBefore[l] <= GrossFrom(l) /\ leftBefore[l + 1] \in Nat
    BY <2>1, LeftFits
  <2>3. leftBefore[l + 1] = leftBefore[l] - Share(l)
    BY <2>1, LeftIs
  <2>4. Share(l) \in 0..gross[l]
    BY <2>2, ShareFits DEF Share
  <2>5. QED
    BY <2>2, <2>3, <2>4 DEF SaleSold
<1>3. \A l \in Line : Share(l) \in Nat /\ Paid(l) \in Nat
  BY <1>2 DEF Paid
<1> DEFINE f == [l \in Line |-> Share(l)]
           Upto(k) == SumFunctionOnSet(f, 1..k)
           P == {k \in Nat : k <= Lines => Upto(k) = Applied - leftBefore[k + 1]}
<1>4. \A l \in Line : f[l] = Share(l) /\ f[l] \in Int
  BY <1>3
<1> HIDE DEF f
<1>5. 0 \in P
  <2>1. Upto(0) = 0
    <3>1. 1..0 = {}
      OBVIOUS
    <3>2. QED
      BY <3>1, SumEmpty
  <2>2. leftBefore[0 + 1] = Applied /\ Applied \in Nat
    BY LeftFits
  <2>3. QED
    BY <2>1, <2>2
<1>6. ASSUME NEW k \in Nat, k \in P
      PROVE  k + 1 \in P
  <2> SUFFICES ASSUME k + 1 <= Lines
               PROVE  Upto(k + 1) = Applied - leftBefore[(k + 1) + 1]
    OBVIOUS
  <2> DEFINE first == 1..k
             e == k + 1
  <2>1. e \in Line /\ first \union {e} = 1..(k + 1) /\ e \notin first /\ IsFiniteSet(first)
    BY <1>1, LinesAre
  <2>2. \A l \in first \union {e} : f[l] \in Int
    BY <1>1, <1>4
  <2>3. SumFunctionOnSet(f, first) = Applied - leftBefore[e]
    BY <1>1, <1>6
  <2>4. Applied \in Nat
    BY LeftFits
  <2>5. /\ leftBefore[e] \in Int /\ leftBefore[e + 1] = leftBefore[e] - Share(e)
        /\ f[e] = Share(e) /\ Share(e) \in Nat
    BY <1>2, <1>3, <1>4, <2>1
  <2> HIDE DEF first
  <2>6. SumFunctionOnSet(f, first \union {e}) = f[e] + SumFunctionOnSet(f, first)
    <3> HIDE DEF e
    <3>1. QED
      BY <2>1, <2>2, SumAdd
  <2>7. Upto(k + 1) = SumFunctionOnSet(f, first \union {e}) /\ (k + 1) + 1 = e + 1
    BY <2>1
  <2> HIDE DEF e, Upto
  <2>8. Upto(k + 1) = Applied - leftBefore[e + 1]
    BY <2>3, <2>4, <2>5, <2>6, <2>7
  <2>9. QED
    BY <2>7, <2>8
<1> HIDE DEF P
<1>7. \A k \in Nat : k \in P
  BY <1>5, <1>6, NatSetInduction
<1>8. SumFunctionOnSet(f, Line) = Applied
  <2>1. Upto(Lines) = Applied - leftBefore[Lines + 1]
    BY <1>1, <1>7 DEF P
  <2>2. leftBefore[Lines + 1] = 0 /\ Applied \in Nat
    BY LeftFits
  <2>3. Upto(Lines) = SumFunctionOnSet(f, Line)
    BY <1>1
  <2> HIDE DEF Upto
  <2>4. QED
    BY <2>1, <2>2, <2>3
<1>9. QED
  BY <1>2, <1>3, <1>8 DEF SharesAddUp, f

-----------------------------------------------------------------------------
(* The commission of a line.                                               *)

LEMMA CommissionIs ==
  ASSUME SaleSold, NEW l \in Line
  PROVE  Base(l) \in Nat /\ Commission(l) \in Nat
<1>1. /\ Applied \in Nat /\ Subtotal \in Nat /\ Applied <= Subtotal /\ Subtotal - Applied \in Nat
      /\ Lines \in Nat /\ Line = 1..Lines
  BY LeftFits, LinesAre
<1>2. ASSUME NEW n \in Line
      PROVE  ProportionalBase(n) \in Nat
  <2>1. gross[n] * (Subtotal - Applied) \in Nat
    BY <1>1 DEF SaleSold
  <2>2. Subtotal # 0 => Rounded(gross[n] * (Subtotal - Applied), Subtotal) \in Nat
    BY <1>1, <2>1, RoundedIs
  <2>3. QED
    BY <2>2 DEF ProportionalBase
<1> DEFINE f == [n \in Line |-> ProportionalBase(n)]
           others == SumFunctionOnSet(f, 1..(Lines - 1))
<1>3. others \in Nat
  <2>1. IsFiniteSet(1..(Lines - 1)) /\ \A n \in 1..(Lines - 1) : n \in Line
    BY <1>1, LinesAre
  <2>2. \A n \in 1..(Lines - 1) : f[n] \in Nat
    BY <1>2, <2>1
  <2> HIDE DEF f
  <2>3. QED
    BY <2>1, <2>2, SumIsNat
<1>4. Base(l) \in Nat
  <2> DEFINE rest == (Subtotal - Applied) - others
  <2>1. Base(l) = IF l < Lines THEN ProportionalBase(l) ELSE IF rest > 0 THEN rest ELSE 0
    BY DEF Base
  <2> HIDE DEF others
  <2>2. rest \in Int
    BY <1>1, <1>3
  <2> HIDE DEF rest
  <2>3. QED
    BY <1>2, <2>1, <2>2
<1>5. Base(l) * Rate \in Nat
  BY <1>4, RefundsAssumption
<1>6. QED
  BY <1>4, <1>5, RoundedIs DEF Commission

\* What a return takes of a commission is exact to half a cent.
Reversing(l, n, cents) ==
  /\ 2 * sold[l] * cents <= 2 * Commission(l) * n + sold[l]
  /\ 2 * Commission(l) * n <= 2 * sold[l] * cents + sold[l]
  /\ n = 0 => cents = 0

LEMMA ReversedIs ==
  ASSUME SaleSold, NEW l \in Line, NEW n \in Nat, n <= sold[l]
  PROVE  Reversed(l, n) \in Nat /\ Reversing(l, n, Reversed(l, n))
<1> DEFINE c == Commission(l)
           s == sold[l]
           x == c * n
           q == Rounded(x, s)
<1>1. c \in Nat /\ s \in Nat \ {0}
  BY CommissionIs DEF SaleSold
<1>2. x \in Nat /\ x <= c * s /\ c * s \in Nat
  <2> HIDE DEF c, s
  <2>1. n <= s
    BY DEF s
  <2>2. QED
    BY <1>1, <2>1
<1>3. Reversed(l, n) = Least(q, c)
  BY DEF Reversed
<1>4. n = 0 => x = 0
  BY <1>1
<1>5. q \in Nat /\ 2 * (q * s) <= 2 * x + s /\ 2 * x + s < 2 * (q * s) + 2 * s
  <2> HIDE DEF x, s
  <2>1. QED
    BY <1>1, <1>2, RoundedIs
<1>6. q * s \in Nat /\ 2 * s * q = 2 * (q * s) /\ 2 * c * n = 2 * x
  <2>1. 2 * c * n = 2 * x
    BY <1>1
  <2>2. q * s \in Nat /\ 2 * s * q = 2 * (q * s)
    <3> HIDE DEF q, s
    <3>1. QED
      BY <1>1, <1>5
  <2>3. QED
    BY <2>1, <2>2
<1>7. q <= c
  <2> SUFFICES ASSUME q >= c + 1 PROVE FALSE
    BY <1>1, <1>5
  <2> HIDE DEF q, x, c, s
  <2>1. q * s >= (c + 1) * s
    BY <1>1, <1>5
  <2>2. (c + 1) * s = c * s + s
    BY <1>1
  <2>3. QED
    BY <1>1, <1>2, <1>5, <1>6, <2>1, <2>2
<1>8. Reversed(l, n) = q
  <2> HIDE DEF q, c
  <2>1. QED
    BY <1>1, <1>3, <1>5, <1>7 DEF Least
<1>9. x = 0 => q = 0
  <2> SUFFICES ASSUME x = 0, q >= 1 PROVE FALSE
    BY <1>5
  <2> HIDE DEF q, x, s
  <2>1. q * s >= 1 * s
    BY <1>1, <1>5
  <2>2. QED
    BY <1>1, <1>5, <1>6, <2>1
<1> HIDE DEF q, x
<1>10. 2 * s * q <= 2 * c * n + s /\ 2 * c * n <= 2 * s * q + s
  BY <1>1, <1>2, <1>5, <1>6
<1>11. QED
  BY <1>4, <1>5, <1>8, <1>9, <1>10 DEF Reversing

\* Over some returns it is exact to half a cent for each that has pieces of the line.
LEMMA ReversingAddsUp ==
  ASSUME SaleSold, NEW l \in Line, NEW S, IsFiniteSet(S), NEW pieces, NEW cents,
         \A r \in S : pieces[r] \in Nat /\ cents[r] \in Nat /\ Reversing(l, pieces[r], cents[r])
  PROVE  LET some == sold[l] * Cardinality({r \in S : pieces[r] > 0})
             lost == 2 * sold[l] * SumFunctionOnSet(cents, S)
             exact == 2 * Commission(l) * SumFunctionOnSet(pieces, S)
         IN some \in Nat /\ lost <= exact + some /\ exact <= lost + some
<1> DEFINE c == Commission(l)
           s == sold[l]
           N(T) == SumFunctionOnSet(pieces, T)
           R(T) == SumFunctionOnSet(cents, T)
           with(T) == {r \in T : pieces[r] > 0}
           P == {T \in SUBSET S :
                   /\ 2 * s * R(T) <= 2 * c * N(T) + s * Cardinality(with(T))
                   /\ 2 * c * N(T) <= 2 * s * R(T) + s * Cardinality(with(T))}
<1>1. c \in Nat /\ s \in Nat
  BY CommissionIs DEF SaleSold
<1>2. \A T \in SUBSET S : /\ N(T) \in Nat /\ R(T) \in Nat /\ IsFiniteSet(T)
                          /\ IsFiniteSet(with(T)) /\ Cardinality(with(T)) \in Nat
  <2> TAKE T \in SUBSET S
  <2>1. IsFiniteSet(T) /\ with(T) \subseteq T
    BY FS_Subset
  <2>2. IsFiniteSet(with(T))
    BY <2>1, FS_Subset
  <2>3. \A r \in T : pieces[r] \in Nat /\ cents[r] \in Nat
    OBVIOUS
  <2>4. N(T) \in Nat /\ R(T) \in Nat
    BY <2>1, <2>3, SumIsNat
  <2>5. QED
    BY <2>1, <2>2, <2>4, FS_CardinalityType
<1>3. {} \in P
  <2>1. N({}) = 0 /\ R({}) = 0 /\ with({}) = {}
    BY SumEmpty
  <2>2. Cardinality(with({})) = 0
    BY <2>1, FS_EmptySet
  <2> HIDE DEF N, R, with, c, s
  <2>3. QED
    BY <1>1, <2>1, <2>2
<1>4. ASSUME NEW T \in SUBSET S, T # {}
      PROVE  \E e \in T : T \ {e} \in P => T \in P
  <2>1. PICK e \in T : TRUE
    BY <1>4
  <2> DEFINE U == T \ {e}
             n == N(U)
             m == R(U)
             k == Cardinality(with(U))
             p == pieces[e]
             q == cents[e]
             one == IF p > 0 THEN 1 ELSE 0
  <2>2. /\ U \in SUBSET S /\ n \in Nat /\ m \in Nat /\ k \in Nat /\ IsFiniteSet(with(U))
        /\ p \in Nat /\ q \in Nat /\ IsFiniteSet(T)
    BY <1>2
  <2>3. N(T) = p + n /\ R(T) = q + m
    <3>1. \A r \in T : pieces[r] \in Int /\ cents[r] \in Int
      OBVIOUS
    <3>2. QED
      BY <2>2, <3>1, SumRemove
  <2>4. Cardinality(with(T)) = k + one
    <3>1. CASE p > 0
      <4>1. with(T) = with(U) \union {e} /\ e \notin with(U)
        BY <3>1
      <4> HIDE DEF with
      <4>2. QED
        BY <2>2, <3>1, <4>1, FS_AddElement
    <3>2. CASE ~(p > 0)
      <4>1. with(T) = with(U)
        BY <3>2
      <4>2. QED
        BY <2>2, <3>2, <4>1
    <3>3. QED
      BY <3>1, <3>2
  <2>5. /\ 2 * s * q <= 2 * c * p + s * one /\ 2 * c * p <= 2 * s * q + s * one
    <3>1. /\ 2 * s * q <= 2 * c * p + s /\ 2 * c * p <= 2 * s * q + s /\ (p = 0 => q = 0)
      BY DEF Reversing
    <3> HIDE DEF s, c, p, q
    <3>2. s * 1 = s /\ s * 0 = 0 /\ 2 * s * 0 = 0 /\ 2 * c * 0 = 0
      BY <1>1
    <3>3. CASE p > 0
      <4>1. one = 1
        BY <3>3
      <4> HIDE DEF one
      <4>2. QED
        BY <3>1, <3>2, <4>1
    <3>4. CASE p = 0
      <4>1. one = 0
        BY <3>4
      <4> HIDE DEF one
      <4>2. QED
        BY <3>1, <3>2, <3>4, <4>1
    <3>5. QED
      BY <2>2, <3>3, <3>4
  <2>6. ASSUME U \in P
        PROVE  T \in P
    <3>1. 2 * s * m <= 2 * c * n + s * k /\ 2 * c * n <= 2 * s * m + s * k
      BY <2>6
    <3>2. one \in Nat
      OBVIOUS
    <3> HIDE DEF s, c, p, q, n, m, k, one
    <3>3. /\ 2 * s * (q + m) = 2 * s * q + 2 * s * m
          /\ 2 * c * (p + n) = 2 * c * p + 2 * c * n
          /\ s * (k + one) = s * k + s * one
      BY <1>1, <2>2, <3>2
    <3>4. /\ 2 * s * q \in Int /\ 2 * s * m \in Int /\ 2 * c * p \in Int /\ 2 * c * n \in Int
          /\ s * k \in Int /\ s * one \in Int
      BY <1>1, <2>2, <3>2
    <3>5. /\ 2 * s * (q + m) <= 2 * c * (p + n) + s * (k + one)
          /\ 2 * c * (p + n) <= 2 * s * (q + m) + s * (k + one)
      BY <2>5, <3>1, <3>3, <3>4
    <3> HIDE DEF N, R, with
    <3>6. QED
      BY <2>3, <2>4, <3>5
  <2>7. QED
    BY <2>6
<1> HIDE DEF P
<1>5. S \in P
  BY <1>3, <1>4, SubsetInduction
<1>6. s * Cardinality(with(S)) \in Nat
  <2>1. Cardinality(with(S)) \in Nat
    BY <1>2
  <2> HIDE DEF with, s
  <2>2. QED
    BY <1>1, <2>1
<1>7. QED
  BY <1>5, <1>6 DEF P

-----------------------------------------------------------------------------
(* The cents of a sale: what its returns took and gave back.               *)

\* What some returns have of a line.
TotalOf(field, l, S) == SumFunctionOnSet([r \in Return |-> field[r][l]], S)

LEMMA ReturnsAreFinite == IsFiniteSet(Return) /\ \A S \in SUBSET Return : IsFiniteSet(S)
<1>1. MaxReturns \in Nat
  BY RefundsAssumption
<1>2. IsFiniteSet(Return)
  BY <1>1, FS_Interval DEF Return
<1>3. QED
  BY <1>2, FS_Subset

LEMMA TotalIsNat ==
  ASSUME NEW field \in [Return -> [Line -> Nat]], NEW S \in SUBSET Return, NEW l \in Line
  PROVE  TotalOf(field, l, S) \in Nat
<1> DEFINE f == [r \in Return |-> field[r][l]]
<1>1. \A r \in S : f[r] \in Nat
  OBVIOUS
<1> HIDE DEF f
<1>2. SumFunctionOnSet(f, S) \in Nat
  BY <1>1, ReturnsAreFinite, SumIsNat
<1>3. QED
  BY <1>2 DEF TotalOf, f

\* One return more.
Grown(field, wider, S, T, r) ==
  /\ field \in [Return -> [Line -> Nat]] /\ wider \in [Return -> [Line -> Nat]]
  /\ S \in SUBSET Return /\ r \in Return /\ r \notin S /\ T = S \union {r}
  /\ \A x \in S : wider[x] = field[x]

LEMMA TotalGrows ==
  ASSUME NEW field, NEW wider, NEW S, NEW T, NEW r, Grown(field, wider, S, T, r), NEW l \in Line
  PROVE  TotalOf(wider, l, T) = TotalOf(field, l, S) + wider[r][l]
<1>1. /\ field \in [Return -> [Line -> Nat]] /\ wider \in [Return -> [Line -> Nat]]
      /\ S \in SUBSET Return /\ r \in Return /\ r \notin S /\ T = S \union {r}
      /\ \A x \in S : wider[x] = field[x]
  BY DEF Grown
<1> DEFINE f == [x \in Return |-> field[x][l]]
           g == [x \in Return |-> wider[x][l]]
<1>2. \A x \in S : f[x] \in Int /\ g[x] = f[x]
  BY <1>1
<1>3. g[r] = wider[r][l] /\ wider[r][l] \in Int
  BY <1>1
<1>4. IsFiniteSet(S)
  BY <1>1, ReturnsAreFinite
<1> HIDE DEF f, g
<1>5. SumFunctionOnSet(g, S) = SumFunctionOnSet(f, S)
  BY <1>2, <1>4, SumEqual
<1>6. \A x \in S \union {r} : g[x] \in Int
  BY <1>2, <1>3
<1>7. SumFunctionOnSet(g, S \union {r}) = g[r] + SumFunctionOnSet(g, S)
  BY <1>1, <1>4, <1>6, SumAdd
<1>8. SumFunctionOnSet(f, S) \in Int
  BY <1>2, <1>4, SumIsInt
<1>9. SumFunctionOnSet(g, S \union {r}) = SumFunctionOnSet(f, S) + wider[r][l]
  BY <1>3, <1>5, <1>7, <1>8
<1>10. QED
  BY <1>1, <1>9 DEF TotalOf, f, g

LEMMA TotalShrinks ==
  ASSUME NEW field \in [Return -> [Line -> Nat]], NEW S \in SUBSET Return, NEW l \in Line,
         NEW r \in S
  PROVE  TotalOf(field, l, S \ {r}) = TotalOf(field, l, S) - field[r][l]
<1> DEFINE f == [x \in Return |-> field[x][l]]
<1>1. \A x \in S : f[x] \in Int
  OBVIOUS
<1>2. f[r] = field[r][l] /\ f[r] \in Int
  OBVIOUS
<1>3. IsFiniteSet(S) /\ IsFiniteSet(S \ {r})
  BY ReturnsAreFinite
<1> HIDE DEF f
<1>4. SumFunctionOnSet(f, S) = f[r] + SumFunctionOnSet(f, S \ {r})
  BY <1>1, <1>3, SumRemove
<1>5. SumFunctionOnSet(f, S \ {r}) \in Int
  BY <1>1, <1>3, SumIsInt
<1>6. SumFunctionOnSet(f, S \ {r}) = SumFunctionOnSet(f, S) - field[r][l]
  BY <1>2, <1>4, <1>5
<1>7. QED
  BY <1>6 DEF TotalOf, f

\* A line gives back no more than it ever said, and what was paid when it was not
\* priced anew; a return of no piece gives back nothing.
LineKept(l) ==
  /\ ReturnedPieces(l) <= sold[l] /\ ReturnedCents(l) <= dearest[l] /\ net[l] <= dearest[l]
  /\ l \notin rewritten =>
       /\ net[l] = Paid(l) /\ dearest[l] = Paid(l)
       /\ ReturnedPieces(l) = sold[l] => ReturnedCents(l) = Paid(l)

LinesKept ==
  /\ \A l \in Line : LineKept(l)
  /\ \A r \in Return, l \in Line : parts[r][l] = 0 => refund[r][l] = 0

\* The seller has what was earned less what returns that stand took of it.
EarnedKept ==
  /\ \A r \in Return, l \in Line : Reversing(l, parts[r][l], reversal[r][l])
  /\ saleIs = "COMPLETED" =>
       \A l \in Line : balance[l] = Commission(l) - TotalOf(reversal, l, Completed)

RefundsInv == RefundsTypeOK /\ LinesKept /\ EarnedKept

LEMMA TypesGive ==
  ASSUME RefundsTypeOK
  PROVE  SaleSold /\ Completed \subseteq Return
  BY DEF RefundsTypeOK, SaleSold, Completed

LEMMA ReturnedAre ==
  ASSUME RefundsTypeOK, NEW l \in Line
  PROVE  /\ ReturnedPieces(l) = TotalOf(parts, l, Completed)
         /\ ReturnedCents(l) = TotalOf(refund, l, Completed)
         /\ ReturnedPieces(l) \in Nat /\ ReturnedCents(l) \in Nat
         /\ TotalOf(reversal, l, Completed) \in Nat
<1>1. /\ ReturnedPieces(l) = TotalOf(parts, l, Completed)
      /\ ReturnedCents(l) = TotalOf(refund, l, Completed)
  BY DEF ReturnedPieces, ReturnedCents, TotalOf
<1>2. \A field \in [Return -> [Line -> Nat]] : TotalOf(field, l, Completed) \in Nat
  BY TypesGive, TotalIsNat
<1>3. QED
  BY <1>1, <1>2 DEF RefundsTypeOK

LEMMA RefundsInitKeepsInv == RefundsInit => RefundsInv
<1> SUFFICES ASSUME RefundsInit
             PROVE  RefundsInv
  OBVIOUS
<1>1. SaleSold
  <2>1. PICK basket \in Basket : /\ gross = [l \in Line |-> basket[l].cents]
                                 /\ sold = [l \in Line |-> basket[l].pieces]
    BY DEF RefundsInit
  <2>2. \A l \in Line : basket[l].cents \in Nat /\ basket[l].pieces \in Nat \ {0}
    BY RefundsAssumption DEF Line
  <2>3. discount \in Nat
    BY RefundsAssumption DEF RefundsInit
  <2>4. QED
    BY <2>1, <2>2, <2>3 DEF SaleSold
<1>2. /\ saleIs = "COMPLETED" /\ returnIs = [r \in Return |-> "NONE"]
      /\ parts = [r \in Return |-> NoCents] /\ refund = parts /\ reversal = parts
      /\ balance = [l \in Line |-> Commission(l)]
      /\ net = [l \in Line |-> Paid(l)] /\ dearest = net /\ rewrites = 0 /\ rewritten = {}
  BY DEF RefundsInit
<1>3. NoCents \in [Line -> Nat] /\ \A l \in Line : NoCents[l] = 0
  BY DEF NoCents
<1>4. RefundsTypeOK
  <2>1. parts \in [Return -> [Line -> Nat]]
    BY <1>2, <1>3
  <2>2. balance \in [Line -> Int]
    BY <1>1, <1>2, CommissionIs
  <2>3. returnIs \in [Return -> {"NONE", "COMPLETED", "CANCELLED"}]
    BY <1>2
  <2>4. net \in [Line -> Nat]
    BY <1>1, <1>2, SharesFit
  <2>5. rewrites \in 0..MaxRewrites
    BY <1>2, RefundsAssumption
  <2>6. QED
    BY <1>1, <1>2, <2>1, <2>2, <2>3, <2>4, <2>5 DEF RefundsTypeOK, SaleSold
<1>5. Completed = {}
  BY <1>2 DEF Completed
<1>6. ASSUME NEW l \in Line
      PROVE  /\ ReturnedPieces(l) = 0 /\ ReturnedCents(l) = 0
             /\ TotalOf(reversal, l, Completed) = 0
  BY <1>5, SumEmpty DEF ReturnedPieces, ReturnedCents, TotalOf
<1>7. \A r \in Return, l \in Line : parts[r][l] = 0 /\ refund[r][l] = 0 /\ reversal[r][l] = 0
  BY <1>2, <1>3
<1>8. LinesKept
  <2>1. ASSUME NEW l \in Line
        PROVE  LineKept(l)
    <3>1. /\ net[l] = Paid(l) /\ dearest[l] = Paid(l) /\ Paid(l) \in Nat /\ sold[l] \in Nat \ {0}
      BY <1>1, <1>2, SharesFit DEF SaleSold
    <3>2. QED
      BY <1>6, <3>1 DEF LineKept
  <2>2. QED
    BY <1>7, <2>1 DEF LinesKept
<1>9. EarnedKept
  <2>1. ASSUME NEW l \in Line
        PROVE  /\ Reversing(l, 0, 0) /\ balance[l] = Commission(l) - 0
    <3>1. Commission(l) \in Nat /\ sold[l] \in Nat
      BY <1>1, CommissionIs DEF SaleSold
    <3>2. QED
      BY <1>2, <3>1 DEF Reversing
  <2>2. QED
    BY <1>6, <1>7, <2>1 DEF EarnedKept
<1>10. QED
  BY <1>4, <1>8, <1>9 DEF RefundsInv

\* What a return may ask for is some number of pieces of each line.
LEMMA PartsAre ==
  ASSUME SaleSold, NEW part \in Part
  PROVE  part \in [Line -> Nat]
<1> DEFINE all == {sold[l] : l \in Line}
           R == {pair \in Int \X Int : pair[1] < pair[2]}
<1>1. all \subseteq Int /\ all # {}
  BY LinesAre DEF SaleSold
<1>2. IsFiniteSet(all)
  BY LinesAre, ImageIsFinite
<1> HIDE DEF all
<1>3. \E m \in all : \A x \in all : <<m, x>> \notin R
  <2>1. \A a \in all : <<a, a>> \notin R
    BY <1>1
  <2>2. \A a, b, c \in all : <<a, b>> \in R /\ <<b, c>> \in R => <<a, c>> \in R
    BY <1>1
  <2> HIDE DEF R
  <2>3. QED
    BY <1>1, <1>2, <2>1, <2>2, MaximalExists
<1>4. \E m \in all : \A x \in all : m >= x
  <2>1. PICK m \in all : \A x \in all : <<m, x>> \notin R
    BY <1>3
  <2>2. ASSUME NEW x \in all
        PROVE  m >= x
    <3>1. m \in Int /\ x \in Int /\ <<m, x>> \in Int \X Int /\ <<m, x>> \notin R
      BY <1>1, <2>1
    <3>2. ~(m < x)
      BY <3>1
    <3>3. QED
      BY <3>1, <3>2
  <2>3. QED
    BY <2>1, <2>2
<1>5. Max(all) \in Int
  BY <1>1, <1>4 DEF Max
<1>6. part \in [Line -> 0..Max(all)]
  BY Zenon DEF Part, all
<1>7. QED
  BY <1>5, <1>6

-----------------------------------------------------------------------------
(* The cents of a sale: what each operation keeps.                         *)

\* What a line may have given back with some more pieces.
MayGive(l, pieces, cents) ==
  /\ pieces <= sold[l] /\ cents <= dearest[l]
  /\ l \notin rewritten /\ pieces = sold[l] => cents = Paid(l)

\* What a return of some pieces that are there gives back.
LEMMA AmountIs ==
  ASSUME RefundsTypeOK, LinesKept, NEW l \in Line, NEW n \in Nat, n <= Available(l)
  PROVE  /\ ReturnItemAmount(l, n) \in Nat
         /\ MayGive(l, ReturnedPieces(l) + n, ReturnedCents(l) + ReturnItemAmount(l, n))
<1>1. /\ sold[l] \in Nat \ {0} /\ net[l] \in Nat /\ dearest[l] \in Nat
      /\ ReturnedPieces(l) \in Nat /\ ReturnedCents(l) \in Nat
      /\ LineKept(l)
  BY ReturnedAre DEF LinesKept, RefundsTypeOK
<1>2. /\ CentsLeft(l) \in Nat /\ ReturnedCents(l) + CentsLeft(l) <= dearest[l]
      /\ l \notin rewritten => ReturnedCents(l) + CentsLeft(l) = Paid(l)
  BY <1>1 DEF CentsLeft, LineKept
<1>3. Available(l) = sold[l] - ReturnedPieces(l)
  BY DEF Available
<1>4. CASE n >= Available(l)
  <2>1. ReturnItemAmount(l, n) = CentsLeft(l) /\ ReturnedPieces(l) + n = sold[l]
    BY <1>1, <1>3, <1>4 DEF ReturnItemAmount
  <2>2. QED
    BY <1>1, <1>2, <2>1 DEF MayGive
<1>5. CASE ~(n >= Available(l))
  <2>1. net[l] * n \in Nat
    BY <1>1
  <2>2. Rounded(net[l] * n, sold[l]) \in Nat
    BY <1>1, <2>1, RoundedIs
  <2>3. ReturnItemAmount(l, n) = Least(CentsLeft(l), Rounded(net[l] * n, sold[l]))
    BY <1>5 DEF ReturnItemAmount
  <2>4. ReturnItemAmount(l, n) \in Nat /\ ReturnItemAmount(l, n) <= CentsLeft(l)
    BY <1>2, <2>2, <2>3 DEF Least
  <2>5. ReturnedPieces(l) + n < sold[l]
    BY <1>1, <1>3, <1>5
  <2>6. QED
    BY <1>1, <1>2, <2>4, <2>5 DEF MayGive
<1>6. QED
  BY <1>4, <1>5

LEMMA CreateReturnKeepsInv ==
  ASSUME RefundsInv, NEW r \in Return, NEW part \in Part, CreateReturn(r, part)
  PROVE  RefundsInv'
<1> DEFINE amount == [l \in Line |-> IF part[l] = 0 THEN 0 ELSE ReturnItemAmount(l, part[l])]
           lost == [l \in Line |-> Reversed(l, part[l])]
<1>1. /\ RefundsTypeOK /\ LinesKept /\ EarnedKept /\ SaleSold /\ Completed \subseteq Return
      /\ part \in [Line -> Nat] /\ r \notin Completed
  <2>1. returnIs[r] = "NONE"
    BY DEF CreateReturn, IsNext
  <2>2. QED
    BY <2>1, TypesGive, PartsAre DEF RefundsInv, Completed
<1>2. /\ saleIs = "COMPLETED" /\ \A l \in Line : part[l] <= Available(l)
      /\ returnIs' = [returnIs EXCEPT ![r] = "COMPLETED"]
      /\ parts' = [parts EXCEPT ![r] = part] /\ refund' = [refund EXCEPT ![r] = amount]
      /\ reversal' = [reversal EXCEPT ![r] = lost]
      /\ balance' = [l \in Line |-> balance[l] - lost[l]]
      /\ UNCHANGED <<sale, rows>> /\ saleIs' = saleIs
  BY DEF CreateReturn
<1>3. ASSUME NEW l \in Line
      PROVE  /\ ReturnItemAmount(l, part[l]) \in Nat
             /\ MayGive(l, ReturnedPieces(l) + part[l],
                           ReturnedCents(l) + ReturnItemAmount(l, part[l]))
  <2>1. part[l] \in Nat /\ part[l] <= Available(l)
    BY <1>1, <1>2
  <2>2. QED
    BY <1>1, <2>1, AmountIs
<1>4. ASSUME NEW l \in Line
      PROVE  /\ amount[l] \in Nat /\ (part[l] = 0 => amount[l] = 0)
             /\ MayGive(l, ReturnedPieces(l) + part[l], ReturnedCents(l) + amount[l])
  <2>1. CASE part[l] # 0
    BY <1>3, <2>1
  <2>2. CASE part[l] = 0
    <3>1. /\ ReturnedPieces(l) \in Nat /\ ReturnedCents(l) \in Nat /\ LineKept(l)
      BY <1>1, ReturnedAre DEF LinesKept
    <3>2. amount[l] = 0
      BY <2>2
    <3> HIDE DEF amount
    <3>3. QED
      BY <2>2, <3>1, <3>2 DEF LineKept, MayGive
  <2>3. QED
    BY <2>1, <2>2
<1>5. ASSUME NEW l \in Line
      PROVE  lost[l] \in Nat /\ Reversing(l, part[l], lost[l])
  <2>1. part[l] \in Nat /\ part[l] <= sold[l] /\ lost[l] = Reversed(l, part[l])
    <3>1. ReturnedPieces(l) \in Nat /\ sold[l] \in Nat /\ part[l] \in Nat
      BY <1>1, ReturnedAre DEF SaleSold
    <3>2. ReturnedPieces(l) + part[l] <= sold[l]
      BY <1>3 DEF MayGive
    <3>3. QED
      BY <3>1, <3>2
  <2>2. QED
    BY <1>1, <2>1, ReversedIs
<1>6. amount \in [Line -> Nat] /\ lost \in [Line -> Nat]
  BY <1>4, <1>5
<1> HIDE DEF amount, lost
<1>7. RefundsTypeOK'
  <2>1. balance' \in [Line -> Int]
    <3>1. \A l \in Line : balance[l] \in Int /\ lost[l] \in Int
      BY <1>1, <1>6 DEF RefundsTypeOK
    <3>2. QED
      BY <1>2, <3>1
  <2>2. returnIs' \in [Return -> {"NONE", "COMPLETED", "CANCELLED"}]
    BY <1>1, <1>2 DEF RefundsTypeOK
  <2>3. /\ parts' \in [Return -> [Line -> Nat]] /\ refund' \in [Return -> [Line -> Nat]]
        /\ reversal' \in [Return -> [Line -> Nat]]
    BY <1>1, <1>2, <1>6 DEF RefundsTypeOK
  <2>4. QED
    BY <1>1, <1>2, <2>1, <2>2, <2>3 DEF RefundsTypeOK, sale, rows
<1>8. Completed' = Completed \union {r}
  BY <1>1, <1>2 DEF Completed, RefundsTypeOK
<1>9. ASSUME NEW l \in Line
      PROVE  /\ ReturnedPieces(l)' = ReturnedPieces(l) + part[l]
             /\ ReturnedCents(l)' = ReturnedCents(l) + amount[l]
             /\ TotalOf(reversal', l, Completed') = TotalOf(reversal, l, Completed) + lost[l]
  <2>1. /\ parts \in [Return -> [Line -> Nat]] /\ refund \in [Return -> [Line -> Nat]]
        /\ reversal \in [Return -> [Line -> Nat]]
        /\ parts' \in [Return -> [Line -> Nat]] /\ refund' \in [Return -> [Line -> Nat]]
        /\ reversal' \in [Return -> [Line -> Nat]]
    BY <1>1, <1>7 DEF RefundsTypeOK
  <2>2. /\ TotalOf(parts', l, Completed') = TotalOf(parts, l, Completed) + part[l]
        /\ TotalOf(refund', l, Completed') = TotalOf(refund, l, Completed) + amount[l]
        /\ TotalOf(reversal', l, Completed') = TotalOf(reversal, l, Completed) + lost[l]
    <3>1. /\ Grown(parts, parts', Completed, Completed', r)
          /\ Grown(refund, refund', Completed, Completed', r)
          /\ Grown(reversal, reversal', Completed, Completed', r)
      BY <1>1, <1>2, <1>8, <2>1 DEF Grown
    <3>2. parts'[r] = part /\ refund'[r] = amount /\ reversal'[r] = lost
      BY <1>2, <2>1
    <3>3. QED
      BY <3>1, <3>2, TotalGrows
  <2>3. /\ ReturnedPieces(l)' = TotalOf(parts', l, Completed')
        /\ ReturnedCents(l)' = TotalOf(refund', l, Completed')
    BY DEF ReturnedPieces, ReturnedCents, TotalOf
  <2>4. QED
    BY <1>1, <2>2, <2>3, ReturnedAre
<1>10. /\ sold' = sold /\ net' = net /\ dearest' = dearest /\ rewritten' = rewritten
       /\ \A l \in Line : Paid(l)' = Paid(l) /\ Commission(l)' = Commission(l)
  BY <1>2, SharesStand DEF sale, rows
<1>11. \A x \in Return, l \in Line :
         \/ /\ parts'[x][l] = parts[x][l] /\ refund'[x][l] = refund[x][l]
            /\ reversal'[x][l] = reversal[x][l]
         \/ /\ parts'[x][l] = part[l] /\ refund'[x][l] = amount[l]
            /\ reversal'[x][l] = lost[l]
  BY <1>1, <1>2 DEF RefundsTypeOK
<1>12. LinesKept'
  <2>1. ASSUME NEW l \in Line
        PROVE  LineKept(l)'
    <3>1. LineKept(l) /\ MayGive(l, ReturnedPieces(l) + part[l], ReturnedCents(l) + amount[l])
      BY <1>1, <1>4 DEF LinesKept
    <3>2. QED
      BY <1>9, <1>10, <3>1 DEF LineKept, MayGive
  <2>2. \A x \in Return, l \in Line : parts'[x][l] = 0 => refund'[x][l] = 0
    BY <1>1, <1>4, <1>11 DEF LinesKept
  <2>3. QED
    BY <2>1, <2>2 DEF LinesKept
<1>13. EarnedKept'
  <2>1. ASSUME NEW x \in Return, NEW l \in Line
        PROVE  Reversing(l, parts[x][l], reversal[x][l])'
    <3>1. Reversing(l, parts'[x][l], reversal'[x][l])
      BY <1>1, <1>5, <1>11 DEF EarnedKept
    <3>2. Commission(l)' = Commission(l) /\ sold' = sold
      BY <1>10
    <3>3. QED
      BY <3>1, <3>2 DEF Reversing
  <2>2. ASSUME NEW l \in Line
        PROVE  balance'[l] = Commission(l)' - TotalOf(reversal', l, Completed')
    <3>1. balance[l] = Commission(l) - TotalOf(reversal, l, Completed)
      BY <1>1, <1>2 DEF EarnedKept
    <3>2. Commission(l) \in Nat /\ TotalOf(reversal, l, Completed) \in Nat /\ lost[l] \in Nat
      BY <1>1, <1>6, CommissionIs, ReturnedAre
    <3>3. balance'[l] = balance[l] - lost[l]
      BY <1>2
    <3>4. QED
      BY <1>9, <1>10, <3>1, <3>2, <3>3
  <2>3. QED
    BY <2>1, <2>2 DEF EarnedKept, TotalOf
<1>14. QED
  BY <1>7, <1>12, <1>13 DEF RefundsInv

LEMMA CancelReturnKeepsInv ==
  ASSUME RefundsInv, NEW r \in Return, CancelReturn(r)
  PROVE  RefundsInv'
<1>1. /\ RefundsTypeOK /\ LinesKept /\ EarnedKept /\ SaleSold /\ Completed \subseteq Return
      /\ r \in Completed
  BY TypesGive DEF RefundsInv, Completed, CancelReturn
<1>2. /\ returnIs' = [returnIs EXCEPT ![r] = "CANCELLED"]
      /\ balance' = [l \in Line |-> balance[l] + reversal[r][l]]
      /\ UNCHANGED <<sale, rows, saleIs, parts, refund, reversal>>
  BY DEF CancelReturn, Restored
<1>3. \A l \in Line : parts[r][l] \in Nat /\ refund[r][l] \in Nat /\ reversal[r][l] \in Nat
  BY <1>1 DEF RefundsTypeOK
<1>4. RefundsTypeOK'
  <2>1. balance' \in [Line -> Int]
    <3>1. \A l \in Line : balance[l] \in Int /\ reversal[r][l] \in Int
      BY <1>1, <1>3 DEF RefundsTypeOK
    <3>2. QED
      BY <1>2, <3>1
  <2>2. returnIs' \in [Return -> {"NONE", "COMPLETED", "CANCELLED"}]
    BY <1>1, <1>2 DEF RefundsTypeOK
  <2>3. QED
    BY <1>1, <1>2, <2>1, <2>2 DEF RefundsTypeOK, sale, rows
<1>5. Completed' = Completed \ {r}
  BY <1>1, <1>2 DEF Completed, RefundsTypeOK
<1>6. ASSUME NEW l \in Line
      PROVE  /\ ReturnedPieces(l)' = ReturnedPieces(l) - parts[r][l]
             /\ ReturnedCents(l)' = ReturnedCents(l) - refund[r][l]
             /\ TotalOf(reversal', l, Completed') =
                  TotalOf(reversal, l, Completed) - reversal[r][l]
             /\ ReturnedPieces(l)' \in Nat
  <2>1. /\ parts \in [Return -> [Line -> Nat]] /\ refund \in [Return -> [Line -> Nat]]
        /\ reversal \in [Return -> [Line -> Nat]] /\ Completed' \subseteq Return
    BY <1>1, <1>5 DEF RefundsTypeOK
  <2>2. /\ TotalOf(parts, l, Completed') = TotalOf(parts, l, Completed) - parts[r][l]
        /\ TotalOf(refund, l, Completed') = TotalOf(refund, l, Completed) - refund[r][l]
        /\ TotalOf(reversal, l, Completed') = TotalOf(reversal, l, Completed) - reversal[r][l]
        /\ TotalOf(parts, l, Completed') \in Nat
    BY <1>1, <1>5, <2>1, TotalShrinks, TotalIsNat
  <2>3. /\ ReturnedPieces(l)' = TotalOf(parts, l, Completed')
        /\ ReturnedCents(l)' = TotalOf(refund, l, Completed')
    BY <1>2 DEF ReturnedPieces, ReturnedCents, TotalOf
  <2>4. QED
    BY <1>1, <1>2, <2>2, <2>3, ReturnedAre
<1>7. /\ sold' = sold /\ net' = net /\ dearest' = dearest /\ rewritten' = rewritten
      /\ \A l \in Line : Paid(l)' = Paid(l) /\ Commission(l)' = Commission(l)
  BY <1>2, SharesStand DEF sale, rows
<1>8. LinesKept'
  <2>1. ASSUME NEW l \in Line
        PROVE  LineKept(l)'
    <3>1. /\ ReturnedPieces(l) \in Nat /\ ReturnedCents(l) \in Nat /\ dearest[l] \in Nat
          /\ sold[l] \in Nat /\ parts[r][l] \in Nat /\ refund[r][l] \in Nat
          /\ LineKept(l) /\ (parts[r][l] = 0 => refund[r][l] = 0)
      BY <1>1, <1>3, ReturnedAre DEF LinesKept, SaleSold, RefundsTypeOK
    <3>2. QED
      BY <1>6, <1>7, <3>1 DEF LineKept
  <2>2. QED
    BY <1>1, <1>2, <1>7, <2>1 DEF LinesKept
<1>9. EarnedKept'
  <2>1. \A x \in Return, l \in Line : Reversing(l, parts[x][l], reversal[x][l])'
    BY <1>1, <1>2, <1>7 DEF EarnedKept, Reversing
  <2>2. ASSUME NEW l \in Line, saleIs = "COMPLETED"
        PROVE  balance'[l] = Commission(l)' - TotalOf(reversal', l, Completed')
    <3>1. balance[l] = Commission(l) - TotalOf(reversal, l, Completed)
      BY <1>1, <2>2 DEF EarnedKept
    <3>2. Commission(l) \in Nat /\ TotalOf(reversal, l, Completed) \in Nat
      BY <1>1, CommissionIs, ReturnedAre
    <3>3. balance'[l] = balance[l] + reversal[r][l] /\ reversal[r][l] \in Nat
      BY <1>2, <1>3
    <3>4. QED
      BY <1>6, <1>7, <3>1, <3>2, <3>3
  <2>3. QED
    BY <1>2, <2>1, <2>2 DEF EarnedKept, TotalOf
<1>10. QED
  BY <1>4, <1>8, <1>9 DEF RefundsInv

LEMMA RestKeepsInv ==
  ASSUME RefundsInv, CancelPaidSale \/ UNCHANGED refundVars
  PROVE  RefundsInv'
<1>1. /\ RefundsTypeOK /\ LinesKept /\ EarnedKept /\ SaleSold
  BY TypesGive DEF RefundsInv
<1>2. /\ UNCHANGED <<sale, rows, returnIs, parts, refund, reversal>>
      /\ \/ saleIs' = "CANCELLED" /\ balance' = [l \in Line |-> balance[l] - Commission(l)]
         \/ UNCHANGED <<saleIs, balance>>
  BY DEF CancelPaidSale, refundVars, returns
<1>3. RefundsTypeOK'
  <2>1. balance' \in [Line -> Int]
    <3>1. \A l \in Line : balance[l] \in Int /\ Commission(l) \in Int
      BY <1>1, CommissionIs DEF RefundsTypeOK
    <3>2. QED
      BY <1>1, <1>2, <3>1 DEF RefundsTypeOK
  <2>2. QED
    BY <1>1, <1>2, <2>1 DEF RefundsTypeOK, sale, rows
<1>4. /\ sold' = sold /\ Completed' = Completed
      /\ net' = net /\ dearest' = dearest /\ rewritten' = rewritten
      /\ \A l \in Line : /\ Paid(l)' = Paid(l) /\ Commission(l)' = Commission(l)
                         /\ ReturnedPieces(l)' = ReturnedPieces(l)
                         /\ ReturnedCents(l)' = ReturnedCents(l)
  <2>1. Completed' = Completed
    BY <1>2 DEF Completed
  <2>2. QED
    BY <1>2, <2>1, SharesStand DEF sale, rows, ReturnedPieces, ReturnedCents
<1>5. LinesKept'
  BY <1>1, <1>2, <1>4 DEF LinesKept, LineKept
<1>6. EarnedKept'
  BY <1>1, <1>2, <1>4 DEF EarnedKept, Reversing, TotalOf
<1>7. QED
  BY <1>3, <1>5, <1>6 DEF RefundsInv

\* New prices change what the lines say, not what was paid or given back.
LEMMA RewritingKeepsInv ==
  ASSUME RefundsInv, NEW changed \in SUBSET Line, NEW cents \in [changed -> NewCents],
         ApplyQuantityPricing(changed, cents)
  PROVE  RefundsInv'
<1>1. /\ RefundsTypeOK /\ LinesKept /\ EarnedKept /\ SaleSold
  BY TypesGive DEF RefundsInv
<1>2. /\ UNCHANGED <<sale, saleIs, returnIs, parts, refund, reversal, balance>>
      /\ net' = [l \in Line |-> IF l \in changed THEN cents[l] ELSE net[l]]
      /\ rewritten' = rewritten \union changed
      /\ dearest' = [l \in Line |-> IF net'[l] > dearest[l] THEN net'[l] ELSE dearest[l]]
      /\ rewrites < MaxRewrites /\ rewrites' = rewrites + 1
  BY DEF ApplyQuantityPricing, returns
<1>3. net' \in [Line -> Nat] /\ dearest' \in [Line -> Nat]
  <2>1. ASSUME NEW l \in Line
        PROVE  net'[l] \in Nat /\ dearest'[l] \in Nat
    <3>1. net[l] \in Nat /\ dearest[l] \in Nat /\ (l \in changed => cents[l] \in Nat)
      BY <1>1, RefundsAssumption DEF RefundsTypeOK
    <3>2. QED
      BY <1>2, <3>1
  <2>2. QED
    BY <1>2, <2>1
<1>4. RefundsTypeOK'
  BY <1>1, <1>2, <1>3, RefundsAssumption DEF RefundsTypeOK, sale
<1>5. /\ sold' = sold /\ Completed' = Completed
      /\ \A l \in Line : /\ Paid(l)' = Paid(l) /\ Commission(l)' = Commission(l)
                         /\ ReturnedPieces(l)' = ReturnedPieces(l)
                         /\ ReturnedCents(l)' = ReturnedCents(l)
  <2>1. Completed' = Completed
    BY <1>2 DEF Completed
  <2>2. QED
    BY <1>2, <2>1, SharesStand DEF sale, ReturnedPieces, ReturnedCents
<1>6. ASSUME NEW l \in Line
      PROVE  LineKept(l)'
  <2>1. /\ LineKept(l) /\ ReturnedCents(l) \in Nat
        /\ net[l] \in Nat /\ dearest[l] \in Nat /\ net'[l] \in Nat
    BY <1>1, <1>3, ReturnedAre DEF LinesKept, RefundsTypeOK
  <2>2. /\ dearest'[l] = IF net'[l] > dearest[l] THEN net'[l] ELSE dearest[l]
        /\ l \notin rewritten' => l \notin rewritten /\ net'[l] = net[l]
    BY <1>2
  <2>3. QED
    BY <1>5, <2>1, <2>2 DEF LineKept
<1>7. LinesKept'
  BY <1>1, <1>2, <1>6 DEF LinesKept
<1>8. EarnedKept'
  BY <1>1, <1>2, <1>5 DEF EarnedKept, Reversing, TotalOf
<1>9. QED
  BY <1>4, <1>7, <1>8 DEF RefundsInv

LEMMA RefundsNextKeepsInv ==
  ASSUME RefundsInv, [RefundsNext]_refundVars
  PROVE  RefundsInv'
<1>1. CASE \E changed \in SUBSET Line \ {{}} :
             \E cents \in [changed -> NewCents] : ApplyQuantityPricing(changed, cents)
  BY <1>1, RewritingKeepsInv
<1>2. QED
  BY <1>1, CreateReturnKeepsInv, CancelReturnKeepsInv, RestKeepsInv DEF RefundsNext

LEMMA InvGivesReturnsExact ==
  ASSUME RefundsInv
  PROVE  ReturnsAreExact
<1>1. /\ RefundsTypeOK /\ LinesKept /\ EarnedKept /\ SaleSold /\ Completed \subseteq Return
  BY TypesGive DEF RefundsInv
<1>2. RefundsAreExact
  BY <1>1, SharesFit DEF RefundsAreExact, LinesKept, LineKept
<1>3. ASSUME saleIs = "COMPLETED", NEW l \in Line
      PROVE  LET exact == 2 * Commission(l) * (sold[l] - ReturnedPieces(l))
                 slack == sold[l] * Cardinality({r \in Completed : parts[r][l] > 0})
             IN 2 * sold[l] * balance[l] \in (exact - slack)..(exact + slack)
  <2> DEFINE pieces == [r \in Return |-> parts[r][l]]
             cents == [r \in Return |-> reversal[r][l]]
             some == sold[l] * Cardinality({r \in Completed : pieces[r] > 0})
             c == Commission(l)
             s == sold[l]
             N == ReturnedPieces(l)
             R == TotalOf(reversal, l, Completed)
  <2>1. \A r \in Completed : /\ pieces[r] \in Nat /\ cents[r] \in Nat
                             /\ Reversing(l, pieces[r], cents[r])
    BY <1>1 DEF EarnedKept, RefundsTypeOK
  <2>2. IsFiniteSet(Completed)
    BY <1>1, ReturnsAreFinite
  <2>3. SumFunctionOnSet(pieces, Completed) = N /\ SumFunctionOnSet(cents, Completed) = R
    BY DEF ReturnedPieces, TotalOf
  <2>4. some = sold[l] * Cardinality({r \in Completed : parts[r][l] > 0})
    <3>1. {r \in Completed : pieces[r] > 0} = {r \in Completed : parts[r][l] > 0}
      BY <1>1
    <3>2. QED
      BY <3>1
  <2> HIDE DEF pieces, cents
  <2>5. some \in Nat /\ 2 * s * R <= 2 * c * N + some /\ 2 * c * N <= 2 * s * R + some
    BY <1>1, <2>1, <2>2, <2>3, ReversingAddsUp
  <2>6. c \in Nat /\ s \in Nat /\ N \in Nat /\ R \in Nat /\ balance[l] = c - R
    BY <1>1, <1>3, CommissionIs, ReturnedAre DEF EarnedKept, SaleSold
  <2> HIDE DEF some, c, s, N, R
  <2>7. 2 * c * (s - N) = 2 * c * s - 2 * c * N /\ 2 * s * (c - R) = 2 * c * s - 2 * s * R
    BY <2>6
  <2>8. 2 * c * s \in Int /\ 2 * c * N \in Int /\ 2 * s * R \in Int
    BY <2>6
  <2>9. 2 * s * balance[l] \in (2 * c * (s - N) - some)..(2 * c * (s - N) + some)
    BY <2>5, <2>6, <2>7, <2>8
  <2>10. QED
    BY <2>4, <2>9 DEF c, s, N
<1>4. CommissionFollowsReturns
  BY <1>3 DEF CommissionFollowsReturns
<1>5. QED
  BY <1>2, <1>4 DEF ReturnsAreExact

(* A sale, its returns and the commission of its seller keep their types.  *)
THEOREM RefundsTypeCorrect == RefundsSpec => []RefundsTypeOK
<1>1. RefundsInv => RefundsTypeOK
  BY DEF RefundsInv
<1>2. QED
  BY <1>1, RefundsInitKeepsInv, RefundsNextKeepsInv, PTL DEF RefundsSpec

(* For any lines, prices, discount, rate and returns: the discount is      *)
(* shared out to the cent, a line that is back gave back what was paid     *)
(* unless it was priced anew after that, and then no more than the highest *)
(* price it was given; the commission follows the pieces to half a cent    *)
(* for each return, whatever was priced anew.                              *)
THEOREM ReturnsStayExact == RefundsSpec => []ReturnsAreExact
<1>1. RefundsInv => ReturnsAreExact
  BY InvGivesReturnsExact
<1>2. QED
  BY <1>1, RefundsInitKeepsInv, RefundsNextKeepsInv, PTL DEF RefundsSpec

=============================================================================
