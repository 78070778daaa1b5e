----------------------------- MODULE PrintQueue ------------------------------
(***************************************************************************)
(* The print jobs of one store.  The receipt of a sale is queued by the    *)
(* effect of the sale and printed by the worker of the desktop, one job at *)
(* a time and the newest first.  A manual attempt is printed by the        *)
(* desktop that asked for it and reported to the server afterwards.  A     *)
(* reprint is queued like both of them, and no worker looks for its kind.  *)
(* The printer answers late or not as asked: the paper may come out and    *)
(* the answer be a failure, or be lost with the process.  Jobs are         *)
(* numbered as they are made; texts, widths and devices are left out.      *)
(***************************************************************************)
EXTENDS Integers, FiniteSets

CONSTANTS
  MaxJobs,        \* bound: jobs ever queued
  MaxRetries,     \* bound: jobs sent back to the queue
  MaxStops,       \* bound: ends of the desktop's process
  NoJob

VARIABLES
  queued, kind, status,     \* print_jobs, in the order they were made
  autoPrint,                \* the preference that turns the worker on
  worker,                   \* the job the worker is busy with
  printing,                 \* manual attempts whose desktop is at it
  paper,                    \* jobs whose present attempt put out its paper
  papers, retries,          \* of each job: papers it has cost, times it was sent back
  stops

table == <<queued, kind, status>>
desktop == <<autoPrint, worker, printing, paper>>
printVars == <<table, desktop, papers, retries, stops>>

Job == 1..MaxJobs

ASSUME PrintAssumption ==
  /\ MaxJobs \in Nat /\ MaxRetries \in Nat /\ MaxStops \in Nat
  /\ NoJob \notin Nat

PrintInit ==
  /\ queued = 0
  /\ kind = [j \in Job |-> "NONE"] /\ status = [j \in Job |-> "NONE"]
  /\ autoPrint \in BOOLEAN /\ worker = NoJob /\ printing = {} /\ paper = {}
  /\ papers = [j \in Job |-> 0] /\ retries = [j \in Job |-> 0]
  /\ stops = 0

-----------------------------------------------------------------------------
Queue(type) ==
  /\ queued < MaxJobs
  /\ queued' = queued + 1
  /\ kind' = [kind EXCEPT ![queued + 1] = type]
  /\ status' = [status EXCEPT ![queued + 1] = "PENDING"]

\* The effect of sale.completed; queued again under its id it changes nothing.
QueueReceipt ==
  /\ Queue("SALE_RECEIPT")
  /\ UNCHANGED <<desktop, papers, retries, stops>>

\* Of any job there is; the new one is worked on by nobody.
Reprint ==
  /\ queued > 0
  /\ Queue("REPRINT")
  /\ UNCHANGED <<desktop, papers, retries, stops>>

CreateManualAttempt ==
  /\ \E j \in Job : kind[j] = "SALE_RECEIPT"
  /\ Queue("MANUAL")
  /\ printing' = printing \union {queued + 1}
  /\ UNCHANGED <<autoPrint, worker, paper, papers, retries, stops>>

RetryJob(j) ==
  /\ status[j] \in {"FAILED", "PENDING"}
  /\ retries[j] < MaxRetries
  /\ status' = [status EXCEPT ![j] = "PENDING"]
  /\ retries' = [retries EXCEPT ![j] = @ + 1]
  /\ UNCHANGED <<queued, kind, desktop, papers, stops>>

ToggleAutoPrint ==
  /\ autoPrint' = ~autoPrint
  /\ UNCHANGED <<table, worker, printing, paper, papers, retries, stops>>

-----------------------------------------------------------------------------
PendingReceipts == {j \in Job : kind[j] = "SALE_RECEIPT" /\ status[j] = "PENDING"}

\* Mutant: a worker that is busy takes the newest job all the same.
MayTakeNewest(j) ==
  /\ autoPrint
  /\ j \in PendingReceipts /\ \A other \in PendingReceipts : other <= j

MayTake(j) ==
  /\ autoPrint /\ worker = NoJob
  /\ j \in PendingReceipts /\ \A other \in PendingReceipts : other <= j

\* A tick of the worker: the newest receipt goes to the printer.
TakeReceipt(j) ==
  /\ MayTake(j)
  /\ worker' = j
  /\ paper' = paper \ {j}
  /\ UNCHANGED <<table, autoPrint, printing, papers, retries, stops>>

AtPrinter(j) == worker = j \/ j \in printing

PrinterPutsOut(j) ==
  /\ AtPrinter(j) /\ j \notin paper
  /\ paper' = paper \union {j}
  /\ papers' = [papers EXCEPT ![j] = @ + 1]
  /\ UNCHANGED <<table, autoPrint, worker, printing, retries, stops>>

\* Mutant: after a failure the worker is busy for ever.
LeaveFailed(j) ==
  worker' = IF worker = j /\ status'[j] = "PRINTED" THEN NoJob ELSE worker

Leave(j) == worker' = IF worker = j THEN NoJob ELSE worker

PrintedOut(j) == AtPrinter(j) /\ j \in paper

\* markPrinted, by the worker or by the report of the desktop.
MarkPrinted(j) ==
  /\ PrintedOut(j)
  /\ status' = [status EXCEPT ![j] = "PRINTED"]
  /\ Leave(j) /\ printing' = printing \ {j}
  /\ UNCHANGED <<queued, kind, autoPrint, paper, papers, retries, stops>>

\* markFailed: the printer says no, or says so too late, whatever came out.
MarkFailed(j) ==
  /\ AtPrinter(j)
  /\ status' = [status EXCEPT ![j] = "FAILED"]
  /\ Leave(j) /\ printing' = printing \ {j}
  /\ UNCHANGED <<queued, kind, autoPrint, paper, papers, retries, stops>>

\* The report of a manual attempt does not reach the server.
LoseReport(j) ==
  /\ j \in printing
  /\ printing' = printing \ {j}
  /\ UNCHANGED <<table, autoPrint, worker, paper, papers, retries, stops>>

\* The desktop ends: what was at the printer is known to nobody.
StopDesktop ==
  /\ stops < MaxStops /\ stops' = stops + 1
  /\ worker' = NoJob /\ printing' = {}
  /\ UNCHANGED <<table, autoPrint, paper, papers, retries>>

PrintNext ==
  \/ QueueReceipt \/ Reprint \/ CreateManualAttempt
  \/ ToggleAutoPrint \/ StopDesktop
  \/ \E j \in Job :
       \/ RetryJob(j) \/ TakeReceipt(j) \/ PrinterPutsOut(j)
       \/ MarkPrinted(j) \/ MarkFailed(j) \/ LoseReport(j)

\* The worker ticks for ever, and the printer or its driver answers.
PrintFairness ==
  /\ \A j \in Job : WF_printVars(TakeReceipt(j))
  /\ \A j \in Job : WF_printVars(MarkPrinted(j) \/ MarkFailed(j))

PrintSpec == PrintInit /\ [][PrintNext]_printVars /\ PrintFairness

-----------------------------------------------------------------------------
(* Type invariant: the worker is busy with a receipt only.                 *)
PrintTypeOK ==
  /\ queued \in 0..MaxJobs
  /\ kind \in [Job -> {"NONE", "SALE_RECEIPT", "REPRINT", "MANUAL"}]
  /\ status \in [Job -> {"NONE", "PENDING", "PRINTED", "FAILED"}]
  /\ \A j \in Job : kind[j] = "NONE" <=> j > queued
  /\ autoPrint \in BOOLEAN
  /\ worker \in {j \in Job : kind[j] = "SALE_RECEIPT"} \union {NoJob}
  /\ printing \subseteq {j \in Job : kind[j] = "MANUAL"}
  /\ paper \subseteq Job
  /\ papers \in [Job -> Nat] /\ retries \in [Job -> 0..MaxRetries]
  /\ stops \in 0..MaxStops

(* No job costs more paper than somebody asked for: each paper beyond the  *)
(* first has a retry of the job or an end of the desktop of its own.       *)
PapersAreExplained ==
  \A j \in Job : papers[j] <= 1 + retries[j] + stops

(* When no newer receipts keep coming, which have to end here (MaxJobs), a *)
(* receipt does not stay in the queue of a worker that is on, whatever the *)
(* printer answers to the others and wherever the desktop was stopped.     *)
ReceiptsAreTried ==
  \A j \in Job : j \in PendingReceipts ~> (j \notin PendingReceipts \/ ~autoPrint)

=============================================================================
