------------------------------- MODULE Telemetry -------------------------------
(***************************************************************************)
(* The queue of telemetry events, the batches that are sent from it, and   *)
(* the worker that takes them: an answer may come late or never, batches   *)
(* that overlap or are sent again carry the same events, and either side   *)
(* may stop in the middle.                                                 *)
(*                                                                         *)
(* Whether an event that waits for its next attempt is due is left free.   *)
(* The credential of the installation and the switch of the diagnostics    *)
(* are left out.                                                           *)
(***************************************************************************)
EXTENDS Integers, Sequences, SequencesExt

CONSTANTS
  Event,
  ErrorEvent,       \* events of failures, kept the longest and counted once
  MaxPending,       \* events the queue may hold
  BatchSize,
  MaxFlushes,       \* bound: batches ever sent
  MaxWithdrawals,   \* bound: times the consent is withdrawn
  MaxPurges         \* bound: receipts that become too old

VARIABLES
  allowed,          \* consent given and telemetry.enabled
  queue,            \* telemetry_events, oldest first
  later,            \* ... those with a next_attempt_at
  recorded,         \* events ever recorded
  dropped,          \* ... those given up: trimmed, refused or withdrawn
  batches,          \* flushes, each with what its client and the worker do
  points,           \* events written to the analytics engine
  errorReceipts,    \* event_receipts
  errorCounts,      \* occurrences each failure was counted
  purged,           \* receipts removed for their age, of each failure
  withdrawals

outbound == <<allowed, queue, later, recorded, dropped, withdrawals>>
cloud == <<points, errorReceipts, errorCounts, purged>>
telemetryVars == <<outbound, batches, cloud>>

ASSUME TelemetryAssumption ==
  /\ ErrorEvent \subseteq Event
  /\ MaxPending \in Nat \ {0} /\ BatchSize \in Nat \ {0}
  /\ MaxFlushes \in Nat /\ MaxWithdrawals \in Nat /\ MaxPurges \in Nat

-----------------------------------------------------------------------------
Plain == Event \ ErrorEvent

\* The events of s that are some of those given, in the order of s.
Among(s, some) ==
  LET kept[n \in 0..Len(s)] ==
        IF n = 0 THEN <<>>
        ELSE IF s[n] \in some THEN Append(kept[n - 1], s[n])
        ELSE kept[n - 1]
  IN kept[Len(s)]

\* The older of two events of the same priority comes first.
ByPriority(s) == Among(s, ErrorEvent) \o Among(s, Plain)

\* trim: one event too many makes the oldest of the lowest priority leave.
Victim(s) == IF Range(s) \cap Plain # {} THEN Among(s, Plain)[1] ELSE s[1]
Overflow(s) == IF Len(s) > MaxPending THEN {Victim(s)} ELSE {}

Without(s, gone) == Among(s, Event \ gone)

Unanswered(b) == batches[b].client = "WAITING"
InBatch(b) == Range(batches[b].events)

-----------------------------------------------------------------------------
TelemetryInit ==
  /\ allowed = TRUE /\ queue = <<>> /\ later = {} /\ recorded = {} /\ dropped = {}
  /\ withdrawals = 0
  /\ batches = <<>>
  /\ points = {} /\ errorReceipts = {}
  /\ errorCounts = [e \in ErrorEvent |-> 0] /\ purged = [e \in ErrorEvent |-> 0]

Record(e) ==
  LET longer == Append(queue, e)
      out == Overflow(longer)
  IN /\ allowed /\ e \notin recorded
     /\ queue' = Without(longer, out) /\ later' = later \ out
     /\ recorded' = recorded \cup {e} /\ dropped' = dropped \cup out
     /\ UNCHANGED <<allowed, withdrawals, batches, cloud>>

\* The switch and the queue are two commits.
Withdraw ==
  /\ allowed /\ withdrawals < MaxWithdrawals
  /\ allowed' = FALSE /\ withdrawals' = withdrawals + 1
  /\ queue' = <<>> /\ later' = {} /\ dropped' = dropped \cup Range(queue)
  /\ UNCHANGED <<recorded, batches, cloud>>

Stopped == [b \in DOMAIN batches |-> [batches[b] EXCEPT !.client = "DONE"]]

CutInWithdraw ==
  /\ allowed /\ withdrawals < MaxWithdrawals
  /\ allowed' = FALSE /\ withdrawals' = withdrawals + 1
  /\ batches' = Stopped
  /\ UNCHANGED <<queue, later, recorded, dropped, cloud>>

Allow ==
  /\ ~allowed /\ allowed' = TRUE
  /\ UNCHANGED <<queue, later, recorded, dropped, withdrawals, batches, cloud>>

Restart ==
  /\ \E b \in DOMAIN batches : Unanswered(b)
  /\ batches' = Stopped
  /\ UNCHANGED <<outbound, cloud>>

\* flush: the first of those that are due.  Besides the one of the timer there
\* may be that of the start or of the end of the process.
Flush(ripe) ==
  LET due == ByPriority(Among(queue, (Event \ later) \cup ripe))
  IN /\ allowed /\ Len(batches) < MaxFlushes
     /\ Cardinality({b \in DOMAIN batches : Unanswered(b)}) < 2
     /\ due # <<>>
     /\ batches' = Append(batches,
          [events |-> SubSeq(due, 1, IF Len(due) < BatchSize THEN Len(due) ELSE BatchSize),
           client |-> "WAITING", worker |-> "NONE", next |-> 1, held |-> FALSE])
     /\ UNCHANGED <<outbound, cloud>>

-----------------------------------------------------------------------------
\* handleEvents, event after event; it stops half-way when the worker fails.
Receive(b) ==
  /\ batches[b].worker = "NONE"
  /\ batches' = [batches EXCEPT ![b].worker = "OPEN"]
  /\ UNCHANGED <<outbound, cloud>>

\* Not authenticated, not of this installation, or not valid.
Refuse(b, status) ==
  /\ batches[b].worker = "NONE"
  /\ batches' = [batches EXCEPT ![b].worker = status]
  /\ UNCHANGED <<outbound, cloud>>

Fail(b) ==
  /\ batches[b].worker = "OPEN"
  /\ batches' = [batches EXCEPT ![b].worker = "FAILED"]
  /\ UNCHANGED <<outbound, cloud>>

Current(b) == batches[b].events[batches[b].next]
Ready(b) ==
  /\ batches[b].worker = "OPEN" /\ ~batches[b].held
  /\ batches[b].next <= Len(batches[b].events)

\* Mutant: the receipt is written and nobody asks whether it was new.
FirstAlways(e) == e \in ErrorEvent

\* INSERT OR IGNORE of the receipt changed a row.
First(e) == e \in ErrorEvent \ errorReceipts

\* The point, and the receipt of a failure.
TakeEvent(b) ==
  LET e == Current(b)
  IN /\ Ready(b)
     /\ points' = points \cup {e}
     /\ errorReceipts' = IF e \in ErrorEvent THEN errorReceipts \cup {e} ELSE errorReceipts
     /\ batches' = [batches EXCEPT ![b].held = First(e),
                                   ![b].next = IF First(e) THEN @ ELSE @ + 1]
     /\ UNCHANGED <<outbound, errorCounts, purged>>

\* The count of a failure whose receipt is new, in a statement of its own.
CountError(b) ==
  /\ batches[b].worker = "OPEN" /\ batches[b].held
  /\ errorCounts' = [errorCounts EXCEPT ![Current(b)] = @ + 1]
  /\ batches' = [batches EXCEPT ![b].held = FALSE, ![b].next = @ + 1]
  /\ UNCHANGED <<outbound, points, errorReceipts, purged>>

Accept(b) ==
  /\ batches[b].worker = "OPEN" /\ batches[b].next > Len(batches[b].events)
  /\ batches' = [batches EXCEPT ![b].worker = "ACCEPTED"]
  /\ UNCHANGED <<outbound, cloud>>

\* Receipts older than 30 days, when no request is that old.
PurgeReceipt(e) ==
  /\ e \in errorReceipts /\ \A b \in DOMAIN batches : batches[b].worker # "OPEN"
  /\ purged[e] < MaxPurges
  /\ errorReceipts' = errorReceipts \ {e} /\ purged' = [purged EXCEPT ![e] = @ + 1]
  /\ UNCHANGED <<outbound, batches, points, errorCounts>>

-----------------------------------------------------------------------------
Ended(b) == batches' = [batches EXCEPT ![b].client = "DONE"]

\* ack
Acknowledge(b) ==
  /\ Unanswered(b) /\ batches[b].worker = "ACCEPTED" /\ Ended(b)
  /\ queue' = Without(queue, InBatch(b)) /\ later' = later \ InBatch(b)
  /\ UNCHANGED <<allowed, recorded, dropped, withdrawals, cloud>>

\* A batch that is not valid is given up whole.
Discard(b) ==
  /\ Unanswered(b) /\ batches[b].worker = "INVALID" /\ Ended(b)
  /\ queue' = Without(queue, InBatch(b)) /\ later' = later \ InBatch(b)
  /\ dropped' = dropped \cup (Range(queue) \cap InBatch(b))
  /\ UNCHANGED <<allowed, recorded, withdrawals, cloud>>

Pause(b) ==
  /\ Unanswered(b) /\ batches[b].worker = "FORBIDDEN" /\ Ended(b)
  /\ UNCHANGED <<outbound, cloud>>

\* An answer of failure, none, or one that does not come in time.
Reschedule(b) ==
  /\ Unanswered(b) /\ Ended(b)
  /\ later' = later \cup (Range(queue) \cap InBatch(b))
  /\ UNCHANGED <<allowed, queue, recorded, dropped, withdrawals, cloud>>

TelemetryNext ==
  \/ \E e \in Event : Record(e)
  \/ Withdraw \/ CutInWithdraw \/ Allow \/ Restart
  \/ \E ripe \in SUBSET later : Flush(ripe)
  \/ \E b \in DOMAIN batches :
       \/ Receive(b) \/ Fail(b) \/ TakeEvent(b) \/ CountError(b) \/ Accept(b)
       \/ \E status \in {"INVALID", "FORBIDDEN"} : Refuse(b, status)
       \/ Acknowledge(b) \/ Discard(b) \/ Pause(b) \/ Reschedule(b)
  \/ \E e \in ErrorEvent : PurgeReceipt(e)

TelemetrySpec == TelemetryInit /\ [][TelemetryNext]_telemetryVars

-----------------------------------------------------------------------------
TelemetryTypeOK ==
  /\ allowed \in BOOLEAN
  /\ queue \in Seq(Event) /\ later \subseteq Range(queue)
  /\ recorded \subseteq Event /\ dropped \subseteq recorded
  /\ points \subseteq recorded /\ errorReceipts \subseteq ErrorEvent \cap points
  /\ \A b \in DOMAIN batches :
       /\ batches[b].client \in {"WAITING", "DONE"}
       /\ batches[b].worker \in {"NONE", "OPEN", "ACCEPTED", "INVALID", "FORBIDDEN", "FAILED"}

\* The queue never grows past its limit and holds no event twice.
WithinLimit == Len(queue) <= MaxPending /\ IsInjective(queue)

\* What is not in the queue any more has reached the worker, or was trimmed,
\* refused or withdrawn.
NoneLost == recorded \subseteq Range(queue) \cup points \cup dropped

\* Sent again, or in two batches at once, a failure is counted once for each
\* receipt there has been, and what was counted has been written.
CountedOnce ==
  \A e \in ErrorEvent :
    /\ errorCounts[e] <= 1 + purged[e]
    /\ errorCounts[e] > 0 => e \in points

\* Whatever is sent again after an answer that was lost, sent twice at once, or
\* cut in the middle by the end of the process or of the worker.
EventsAreAccountedFor == WithinLimit /\ NoneLost /\ CountedOnce

=============================================================================
