---------------------------- MODULE FiscalIssuance ----------------------------
(***************************************************************************)
(* The fiscal document of a sale, from its draft to its authorization by   *)
(* the tax office (SEFAZ), its cancellation and its corrections.  Every    *)
(* operation waits for a worker process at least once; meanwhile the same  *)
(* operation may be asked for again, the sale may be cancelled, and the    *)
(* server may stop, which does not stop its workers.  A document is known  *)
(* by its sale.  A worker may answer late, with doubt, or never; what it   *)
(* says SEFAZ decided is what SEFAZ decided.  The worker processes of one  *)
(* server run one at a time only in the packaged program, so that any      *)
(* number is allowed here.  Numbers, series, printed forms and the         *)
(* disabling of ranges of numbers are left out.                            *)
(***************************************************************************)
EXTENDS Naturals

CONSTANTS
  Doc,             \* the sales that get a document
  MaxCorrections,  \* bound: correction letters of a document (20 in the code)
  Call,            \* the requests that may wait at the same time
  MaxCrashes,
  Idle

VARIABLES
  saleStatus,               \* sales
  status, kind,             \* acbr_fiscal_documents, issuanceMode of the manifest
  interrupted,              \* an INI is on disk, the document is still a draft
  signed,                   \* <reference>.signed.xml is on disk
  queue,                    \* acbr_fiscal_offline_queue
  cancellation,             \* acbr_fiscal_cancellations
  corrections, confirmed,   \* acbr_fiscal_cce_events, those CONFIRMED
  at,                       \* at[c] : the document, point and letter c waits at
  signing, sealing, sending,  \* worker processes, by what they do next
  sent, cancelSent,         \* how often something was sent to SEFAZ
  sefaz, cancelled,         \* what SEFAZ decided, known to it alone
  crashes

document == <<status, kind, interrupted, signed>>
letters == <<corrections, confirmed>>
workers == <<signing, sealing, sending>>
office == <<sent, cancelSent, sefaz, cancelled>>
vars == <<saleStatus, document, queue, cancellation, letters, at, workers, office,
          crashes>>

(***************************************************************************)
(* Where a handler waits: issue and flushOfflineQueue for the library to   *)
(* be ready, then for the answer ("sent"); offlineIssue for it to be ready,*)
(* then for the signature; cancel and cce for it to be ready, then for the *)
(* answer; consult for the answer.                                         *)
(***************************************************************************)
Point == {"issue", "flush", "sent", "consult", "offline", "sealing",
          "cancel", "cancelSent", "cce", "cceSent"}
Place == Doc \X Point \X (0..MaxCorrections)   \* 0 where no letter is concerned
Letter == Doc \X (1..MaxCorrections)

ASSUME FiscalAssumption ==
  MaxCorrections \in Nat /\ MaxCrashes \in Nat /\ Idle \notin Place

Init ==
  /\ saleStatus = [d \in Doc |-> "COMPLETED"]
  /\ status = [d \in Doc |-> "NONE"] /\ kind = [d \in Doc |-> "nfce"]
  /\ interrupted = {} /\ signed = {}
  /\ queue = [d \in Doc |-> "NONE"] /\ cancellation = [d \in Doc |-> "NONE"]
  /\ corrections = {} /\ confirmed = {}
  /\ at = [c \in Call |-> Idle]
  /\ signing = [d \in Doc |-> 0] /\ sealing = {} /\ sending = [d \in Doc |-> 0]
  /\ sent = [d \in Doc |-> 0] /\ cancelSent = [d \in Doc |-> 0]
  /\ sefaz = [d \in Doc |-> "NONE"] /\ cancelled = {}
  /\ crashes = 0

Set(f, d, from, to) == f' = [f EXCEPT ![d] = IF @ = from THEN to ELSE @]

\* A call begins to wait, goes on to the next point, or returns.
Advance(c, from, to) == at[c] = from /\ at' = [at EXCEPT ![c] = to]
Enter(c, place) == Advance(c, Idle, place)
Return(c, place) == Advance(c, place, Idle)

-----------------------------------------------------------------------------
\* cancelSale does not ask for the fiscal document.
CancelSale(d) ==
  /\ saleStatus[d] = "COMPLETED"
  /\ saleStatus' = [saleStatus EXCEPT ![d] = "CANCELLED"]
  /\ UNCHANGED <<document, queue, cancellation, letters, at, workers, office, crashes>>

\* One document of a sale, of one type.
PrepareSale(d, type) ==
  /\ status[d] = "NONE" /\ saleStatus[d] = "COMPLETED"
  /\ status' = [status EXCEPT ![d] = "REVIEW_REQUIRED"]
  /\ kind' = [kind EXCEPT ![d] = type]
  /\ UNCHANGED <<saleStatus, interrupted, signed, queue, cancellation, letters,
                 at, workers, office, crashes>>

\* An INI of another attempt, with another random code, is never replaced.
Prepare(d, mode) ==
  /\ status[d] = "REVIEW_REQUIRED" /\ d \notin interrupted
  /\ \/ mode = kind[d]
     \/ mode = "nfce-offline" /\ kind[d] = "nfce"
  /\ status' = [status EXCEPT ![d] = "READY"]
  /\ kind' = [kind EXCEPT ![d] = mode]
  /\ UNCHANGED <<saleStatus, interrupted, signed, queue, cancellation, letters,
                 at, workers, office, crashes>>

-----------------------------------------------------------------------------
Issue(c, d) ==
  /\ status[d] = "READY" /\ saleStatus[d] = "COMPLETED" /\ kind[d] # "nfce-offline"
  /\ Enter(c, <<d, "issue", 0>>)
  /\ UNCHANGED <<saleStatus, document, queue, cancellation, letters, workers, office, crashes>>

Count(f, d) == f' = [f EXCEPT ![d] = @ + 1]
Uncount(f, d) == f' = [f EXCEPT ![d] = @ - 1]

\* The library is ready: UNKNOWN is written before the worker is started.
Claim(c, d) ==
  /\ Advance(c, <<d, "issue", 0>>, <<d, "sent", 0>>)
  /\ d \notin signed
  /\ status[d] = "READY"
  /\ status' = [status EXCEPT ![d] = "UNKNOWN"]
  /\ Count(signing, d)
  /\ UNCHANGED <<saleStatus, kind, interrupted, signed, queue, cancellation,
                 letters, sealing, sending, office, crashes>>

\* Mutant: the queue is brought up to date by another transaction.
AuthorizeOnly(d) == Set(status, d, "UNKNOWN", "AUTHORIZED") /\ UNCHANGED queue

Authorized(d) ==
  Set(status, d, "UNKNOWN", "AUTHORIZED") /\ Set(queue, d, "UNKNOWN", "AUTHORIZED")

Rejected(d) ==
  Set(status, d, "UNKNOWN", "REJECTED") /\ Set(queue, d, "UNKNOWN", "REJECTED")

\* Mutant: an answer that proves nothing is taken for a refusal.
TrustSilence(c, d) ==
  /\ Return(c, <<d, "sent", 0>>)
  /\ \/ sefaz[d] = "AUTHORIZED" /\ Authorized(d)
     \/ Rejected(d)
  /\ UNCHANGED <<saleStatus, kind, interrupted, signed, cancellation, letters,
                 workers, office, crashes>>

\* The answer to a document that was sent, by issue or from the queue.
SentAnswered(c, d) ==
  /\ Return(c, <<d, "sent", 0>>)
  /\ \/ sefaz[d] = "AUTHORIZED" /\ Authorized(d)
     \/ sefaz[d] = "REJECTED" /\ Rejected(d)
  /\ UNCHANGED <<saleStatus, kind, interrupted, signed, cancellation, letters,
                 workers, office, crashes>>

Consult(c, d) ==
  /\ status[d] = "UNKNOWN" /\ d \in signed
  /\ Enter(c, <<d, "consult", 0>>)
  /\ UNCHANGED <<saleStatus, document, queue, cancellation, letters, workers, office, crashes>>

\* Only an authorization can be learnt by asking.
ConsultAnswered(c, d) ==
  /\ Return(c, <<d, "consult", 0>>)
  /\ sefaz[d] = "AUTHORIZED" /\ Authorized(d)
  /\ UNCHANGED <<saleStatus, kind, interrupted, signed, cancellation, letters,
                 workers, office, crashes>>

-----------------------------------------------------------------------------
OfflineIssue(c, d) ==
  /\ status[d] = "READY" /\ saleStatus[d] = "COMPLETED" /\ kind[d] = "nfce-offline"
  /\ queue[d] = "NONE" /\ d \notin signed
  /\ Enter(c, <<d, "offline", 0>>)
  /\ UNCHANGED <<saleStatus, document, queue, cancellation, letters, workers, office, crashes>>

\* Workers that seal a document do the same: one stands for all that run.
StartSealing(c, d) ==
  /\ Advance(c, <<d, "offline", 0>>, <<d, "sealing", 0>>)
  /\ d \notin signed
  /\ sealing' = sealing \union {d}
  /\ UNCHANGED <<saleStatus, document, queue, cancellation, letters, signing, sending,
                 office, crashes>>

\* The signed document is on disk: it is put in the queue, once.
OfflineIssued(c, d) ==
  /\ Return(c, <<d, "sealing", 0>>)
  /\ d \in signed /\ status[d] = "READY" /\ queue[d] = "NONE"
  /\ queue' = [queue EXCEPT ![d] = "PENDING"]
  /\ UNCHANGED <<saleStatus, document, cancellation, letters, workers, office, crashes>>

\* flushOfflineQueue comes to a row that was PENDING when it was listed.
Flush(c, d) ==
  /\ queue[d] = "PENDING" /\ status[d] = "READY"
  /\ Enter(c, <<d, "flush", 0>>)
  /\ UNCHANGED <<saleStatus, document, queue, cancellation, letters, workers, office, crashes>>

ClaimQueued(c, d) ==
  /\ Advance(c, <<d, "flush", 0>>, <<d, "sent", 0>>)
  /\ queue[d] = "PENDING" /\ status[d] = "READY"
  /\ queue' = [queue EXCEPT ![d] = "UNKNOWN"]
  /\ status' = [status EXCEPT ![d] = "UNKNOWN"]
  /\ Count(sending, d)
  /\ UNCHANGED <<saleStatus, kind, interrupted, signed, cancellation, letters,
                 signing, sealing, office, crashes>>

-----------------------------------------------------------------------------
Cancel(c, d) ==
  /\ status[d] = "AUTHORIZED" /\ cancellation[d] = "NONE"
  /\ Enter(c, <<d, "cancel", 0>>)
  /\ UNCHANGED <<saleStatus, document, queue, cancellation, letters, workers, office, crashes>>

\* The primary key lets one call insert the row and send the event.
SendCancellation(c, d) ==
  /\ Advance(c, <<d, "cancel", 0>>, <<d, "cancelSent", 0>>)
  /\ cancellation[d] = "NONE"
  /\ cancellation' = [cancellation EXCEPT ![d] = "UNKNOWN"]
  /\ Count(cancelSent, d)
  /\ UNCHANGED <<saleStatus, document, queue, letters, workers, sent, sefaz, cancelled,
                 crashes>>

CancellationConfirmed(c, d) ==
  /\ Return(c, <<d, "cancelSent", 0>>)
  /\ d \in cancelled /\ status[d] = "AUTHORIZED"
  /\ status' = [status EXCEPT ![d] = "CANCELLED"]
  /\ Set(cancellation, d, "UNKNOWN", "CANCELLED")
  /\ UNCHANGED <<saleStatus, kind, interrupted, signed, queue, letters, workers,
                 office, crashes>>

\* Mutant: a letter whose fate is unknown does not hold back the next one.
FollowsAnyLetter(d, n) ==
  <<d, n>> \notin corrections /\ (n > 1 => <<d, n - 1>> \in corrections)

\* The next in sequence, and the one before it is confirmed.
FollowsLetters(d, n) ==
  <<d, n>> \notin corrections /\ (n > 1 => <<d, n - 1>> \in confirmed)

Correct(c, d, n) ==
  /\ status[d] = "AUTHORIZED" /\ kind[d] = "nfe" /\ cancellation[d] = "NONE"
  /\ FollowsLetters(d, n)
  /\ Enter(c, <<d, "cce", n>>)
  /\ UNCHANGED <<saleStatus, document, queue, cancellation, letters, workers, office, crashes>>

\* The status is read again; the sequence is left to the primary key.
SendCorrection(c, d, n) ==
  /\ Advance(c, <<d, "cce", n>>, <<d, "cceSent", n>>)
  /\ status[d] = "AUTHORIZED" /\ <<d, n>> \notin corrections
  /\ corrections' = corrections \union {<<d, n>>}
  /\ UNCHANGED <<saleStatus, document, queue, cancellation, confirmed, workers, office, crashes>>

CorrectionConfirmed(c, d, n) ==
  /\ Return(c, <<d, "cceSent", n>>)
  /\ confirmed' = confirmed \union {<<d, n>>}
  /\ UNCHANGED <<saleStatus, document, queue, cancellation, corrections, workers, office, crashes>>

-----------------------------------------------------------------------------
\* A call ends in an error or with an answer that proves nothing.
GiveUp(c) ==
  /\ at[c] # Idle
  /\ at' = [at EXCEPT ![c] = Idle]
  /\ UNCHANGED <<saleStatus, document, queue, cancellation, letters, workers, office, crashes>>

\* nfe_transmit: the signed document is on disk before it is sent.
WorkerSigns(d) ==
  /\ signing[d] > 0
  /\ Uncount(signing, d) /\ Count(sending, d)
  /\ signed' = signed \union {d}
  /\ UNCHANGED <<saleStatus, status, kind, interrupted, queue, cancellation, letters,
                 at, sealing, office, crashes>>

\* nfe_offline_issue signs without sending anything.
WorkerSeals(d) ==
  /\ d \in sealing /\ sealing' = sealing \ {d}
  /\ signed' = signed \union {d}
  /\ UNCHANGED <<saleStatus, status, kind, interrupted, queue, cancellation, letters,
                 at, signing, sending, office, crashes>>

\* NFE_Enviar: SEFAZ decides on the first copy it gets.
WorkerSends(d) ==
  /\ sending[d] > 0
  /\ Uncount(sending, d) /\ Count(sent, d)
  /\ \E outcome \in {"AUTHORIZED", "REJECTED"} : Set(sefaz, d, "NONE", outcome)
  /\ UNCHANGED <<saleStatus, document, queue, cancellation, letters, at, signing, sealing,
                 cancelSent, cancelled, crashes>>

\* SEFAZ registers a cancellation it was sent, however late.
OfficeCancels(d) ==
  /\ cancelSent[d] > 0 /\ d \notin cancelled
  /\ cancelled' = cancelled \union {d}
  /\ UNCHANGED <<saleStatus, document, queue, cancellation, letters, at, workers,
                 sent, cancelSent, sefaz, crashes>>

\* The server stops, or stops between the files of prepare and its transaction.
Crash ==
  /\ crashes < MaxCrashes /\ crashes' = crashes + 1
  /\ at' = [c \in Call |-> Idle]
  /\ \/ UNCHANGED interrupted
     \/ \E d \in Doc : status[d] = "REVIEW_REQUIRED" /\ interrupted' = interrupted \union {d}
  /\ UNCHANGED <<saleStatus, status, kind, signed, queue, cancellation, letters,
                 workers, office>>

IssueStep(c, d) ==
  \/ Issue(c, d) \/ Claim(c, d) \/ SentAnswered(c, d)
  \/ Consult(c, d) \/ ConsultAnswered(c, d)
  \/ OfflineIssue(c, d) \/ StartSealing(c, d) \/ OfflineIssued(c, d)
  \/ Flush(c, d) \/ ClaimQueued(c, d)

EventStep(c, d) ==
  \/ Cancel(c, d) \/ SendCancellation(c, d) \/ CancellationConfirmed(c, d)
  \/ \E n \in 1..MaxCorrections :
       Correct(c, d, n) \/ SendCorrection(c, d, n) \/ CorrectionConfirmed(c, d, n)

CallStep(c) == GiveUp(c) \/ \E d \in Doc : IssueStep(c, d) \/ EventStep(c, d)

WorkerStep(d) == WorkerSigns(d) \/ WorkerSeals(d) \/ WorkerSends(d) \/ OfficeCancels(d)

SaleStep(d) ==
  \/ CancelSale(d)
  \/ \E type \in {"nfe", "nfce"} : PrepareSale(d, type)
  \/ \E mode \in {"nfe", "nfce", "nfce-offline"} : Prepare(d, mode)

Next ==
  \/ \E d \in Doc : SaleStep(d) \/ WorkerStep(d)
  \/ \E c \in Call : CallStep(c)
  \/ Crash

Spec == Init /\ [][Next]_vars

-----------------------------------------------------------------------------
Status == {"NONE", "REVIEW_REQUIRED", "READY", "UNKNOWN", "AUTHORIZED", "REJECTED",
           "CANCELLED"}

(* Type invariant.                                                         *)
TypeOK ==
  /\ saleStatus \in [Doc -> {"COMPLETED", "CANCELLED"}]
  /\ status \in [Doc -> Status]
  /\ kind \in [Doc -> {"nfe", "nfce", "nfce-offline"}]
  /\ interrupted \subseteq Doc /\ signed \subseteq Doc
  /\ queue \in [Doc -> {"NONE", "PENDING", "UNKNOWN", "AUTHORIZED", "REJECTED"}]
  /\ cancellation \in [Doc -> {"NONE", "UNKNOWN", "CANCELLED"}]
  /\ corrections \subseteq Letter /\ confirmed \subseteq corrections
  /\ at \in [Call -> Place \union {Idle}]
  /\ signing \in [Doc -> Nat] /\ sealing \subseteq Doc /\ sending \in [Doc -> Nat]
  /\ sent \in [Doc -> {0, 1}] /\ cancelSent \in [Doc -> {0, 1}]
  /\ sefaz \in [Doc -> {"NONE", "AUTHORIZED", "REJECTED"}]
  /\ cancelled \subseteq Doc
  /\ crashes \in Nat

(* What is shown of a document is what SEFAZ decided or that it is not     *)
(* known, and an authorization nobody heard of can still be asked for: the *)
(* document is UNKNOWN and its signed file is there for consult.           *)
OfficialIsKept ==
  \A d \in Doc :
    /\ status[d] \in {"AUTHORIZED", "CANCELLED"} => sefaz[d] = "AUTHORIZED"
    /\ status[d] = "REJECTED" => sefaz[d] = "REJECTED"
    /\ sefaz[d] = "AUTHORIZED" =>
         \/ status[d] \in {"AUTHORIZED", "CANCELLED"}
         \/ status[d] = "UNKNOWN" /\ d \in signed
    /\ status[d] = "CANCELLED" => d \in cancelled
    /\ d \in cancelled => cancellation[d] # "NONE"

(* A document and its cancellation are each sent to SEFAZ once at most,    *)
(* whoever asks again and whenever the server stopped, and yet whatever    *)
(* SEFAZ decided is shown or can be asked for.                             *)
SentOnceAndHeard ==
  /\ \A d \in Doc : sent[d] <= 1 /\ cancelSent[d] <= 1
  /\ OfficialIsKept

(* The offline queue and the documents agree on what became of them,       *)
(* though issue, the queue and consult reach the same answer by different  *)
(* ways: nothing decided is sent again, nothing undecided is forgotten.    *)
OfflineQueueAgrees ==
  \A d \in Doc :
    /\ queue[d] # "NONE" => kind[d] = "nfce-offline" /\ d \in signed
    /\ queue[d] = "PENDING" => status[d] = "READY"
    /\ queue[d] = "UNKNOWN" => status[d] = "UNKNOWN"
    /\ queue[d] = "AUTHORIZED" => status[d] \in {"AUTHORIZED", "CANCELLED"}
    /\ queue[d] = "REJECTED" => status[d] = "REJECTED"
    /\ kind[d] = "nfce-offline" /\ status[d] = "UNKNOWN" => queue[d] = "UNKNOWN"

(* Correction letters replace each other: they are numbered without a gap, *)
(* and only the last of them may be undecided, whatever calls overlapped.  *)
CorrectionsInOrder ==
  \A l \in corrections : \A n \in 1..MaxCorrections :
    n < l[2] => <<l[1], n>> \in confirmed

(* test/fiscal-acbrlib-issuance.test.js:90: "sale voided after drafting    *)
(* can never be sent to SEFAZ".  Documents issued offline are in the hands *)
(* of the customer already and are sent all the same.                      *)
NoSendAfterCancel ==
  [][ \A d \in Doc :
        status[d] = "READY" /\ status'[d] = "UNKNOWN" /\ kind[d] # "nfce-offline"
          => saleStatus[d] = "COMPLETED" ]_vars

=============================================================================
