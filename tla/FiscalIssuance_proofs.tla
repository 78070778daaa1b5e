------------------------ MODULE FiscalIssuance_proofs ------------------------
(***************************************************************************)
(* Proofs about fiscal documents, for any documents, calls and bounds.     *)
(***************************************************************************)
EXTENDS FiscalIssuance, TLAPS

-----------------------------------------------------------------------------
\* A document goes to SEFAZ once, and only after it was taken for UNKNOWN.
SentOnce ==
  \A d \in Doc :
    /\ signing[d] + sending[d] + sent[d] <= 1
    /\ status[d] \in {"NONE", "REVIEW_REQUIRED", "READY"} =>
         /\ signing[d] = 0 /\ sending[d] = 0
         /\ sent[d] = 0
    /\ sending[d] > 0 \/ sent[d] > 0 => d \in signed
    /\ sefaz[d] # "NONE" => sent[d] = 1
    /\ cancellation[d] = "NONE" => cancelSent[d] = 0

\* What a call found out before it began to wait and relies upon after it.
StillTrue ==
  \A c \in Call : \A d \in Doc :
    /\ at[c] = <<d, "issue", 0>> => kind[d] # "nfce-offline"
    /\ at[c] \in {<<d, "offline", 0>>, <<d, "sealing", 0>>} => kind[d] = "nfce-offline"
    /\ at[c] \in {<<d, "issue", 0>>, <<d, "offline", 0>>, <<d, "sealing", 0>>} =>
         status[d] \notin {"NONE", "REVIEW_REQUIRED"}
    /\ \A n \in 1..MaxCorrections :
         /\ at[c] = <<d, "cce", n>> =>
              \A m \in 1..MaxCorrections : m < n => <<d, m>> \in confirmed
         /\ at[c] = <<d, "cceSent", n>> => <<d, n>> \in corrections

IInv ==
  /\ TypeOK /\ OfficialIsKept /\ OfflineQueueAgrees /\ CorrectionsInOrder
  /\ SentOnce /\ StillTrue

-----------------------------------------------------------------------------
\* Where a call waits is a place, and none where it is idle.
LEMMA Places ==
  /\ \A d \in Doc : \A p \in {"issue", "flush", "sent", "consult", "offline", "sealing",
                              "cancel", "cancelSent"} :
       <<d, p, 0>> \in Place /\ <<d, p, 0>> # Idle
  /\ \A d \in Doc : \A p \in {"cce", "cceSent"} : \A n \in 1..MaxCorrections :
       <<d, p, n>> \in Place /\ <<d, p, n>> # Idle
<1>1. \A d \in Doc : \A p \in Point : \A n \in 0..MaxCorrections : <<d, p, n>> \in Place
  BY DEF Place
<1> QED
  BY <1>1, FiscalAssumption DEF Point

\* A part of the invariant holds on while what it speaks of is left alone.
LEMMA Frames ==
  /\ OfficialIsKept /\ UNCHANGED <<status, signed, cancellation, sefaz, cancelled>>
       => OfficialIsKept'
  /\ OfflineQueueAgrees /\ UNCHANGED <<status, kind, signed, queue>> => OfflineQueueAgrees'
  /\ CorrectionsInOrder /\ UNCHANGED letters => CorrectionsInOrder'
  /\ SentOnce /\ UNCHANGED <<status, signed, cancellation, signing, sending, sent, cancelSent, sefaz>>
       => SentOnce'
  /\ StillTrue /\ UNCHANGED <<status, kind, letters, at>> => StillTrue'
BY DEF OfficialIsKept, OfflineQueueAgrees, CorrectionsInOrder, SentOnce, StillTrue, letters

\* A call that goes on to wait for the answer, or returns, relies on nothing new.
LEMMA NothingLearnt ==
  ASSUME IInv, UNCHANGED <<kind, corrections, confirmed>>,
         \A e \in Doc : status[e] \notin {"NONE", "REVIEW_REQUIRED"} =>
                           status'[e] \notin {"NONE", "REVIEW_REQUIRED"},
         \A x \in Call : at'[x] \in {at[x], Idle} \/ \E e \in Doc : at'[x] = <<e, "sent", 0>>
  PROVE  StillTrue'
<1>1. ASSUME NEW x \in Call, NEW e \in Doc, NEW p \in {"issue", "offline", "sealing"},
             at'[x] = <<e, p, 0>>
      PROVE  at[x] = <<e, p, 0>>
  <2>1. <<e, p, 0>> # Idle /\ \A f \in Doc : <<e, p, 0>> # <<f, "sent", 0>>
    BY Places
  <2> QED
    BY <1>1, <2>1
<1>2. ASSUME NEW x \in Call, NEW e \in Doc, NEW p \in {"cce", "cceSent"},
             NEW n \in 1..MaxCorrections, at'[x] = <<e, p, n>>
      PROVE  at[x] = <<e, p, n>>
  <2>1. <<e, p, n>> # Idle /\ \A f \in Doc : <<e, p, n>> # <<f, "sent", 0>>
    BY Places
  <2> QED
    BY <1>2, <2>1
<1> QED
  BY <1>1, <1>2 DEF IInv, StillTrue

LEMMA InitEstablishes == Init => IInv
<1> SUFFICES ASSUME Init PROVE IInv
  OBVIOUS
<1>1. TypeOK
  BY FiscalAssumption DEF Init, TypeOK, Letter, Status
<1>2. OfficialIsKept /\ OfflineQueueAgrees /\ CorrectionsInOrder
  BY DEF Init, OfficialIsKept, OfflineQueueAgrees, CorrectionsInOrder
<1>3. SentOnce
  <2>1. \A d \in Doc : signing[d] = 0 /\ sending[d] = 0 /\ sent[d] = 0
    BY DEF Init
  <2>2. \A d \in Doc : 0 + 0 + 0 <= 1 /\ ~(0 > 0)
    OBVIOUS
  <2> QED
    BY <2>1, <2>2 DEF Init, SentOnce
<1>4. StillTrue
  BY Places DEF Init, StillTrue
<1> QED
  BY <1>1, <1>2, <1>3, <1>4 DEF IInv

LEMMA SaleStepPreserves ==
  ASSUME IInv, NEW d \in Doc, SaleStep(d)
  PROVE  IInv'
<1> USE DEF Set, Advance, Enter, Return, Count, Uncount, document, letters, workers, office
<1>1. CASE CancelSale(d)
  <2>1. TypeOK'
    BY <1>1 DEF CancelSale, IInv, TypeOK, SentOnce, Status
  <2> QED
    BY <1>1, <2>1, Frames DEF CancelSale, IInv
<1>2. ASSUME NEW type \in {"nfe", "nfce"}, PrepareSale(d, type)
      PROVE  IInv'
  <2>1. TypeOK'
    BY <1>2 DEF PrepareSale, IInv, TypeOK, SentOnce, Status
  <2>2. OfficialIsKept'
    BY <1>2, <2>1 DEF PrepareSale, IInv, TypeOK, OfficialIsKept, SentOnce
  <2>3. OfflineQueueAgrees'
    BY <1>2, <2>1 DEF PrepareSale, IInv, TypeOK, OfflineQueueAgrees, StillTrue
  <2>4. SentOnce'
    BY <1>2, <2>1 DEF PrepareSale, IInv, TypeOK, SentOnce, OfflineQueueAgrees,
       OfficialIsKept
  <2>5. StillTrue'
    <3>1. status[d] = "NONE" /\ UNCHANGED <<at, corrections, confirmed>>
      BY <1>2 DEF PrepareSale
    <3>2. \A e \in Doc \ {d} : kind'[e] = kind[e] /\ status'[e] = status[e]
      BY <1>2 DEF PrepareSale, IInv, TypeOK
    <3>3. \A x \in Call : at[x] \notin {<<d, "issue", 0>>, <<d, "offline", 0>>, <<d, "sealing", 0>>}
      BY <3>1 DEF IInv, StillTrue
    <3> QED
      BY <3>1, <3>2, <3>3 DEF IInv, StillTrue
  <2> QED
    BY <1>2, <2>1, <2>2, <2>3, <2>4, <2>5, Frames DEF PrepareSale, IInv
<1>3. ASSUME NEW mode \in {"nfe", "nfce", "nfce-offline"}, Prepare(d, mode)
      PROVE  IInv'
  <2>1. TypeOK'
    BY <1>3 DEF Prepare, IInv, TypeOK, SentOnce, Status
  <2>2. OfficialIsKept'
    BY <1>3, <2>1 DEF Prepare, IInv, TypeOK, OfficialIsKept, SentOnce
  <2>3. OfflineQueueAgrees'
    BY <1>3, <2>1 DEF Prepare, IInv, TypeOK, OfflineQueueAgrees, StillTrue
  <2>4. SentOnce'
    BY <1>3, <2>1 DEF Prepare, IInv, TypeOK, SentOnce, OfflineQueueAgrees,
       OfficialIsKept
  <2>5. StillTrue'
    <3>1. status[d] = "REVIEW_REQUIRED" /\ UNCHANGED <<at, corrections, confirmed>>
      BY <1>3 DEF Prepare
    <3>2. \A e \in Doc \ {d} : kind'[e] = kind[e] /\ status'[e] = status[e]
      BY <1>3 DEF Prepare, IInv, TypeOK
    <3>3. \A x \in Call : at[x] \notin {<<d, "issue", 0>>, <<d, "offline", 0>>, <<d, "sealing", 0>>}
      BY <3>1 DEF IInv, StillTrue
    <3> QED
      BY <3>1, <3>2, <3>3 DEF IInv, StillTrue
  <2> QED
    BY <1>3, <2>1, <2>2, <2>3, <2>4, <2>5, Frames DEF Prepare, IInv
<1> QED
  BY <1>1, <1>2, <1>3 DEF SaleStep

LEMMA WorkerStepPreserves ==
  ASSUME IInv, NEW d \in Doc, WorkerStep(d)
  PROVE  IInv'
<1> USE DEF Set, Advance, Enter, Return, Count, Uncount, document, letters, workers, office
<1>1. CASE WorkerSigns(d)
  <2>1. TypeOK'
    BY <1>1 DEF WorkerSigns, IInv, TypeOK, SentOnce, Status
  <2>2. OfficialIsKept'
    BY <1>1, <2>1 DEF WorkerSigns, IInv, TypeOK, OfficialIsKept, SentOnce
  <2>3. OfflineQueueAgrees'
    BY <1>1, <2>1 DEF WorkerSigns, IInv, TypeOK, OfflineQueueAgrees, StillTrue
  <2>4. SentOnce'
    BY <1>1, <2>1 DEF WorkerSigns, IInv, TypeOK, SentOnce, OfflineQueueAgrees,
       OfficialIsKept
  <2> QED
    BY <1>1, <2>1, <2>2, <2>3, <2>4, Frames DEF WorkerSigns, IInv
<1>2. CASE WorkerSeals(d)
  <2>1. TypeOK'
    BY <1>2 DEF WorkerSeals, IInv, TypeOK, SentOnce, Status
  <2>2. OfficialIsKept'
    BY <1>2, <2>1 DEF WorkerSeals, IInv, TypeOK, OfficialIsKept, SentOnce
  <2>3. OfflineQueueAgrees'
    BY <1>2, <2>1 DEF WorkerSeals, IInv, TypeOK, OfflineQueueAgrees, StillTrue
  <2>4. SentOnce'
    BY <1>2, <2>1 DEF WorkerSeals, IInv, TypeOK, SentOnce, OfflineQueueAgrees,
       OfficialIsKept
  <2> QED
    BY <1>2, <2>1, <2>2, <2>3, <2>4, Frames DEF WorkerSeals, IInv
<1>3. CASE WorkerSends(d)
  <2>1. TypeOK'
    BY <1>3 DEF WorkerSends, IInv, TypeOK, SentOnce, Status
  <2>2. OfficialIsKept'
    <3>1. d \in signed /\ sefaz[d] = "NONE"
             /\ status[d] \notin {"NONE", "REVIEW_REQUIRED", "READY"}
      BY <1>3 DEF WorkerSends, IInv, TypeOK, SentOnce
    <3>2. status[d] = "UNKNOWN"
      BY <3>1 DEF IInv, TypeOK, OfficialIsKept, Status
    <3> QED
      BY <1>3, <3>1, <3>2 DEF WorkerSends, IInv, TypeOK, OfficialIsKept
  <2>3. SentOnce'
    BY <1>3, <2>1 DEF WorkerSends, IInv, TypeOK, SentOnce, OfflineQueueAgrees,
       OfficialIsKept
  <2> QED
    BY <1>3, <2>1, <2>2, <2>3, Frames DEF WorkerSends, IInv
<1>4. CASE OfficeCancels(d)
  <2>1. TypeOK'
    BY <1>4 DEF OfficeCancels, IInv, TypeOK, SentOnce, Status
  <2>2. OfficialIsKept'
    BY <1>4, <2>1 DEF OfficeCancels, IInv, TypeOK, OfficialIsKept, SentOnce
  <2> QED
    BY <1>4, <2>1, <2>2, Frames DEF OfficeCancels, IInv
<1> QED
  BY <1>1, <1>2, <1>3, <1>4 DEF WorkerStep

LEMMA IssueStepPreserves ==
  ASSUME IInv, NEW c \in Call, NEW d \in Doc, IssueStep(c, d)
  PROVE  IInv'
<1> USE DEF Set, Advance, Enter, Return, Count, Uncount, document, letters, workers, office
<1>1. CASE Issue(c, d)
  <2>1. at' \in [Call -> Place \union {Idle}]
    BY <1>1, Places DEF Issue, IInv, TypeOK
  <2>2. TypeOK'
    BY <1>1, <2>1 DEF Issue, IInv, TypeOK, SentOnce, Status
  <2>3. StillTrue'
    BY <1>1, Places DEF Issue, IInv, TypeOK, StillTrue
  <2> QED
    BY <1>1, <2>2, <2>3, Frames DEF Issue, IInv
<1>2. CASE Claim(c, d)
  <2>1. at' \in [Call -> Place \union {Idle}]
    BY <1>2, Places DEF Claim, IInv, TypeOK
  <2>2. TypeOK'
    BY <1>2, <2>1 DEF Claim, IInv, TypeOK, SentOnce, Status
  <2>3. OfficialIsKept'
    BY <1>2, <2>2 DEF Claim, IInv, TypeOK, OfficialIsKept, SentOnce
  <2>4. OfflineQueueAgrees'
    BY <1>2, <2>2 DEF Claim, IInv, TypeOK, OfflineQueueAgrees, StillTrue
  <2>5. SentOnce'
    BY <1>2, <2>2 DEF Claim, IInv, TypeOK, SentOnce, OfflineQueueAgrees, OfficialIsKept
  <2>6. StillTrue'
    <3>1. \A e \in Doc : status[e] \notin {"NONE", "REVIEW_REQUIRED"} =>
                          status'[e] \notin {"NONE", "REVIEW_REQUIRED"}
      BY <1>2 DEF Claim, IInv, TypeOK
    <3>2. \A x \in Call : at'[x] \in {at[x], Idle, <<d, "sent", 0>>}
      BY <1>2 DEF Claim, IInv, TypeOK
    <3>3. UNCHANGED <<kind, corrections, confirmed>>
      BY <1>2 DEF Claim
    <3> QED
      BY <3>1, <3>2, <3>3, NothingLearnt
  <2> QED
    BY <1>2, <2>2, <2>3, <2>4, <2>5, <2>6, Frames DEF Claim, IInv
<1>3. CASE SentAnswered(c, d)
  <2>1. at' \in [Call -> Place \union {Idle}]
    BY <1>3, Places DEF SentAnswered, IInv, TypeOK
  <2>2. TypeOK'
    <3>1. status' \in [Doc -> Status]
      BY <1>3 DEF SentAnswered, Authorized, Rejected, IInv, TypeOK, Status
    <3>2. queue' \in [Doc -> {"NONE", "PENDING", "UNKNOWN", "AUTHORIZED", "REJECTED"}]
      BY <1>3 DEF SentAnswered, Authorized, Rejected, IInv, TypeOK
    <3> QED
      BY <1>3, <2>1, <3>1, <3>2 DEF SentAnswered, IInv, TypeOK
  <2>3. OfficialIsKept'
    BY <1>3, <2>2 DEF SentAnswered, Authorized, Rejected, IInv, TypeOK, OfficialIsKept,
       SentOnce
  <2>4. OfflineQueueAgrees'
    BY <1>3, <2>2 DEF SentAnswered, Authorized, Rejected, IInv, TypeOK,
       OfflineQueueAgrees, StillTrue
  <2>5. SentOnce'
    BY <1>3, <2>2 DEF SentAnswered, Authorized, Rejected, IInv, TypeOK, SentOnce,
       OfflineQueueAgrees, OfficialIsKept
  <2>6. StillTrue'
    <3>1. \A e \in Doc : status[e] \notin {"NONE", "REVIEW_REQUIRED"} =>
                          status'[e] \notin {"NONE", "REVIEW_REQUIRED"}
      BY <1>3 DEF SentAnswered, Authorized, Rejected, IInv, TypeOK
    <3>2. \A x \in Call : at'[x] \in {at[x], Idle, <<d, "sent", 0>>}
      BY <1>3 DEF SentAnswered, IInv, TypeOK
    <3>3. UNCHANGED <<kind, corrections, confirmed>>
      BY <1>3 DEF SentAnswered
    <3> QED
      BY <3>1, <3>2, <3>3, NothingLearnt
  <2> QED
    BY <1>3, <2>2, <2>3, <2>4, <2>5, <2>6, Frames DEF SentAnswered, IInv
<1>4. CASE Consult(c, d)
  <2>1. at' \in [Call -> Place \union {Idle}]
    BY <1>4, Places DEF Consult, IInv, TypeOK
  <2>2. TypeOK'
    BY <1>4, <2>1 DEF Consult, IInv, TypeOK, SentOnce, Status
  <2>3. StillTrue'
    BY <1>4, Places DEF Consult, IInv, TypeOK, StillTrue
  <2> QED
    BY <1>4, <2>2, <2>3, Frames DEF Consult, IInv
<1>5. CASE ConsultAnswered(c, d)
  <2>1. at' \in [Call -> Place \union {Idle}]
    BY <1>5, Places DEF ConsultAnswered, IInv, TypeOK
  <2>2. TypeOK'
    BY <1>5, <2>1 DEF ConsultAnswered, Authorized, IInv, TypeOK, SentOnce, Status
  <2>3. OfficialIsKept'
    BY <1>5, <2>2 DEF ConsultAnswered, Authorized, IInv, TypeOK, OfficialIsKept,
       SentOnce
  <2>4. OfflineQueueAgrees'
    BY <1>5, <2>2 DEF ConsultAnswered, Authorized, IInv, TypeOK, OfflineQueueAgrees,
       StillTrue
  <2>5. SentOnce'
    BY <1>5, <2>2 DEF ConsultAnswered, Authorized, IInv, TypeOK, SentOnce,
       OfflineQueueAgrees, OfficialIsKept
  <2>6. StillTrue'
    <3>1. \A e \in Doc : status[e] \notin {"NONE", "REVIEW_REQUIRED"} =>
                          status'[e] \notin {"NONE", "REVIEW_REQUIRED"}
      BY <1>5 DEF ConsultAnswered, Authorized, IInv, TypeOK
    <3>2. \A x \in Call : at'[x] \in {at[x], Idle, <<d, "sent", 0>>}
      BY <1>5 DEF ConsultAnswered, IInv, TypeOK
    <3>3. UNCHANGED <<kind, corrections, confirmed>>
      BY <1>5 DEF ConsultAnswered
    <3> QED
      BY <3>1, <3>2, <3>3, NothingLearnt
  <2> QED
    BY <1>5, <2>2, <2>3, <2>4, <2>5, <2>6, Frames DEF ConsultAnswered, IInv
<1>6. CASE OfflineIssue(c, d)
  <2>1. at' \in [Call -> Place \union {Idle}]
    BY <1>6, Places DEF OfflineIssue, IInv, TypeOK
  <2>2. TypeOK'
    BY <1>6, <2>1 DEF OfflineIssue, IInv, TypeOK, SentOnce, Status
  <2>3. StillTrue'
    BY <1>6, Places DEF OfflineIssue, IInv, TypeOK, StillTrue
  <2> QED
    BY <1>6, <2>2, <2>3, Frames DEF OfflineIssue, IInv
<1>7. CASE StartSealing(c, d)
  <2>1. at' \in [Call -> Place \union {Idle}]
    BY <1>7, Places DEF StartSealing, IInv, TypeOK
  <2>2. TypeOK'
    BY <1>7, <2>1 DEF StartSealing, IInv, TypeOK, SentOnce, Status
  <2>3. StillTrue'
    BY <1>7, Places DEF StartSealing, IInv, TypeOK, StillTrue
  <2> QED
    BY <1>7, <2>2, <2>3, Frames DEF StartSealing, IInv
<1>8. CASE OfflineIssued(c, d)
  <2>1. at' \in [Call -> Place \union {Idle}]
    BY <1>8, Places DEF OfflineIssued, IInv, TypeOK
  <2>2. TypeOK'
    BY <1>8, <2>1 DEF OfflineIssued, IInv, TypeOK, SentOnce, Status
  <2>3. OfflineQueueAgrees'
    <3>1. kind[d] = "nfce-offline"
      BY <1>8 DEF OfflineIssued, IInv, StillTrue
    <3> QED
      BY <1>8, <3>1 DEF OfflineIssued, IInv, TypeOK, OfflineQueueAgrees
  <2>4. StillTrue'
    <3>1. \A x \in Call : at'[x] \in {at[x], Idle}
      BY <1>8 DEF OfflineIssued, IInv, TypeOK
    <3>2. UNCHANGED <<status, kind, corrections, confirmed>>
      BY <1>8 DEF OfflineIssued
    <3> QED
      BY <3>1, <3>2, NothingLearnt
  <2> QED
    BY <1>8, <2>2, <2>3, <2>4, Frames DEF OfflineIssued, IInv
<1>9. CASE Flush(c, d)
  <2>1. at' \in [Call -> Place \union {Idle}]
    BY <1>9, Places DEF Flush, IInv, TypeOK
  <2>2. TypeOK'
    BY <1>9, <2>1 DEF Flush, IInv, TypeOK, SentOnce, Status
  <2>3. StillTrue'
    BY <1>9, Places DEF Flush, IInv, TypeOK, StillTrue
  <2> QED
    BY <1>9, <2>2, <2>3, Frames DEF Flush, IInv
<1>10. CASE ClaimQueued(c, d)
  <2>1. at' \in [Call -> Place \union {Idle}]
    BY <1>10, Places DEF ClaimQueued, IInv, TypeOK
  <2>2. TypeOK'
    BY <1>10, <2>1 DEF ClaimQueued, IInv, TypeOK, SentOnce, Status
  <2>3. OfficialIsKept'
    BY <1>10, <2>2 DEF ClaimQueued, IInv, TypeOK, OfficialIsKept, SentOnce
  <2>4. OfflineQueueAgrees'
    BY <1>10, <2>2 DEF ClaimQueued, IInv, TypeOK, OfflineQueueAgrees, StillTrue
  <2>5. SentOnce'
    BY <1>10, <2>2 DEF ClaimQueued, IInv, TypeOK, SentOnce, OfflineQueueAgrees,
       OfficialIsKept
  <2>6. StillTrue'
    <3>1. \A e \in Doc : status[e] \notin {"NONE", "REVIEW_REQUIRED"} =>
                          status'[e] \notin {"NONE", "REVIEW_REQUIRED"}
      BY <1>10 DEF ClaimQueued, IInv, TypeOK
    <3>2. \A x \in Call : at'[x] \in {at[x], Idle, <<d, "sent", 0>>}
      BY <1>10 DEF ClaimQueued, IInv, TypeOK
    <3>3. UNCHANGED <<kind, corrections, confirmed>>
      BY <1>10 DEF ClaimQueued
    <3> QED
      BY <3>1, <3>2, <3>3, NothingLearnt
  <2> QED
    BY <1>10, <2>2, <2>3, <2>4, <2>5, <2>6, Frames DEF ClaimQueued, IInv
<1> QED
  BY <1>1, <1>2, <1>3, <1>4, <1>5, <1>6, <1>7, <1>8, <1>9, <1>10 DEF IssueStep

LEMMA EventStepPreserves ==
  ASSUME IInv, NEW c \in Call, NEW d \in Doc, EventStep(c, d)
  PROVE  IInv'
<1> USE DEF Set, Advance, Enter, Return, Count, Uncount, document, letters, workers, office
<1>1. CASE Cancel(c, d)
  <2>1. at' \in [Call -> Place \union {Idle}]
    BY <1>1, Places DEF Cancel, IInv, TypeOK
  <2>2. TypeOK'
    BY <1>1, <2>1 DEF Cancel, IInv, TypeOK, SentOnce, Status
  <2>3. StillTrue'
    BY <1>1, Places DEF Cancel, IInv, TypeOK, StillTrue
  <2> QED
    BY <1>1, <2>2, <2>3, Frames DEF Cancel, IInv
<1>2. CASE SendCancellation(c, d)
  <2>1. at' \in [Call -> Place \union {Idle}]
    BY <1>2, Places DEF SendCancellation, IInv, TypeOK
  <2>2. TypeOK'
    BY <1>2, <2>1 DEF SendCancellation, IInv, TypeOK, SentOnce, Status
  <2>3. OfficialIsKept'
    BY <1>2, <2>2 DEF SendCancellation, IInv, TypeOK, OfficialIsKept, SentOnce
  <2>4. SentOnce'
    BY <1>2, <2>2 DEF SendCancellation, IInv, TypeOK, SentOnce, OfflineQueueAgrees,
       OfficialIsKept
  <2>5. StillTrue'
    BY <1>2, Places DEF SendCancellation, IInv, TypeOK, StillTrue
  <2> QED
    BY <1>2, <2>2, <2>3, <2>4, <2>5, Frames DEF SendCancellation, IInv
<1>3. CASE CancellationConfirmed(c, d)
  <2>1. at' \in [Call -> Place \union {Idle}]
    BY <1>3, Places DEF CancellationConfirmed, IInv, TypeOK
  <2>2. TypeOK'
    BY <1>3, <2>1 DEF CancellationConfirmed, IInv, TypeOK, SentOnce, Status
  <2>3. OfficialIsKept'
    BY <1>3, <2>2 DEF CancellationConfirmed, IInv, TypeOK, OfficialIsKept, SentOnce
  <2>4. OfflineQueueAgrees'
    BY <1>3, <2>2 DEF CancellationConfirmed, IInv, TypeOK, OfflineQueueAgrees, StillTrue
  <2>5. SentOnce'
    BY <1>3, <2>2 DEF CancellationConfirmed, IInv, TypeOK, SentOnce, OfflineQueueAgrees,
       OfficialIsKept
  <2>6. StillTrue'
    <3>1. \A e \in Doc : status[e] \notin {"NONE", "REVIEW_REQUIRED"} =>
                          status'[e] \notin {"NONE", "REVIEW_REQUIRED"}
      BY <1>3 DEF CancellationConfirmed, IInv, TypeOK
    <3>2. \A x \in Call : at'[x] \in {at[x], Idle, <<d, "sent", 0>>}
      BY <1>3 DEF CancellationConfirmed, IInv, TypeOK
    <3>3. UNCHANGED <<kind, corrections, confirmed>>
      BY <1>3 DEF CancellationConfirmed
    <3> QED
      BY <3>1, <3>2, <3>3, NothingLearnt
  <2> QED
    BY <1>3, <2>2, <2>3, <2>4, <2>5, <2>6, Frames DEF CancellationConfirmed, IInv
<1>4. ASSUME NEW n \in 1..MaxCorrections, Correct(c, d, n)
      PROVE  IInv'
  <2>1. at' \in [Call -> Place \union {Idle}]
    BY <1>4, Places DEF Correct, IInv, TypeOK
  <2>2. TypeOK'
    BY <1>4, <2>1 DEF Correct, FollowsLetters, IInv, TypeOK, SentOnce, Status
  <2>3. StillTrue'
    <3>1. \A m \in 1..MaxCorrections : m < n => <<d, m>> \in confirmed
      <4>1. CASE n = 1
        BY <4>1
      <4>2. CASE n > 1
        <5>1. <<d, n - 1>> \in confirmed /\ <<d, n - 1>> \in corrections
          BY <1>4, <4>2 DEF Correct, FollowsLetters, IInv, TypeOK
        <5>2. \A m \in 1..MaxCorrections : m < n - 1 => <<d, m>> \in confirmed
          BY <5>1 DEF IInv, CorrectionsInOrder
        <5> QED
          BY <5>1, <5>2
      <4> QED
        BY <4>1, <4>2
    <3> QED
      BY <1>4, <3>1, Places DEF Correct, IInv, TypeOK, StillTrue
  <2> QED
    BY <1>4, <2>2, <2>3, Frames DEF Correct, IInv
<1>5. ASSUME NEW n \in 1..MaxCorrections, SendCorrection(c, d, n)
      PROVE  IInv'
  <2>1. at' \in [Call -> Place \union {Idle}]
    BY <1>5, Places DEF SendCorrection, IInv, TypeOK
  <2>2. TypeOK'
    BY <1>5, <2>1 DEF SendCorrection, IInv, TypeOK, SentOnce, Status, Letter
  <2>3. CorrectionsInOrder'
    <3>1. \A m \in 1..MaxCorrections : m < n => <<d, m>> \in confirmed
      BY <1>5 DEF SendCorrection, IInv, StillTrue
    <3>2. corrections' = corrections \union {<<d, n>>} /\ confirmed' = confirmed
      BY <1>5 DEF SendCorrection
    <3> QED
      BY <3>1, <3>2 DEF IInv, CorrectionsInOrder
  <2>4. StillTrue'
    BY <1>5, Places DEF SendCorrection, IInv, TypeOK, StillTrue
  <2> QED
    BY <1>5, <2>2, <2>3, <2>4, Frames DEF SendCorrection, IInv
<1>6. ASSUME NEW n \in 1..MaxCorrections, CorrectionConfirmed(c, d, n)
      PROVE  IInv'
  <2>1. at' \in [Call -> Place \union {Idle}]
    BY <1>6, Places DEF CorrectionConfirmed, IInv, TypeOK
  <2>2. TypeOK'
    BY <1>6, <2>1 DEF CorrectionConfirmed, IInv, TypeOK, StillTrue, Letter
  <2>3. CorrectionsInOrder'
    BY <1>6, <2>2, Places DEF CorrectionConfirmed, IInv, TypeOK, StillTrue,
       CorrectionsInOrder
  <2>4. StillTrue'
    BY <1>6, Places DEF CorrectionConfirmed, IInv, TypeOK, StillTrue
  <2> QED
    BY <1>6, <2>2, <2>3, <2>4, Frames DEF CorrectionConfirmed, IInv
<1> QED
  BY <1>1, <1>2, <1>3, <1>4, <1>5, <1>6 DEF EventStep

LEMMA CallsEndPreserves ==
  ASSUME IInv, (\E c \in Call : GiveUp(c)) \/ Crash
  PROVE  IInv'
<1> USE DEF Set, Advance, Enter, Return, Count, Uncount, document, letters, workers, office
<1>1. ASSUME NEW c \in Call, GiveUp(c)
      PROVE  IInv'
  <2>1. at' \in [Call -> Place \union {Idle}]
    BY <1>1, Places DEF GiveUp, IInv, TypeOK
  <2>2. TypeOK'
    BY <1>1, <2>1 DEF GiveUp, IInv, TypeOK, SentOnce, Status
  <2>3. StillTrue'
    BY <1>1, Places DEF GiveUp, IInv, TypeOK, StillTrue
  <2> QED
    BY <1>1, <2>2, <2>3, Frames DEF GiveUp, IInv
<1>2. CASE Crash
  <2>1. at' \in [Call -> Place \union {Idle}]
    BY <1>2, Places DEF Crash, IInv, TypeOK
  <2>2. TypeOK'
    BY <1>2, <2>1 DEF Crash, IInv, TypeOK, SentOnce, Status
  <2>3. StillTrue'
    BY <1>2, Places DEF Crash, IInv, TypeOK, StillTrue
  <2> QED
    BY <1>2, <2>2, <2>3, Frames DEF Crash, IInv
<1> QED
  BY <1>1, <1>2

LEMMA Inductive == IInv /\ [Next]_vars => IInv'
<1> SUFFICES ASSUME IInv, [Next]_vars
             PROVE  IInv'
  OBVIOUS
<1>1. CASE \E d \in Doc : SaleStep(d) \/ WorkerStep(d)
  BY <1>1, SaleStepPreserves, WorkerStepPreserves
<1>2. CASE \E c \in Call : CallStep(c)
  BY <1>2, IssueStepPreserves, EventStepPreserves, CallsEndPreserves DEF CallStep
<1>3. CASE Crash
  BY <1>3, CallsEndPreserves
<1>4. CASE UNCHANGED vars
  <2>1. TypeOK'
    BY <1>4 DEF vars, document, letters, workers, office, IInv, TypeOK, Status, Letter
  <2> QED
    BY <1>4, <2>1, Frames DEF vars, document, workers, office, IInv
<1> QED
  BY <1>1, <1>2, <1>3, <1>4 DEF Next

LEMMA Invariance == Spec => []IInv
BY InitEstablishes, Inductive, PTL DEF Spec

-----------------------------------------------------------------------------
(* All tables keep their types, for any documents, requests, restarts,     *)
(* late answers and workers that outlive the server that started them.     *)
THEOREM TypeCorrect == Spec => []TypeOK
BY Invariance, PTL DEF IInv

(* A document and its cancellation are sent to SEFAZ at most once each.    *)
(* It is shown as authorized, refused or cancelled only if SEFAZ decided   *)
(* so, and an authorization nobody heard of can be asked for: the document *)
(* stays UNKNOWN with its signed file at hand.                             *)
THEOREM OfficialDecisionsAreKept == Spec => []SentOnceAndHeard
<1>1. IInv => SentOnceAndHeard
  BY DEF IInv, TypeOK, SentOnceAndHeard
<1> QED
  BY <1>1, Invariance, PTL

(* Issue, the offline queue and consult leave the queue and the documents  *)
(* in agreement on what was sent and what became of it.                    *)
THEOREM QueueAgreesWithDocuments == Spec => []OfflineQueueAgrees
BY Invariance, PTL DEF IInv

(* Correction letters are numbered without a gap and only the last one may *)
(* be undecided, whatever calls overlapped.                                *)
THEOREM CorrectionsAreInOrder == Spec => []CorrectionsInOrder
BY Invariance, PTL DEF IInv

=============================================================================
