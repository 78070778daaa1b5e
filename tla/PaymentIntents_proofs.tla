------------------------ MODULE PaymentIntents_proofs ------------------------
(***************************************************************************)
(* Proofs about payment attempts, for any attempts, sales and bounds.      *)
(***************************************************************************)
EXTENDS PaymentIntents, SumTheorems, TLAPS

-----------------------------------------------------------------------------
\* What the status of an attempt says of the calls made for it.
Consistent(i) ==
  /\ saleOf[i] = NoSale <=> status[i] = "NONE"
  /\ started[i] => /\ Integrated(i)
                   /\ status[i] \notin {"NONE", "MANUAL_CONFIRMED", "CANCELLED"}
  /\ requests[i] = IF started[i] THEN 1 ELSE 0
  /\ starting[i] > 0 \/ checking[i] > 0 => started[i]
  /\ charge[i] # "NONE" => started[i]
  /\ status[i] = "FAILED" => charge[i] = "DECLINED"
  /\ status[i] \in {"MANUAL_CONFIRMED", "CANCELLED"} => ~Integrated(i)

\* An attempt of a cancelled sale was refused or given up.
OfCancelled(i) ==
  saleOf[i] \in Sale /\ saleStatus[saleOf[i]] = "CANCELLED" =>
    charge[i] = "DECLINED" \/ status[i] = "CANCELLED"

IInv ==
  /\ TypeOK
  /\ VerifiedIsPaid
  /\ \A i \in Intent : Consistent(i) /\ OfCancelled(i)

-----------------------------------------------------------------------------
LEMMA InitEstablishes == Init => IInv
BY PaymentAssumption
   DEF Init, IInv, TypeOK, VerifiedIsPaid, Consistent, OfCancelled, Integrated, Status, Channel

LEMMA IntentStepPreserves ==
  ASSUME IInv, NEW i \in Intent, IntentStep(i)
  PROVE  IInv'
<1> USE PaymentAssumption
        DEF IInv, TypeOK, VerifiedIsPaid, Consistent, OfCancelled, Integrated, Status, Channel,
            request, sales, calls
<1>1. ASSUME NEW s \in Sale, NEW ch \in Channel, NEW cents \in 1..MaxTotal,
             Create(i, s, ch, cents)
      PROVE  IInv'
  BY <1>1 DEF Create
<1>2. CASE Start(i)
  BY <1>2 DEF Start, MayStart
<1>3. CASE StartAnswered(i)
  <2> started[i]
    BY <1>3 DEF StartAnswered
  <2> QED
    BY <1>3 DEF StartAnswered, AfterStart, Move
<1>4. CASE Reconcile(i)
  BY <1>4 DEF Reconcile
<1>5. CASE ReconcileAnswered(i)
  BY <1>5 DEF ReconcileAnswered, Move
<1>6. CASE ConfirmManual(i)
  BY <1>6 DEF ConfirmManual
<1>7. CASE Cancel(i)
  BY <1>7 DEF Cancel
<1>8. ASSUME NEW outcome \in {"APPROVED", "DECLINED"}, Settle(i, outcome)
      PROVE  IInv'
  BY <1>8 DEF Settle
<1> QED
  BY <1>1, <1>2, <1>3, <1>4, <1>5, <1>6, <1>7, <1>8 DEF IntentStep

LEMMA SaleStepPreserves ==
  ASSUME IInv, NEW s \in Sale, SaleStep(s)
  PROVE  IInv'
<1> USE PaymentAssumption
        DEF IInv, TypeOK, VerifiedIsPaid, Consistent, OfCancelled, Integrated, Status, Channel,
            request, sales, calls
<1>1. ASSUME NEW cents \in 0..MaxTotal, ChangeTotal(s, cents)
      PROVE  IInv'
  BY <1>1 DEF ChangeTotal
<1>2. ASSUME NEW used \in SUBSET Intent, CompleteSale(s, used)
      PROVE  IInv'
  BY <1>2 DEF CompleteSale, ValidateCheckout, Confirmed, Live
<1>3. CASE CancelSale(s)
  BY <1>3 DEF CancelSale, Live
<1>4. CASE CreateReturn(s)
  BY <1>4 DEF CreateReturn
<1> QED
  BY <1>1, <1>2, <1>3, <1>4 DEF SaleStep

LEMMA Inductive == IInv /\ [Next]_vars => IInv'
<1> SUFFICES ASSUME IInv, [Next]_vars
             PROVE  IInv'
  OBVIOUS
<1>1. CASE \E i \in Intent : IntentStep(i)
  BY <1>1, IntentStepPreserves
<1>2. CASE \E s \in Sale : SaleStep(s)
  BY <1>2, SaleStepPreserves
<1>3. CASE Crash
  BY <1>3 DEF Crash, IInv, TypeOK, VerifiedIsPaid, Consistent, OfCancelled, Integrated,
              Status, Channel, request, sales
<1>4. CASE UNCHANGED vars
  BY <1>4 DEF vars, IInv, TypeOK, VerifiedIsPaid, Consistent, OfCancelled, Integrated,
              Status, Channel, request, sales, calls
<1> QED
  BY <1>1, <1>2, <1>3, <1>4 DEF Next

LEMMA Invariance == Spec => []IInv
BY InitEstablishes, Inductive, PTL DEF Spec

-----------------------------------------------------------------------------
(* The columns of payment_intents keep their types, for any number of      *)
(* calls, answers, timeouts and restarts.                                  *)
THEOREM TypeCorrect == Spec => []TypeOK
BY Invariance, PTL DEF IInv

(* What the checkout takes for paid through a provider is paid: no order   *)
(* of the answers to start and reconcile leads to VERIFIED otherwise.      *)
THEOREM VerifiedChargesArePaid == Spec => []VerifiedIsPaid
BY Invariance, PTL DEF IInv

(* The provider is asked for the charge of an attempt at most once.        *)
(* A charge that the provider approved, whenever it did, belongs to an     *)
(* attempt that is not closed as failed and to a sale not cancelled: the   *)
(* status says that the charge was refused before either can happen.       *)
THEOREM ApprovedChargesAreKept == Spec => []ChargedOnceAndKept
<1>1. IInv => ChargedOnceAndKept
  BY PaymentAssumption
     DEF IInv, TypeOK, ChargedOnceAndKept, Consistent, OfCancelled, Integrated
<1> QED
  BY <1>1, Invariance, PTL

-----------------------------------------------------------------------------
(* What a completed sale has taken.                                        *)

ApprovedOf(s) == {i \in Intent : saleOf[i] = s /\ charge[i] = "APPROVED"}

\* No charge of a completed sale is open, and those approved are within its total.
Settled(s) ==
  saleStatus[s] = "COMPLETED" =>
    /\ \A i \in Intent : saleOf[i] = s /\ charge[i] = "NONE" => ~Integrated(i)
    /\ AmountOf(ApprovedOf(s)) <= total[s]

TakenInv == IInv /\ \A s \in Sale : Settled(s)

\* Attempts of other sales, and whatever leaves the charges alone, change nothing.
LEMMA SettledStays ==
  ASSUME TakenInv, NEW s \in Sale, saleStatus[s] = "COMPLETED", total'[s] = total[s],
         \A i \in Intent : saleOf'[i] = s <=> saleOf[i] = s,
         \A i \in Intent : saleOf[i] = s =>
           channel'[i] = channel[i] /\ amount'[i] = amount[i] /\ charge'[i] = charge[i]
  PROVE  Settled(s)'
<1>1. ApprovedOf(s)' = ApprovedOf(s)
  BY DEF ApprovedOf
<1>2. IsFiniteSet(ApprovedOf(s)) /\ \A i \in ApprovedOf(s) : amount[i] = amount'[i]
  BY PaymentAssumption, FS_Subset DEF ApprovedOf
<1>3. AmountOf(ApprovedOf(s)) = AmountOf(ApprovedOf(s))'
  BY <1>1, <1>2, SumEqual DEF AmountOf
<1>4. QED
  BY <1>3 DEF TakenInv, Settled, Integrated

LEMMA IntentStepKeepsSettled ==
  ASSUME TakenInv, NEW i \in Intent, IntentStep(i), NEW s \in Sale
  PROVE  Settled(s)'
<1> SUFFICES ASSUME saleStatus[s] = "COMPLETED"
             PROVE  Settled(s)'
  BY DEF IntentStep, Create, Start, StartAnswered, Reconcile, ReconcileAnswered, ConfirmManual,
         Cancel, Settle, sales, Settled
<1>1. ASSUME NEW t \in Sale, NEW ch \in Channel, NEW cents \in 1..MaxTotal, Create(i, t, ch, cents)
      PROVE  Settled(s)'
  <2>1. t # s /\ total' = total /\ charge' = charge
    BY <1>1 DEF Create, sales
  <2>2. saleOf[i] # s
    BY <1>1, PaymentAssumption
    DEF Create, TakenInv, IInv, TypeOK, VerifiedIsPaid, Consistent, Settled, Integrated
  <2>3. /\ \A j \in Intent : saleOf'[j] = s <=> saleOf[j] = s
        /\ \A j \in Intent : saleOf[j] = s => channel'[j] = channel[j] /\ amount'[j] = amount[j]
    BY <1>1, <2>1, <2>2 DEF Create, TakenInv, IInv, TypeOK
  <2>4. QED
    BY <2>1, <2>3, SettledStays
<1>2. ASSUME NEW outcome \in {"APPROVED", "DECLINED"}, Settle(i, outcome)
      PROVE  Settled(s)'
  <2>1. UNCHANGED <<saleOf, channel, amount, total>>
    BY <1>2 DEF Settle, request, sales
  <2>2. saleOf[i] # s
    BY <1>2 DEF Settle, TakenInv, IInv, TypeOK, Consistent, Settled
  <2>3. \A j \in Intent : saleOf[j] = s => charge'[j] = charge[j]
    BY <1>2, <2>2 DEF Settle, TakenInv, IInv, TypeOK
  <2>4. QED
    BY <2>1, <2>3, SettledStays
<1>3. CASE Start(i) \/ StartAnswered(i) \/ Reconcile(i) \/ ReconcileAnswered(i)
           \/ ConfirmManual(i) \/ Cancel(i)
  <2>1. UNCHANGED <<saleOf, channel, amount, total, charge>>
    BY <1>3 DEF Start, StartAnswered, Reconcile, ReconcileAnswered, ConfirmManual, Cancel,
                request, sales
  <2>2. QED
    BY <2>1, SettledStays
<1>4. QED
  BY <1>1, <1>2, <1>3 DEF IntentStep

\* The checkout has an answer to every charge, and counts those that are approved.
LEMMA CheckoutSettles ==
  ASSUME TakenInv, NEW s \in Sale, NEW used \in SUBSET Intent, CompleteSale(s, used)
  PROVE  Settled(s)'
<1>1. /\ UNCHANGED <<saleOf, channel, amount, total, charge>>
      /\ used = Live(s) /\ AmountOf(used) <= total[s]
      /\ \A i \in used : Confirmed(i)
  BY DEF CompleteSale, request, ValidateCheckout
<1>2. ASSUME NEW i \in Intent, saleOf[i] = s, charge[i] = "NONE"
      PROVE  ~Integrated(i)
  BY <1>1, <1>2, PaymentAssumption
  DEF Live, Confirmed, TakenInv, IInv, TypeOK, Consistent, VerifiedIsPaid
<1>3. ApprovedOf(s) \subseteq used
  BY <1>1, PaymentAssumption
  DEF ApprovedOf, Live, TakenInv, IInv, TypeOK, Consistent, Integrated
<1>4. IsFiniteSet(used) /\ \A i \in used : amount[i] \in Nat
  BY PaymentAssumption, FS_Subset DEF TakenInv, IInv, TypeOK
<1>5. AmountOf(ApprovedOf(s)) <= AmountOf(used)
      /\ AmountOf(ApprovedOf(s)) \in Nat /\ AmountOf(used) \in Nat
  BY <1>3, <1>4, SumOfPart DEF AmountOf
<1>6. total[s] \in Nat
  BY PaymentAssumption DEF TakenInv, IInv, TypeOK
<1>7. AmountOf(ApprovedOf(s)) <= total[s]
  BY <1>1, <1>5, <1>6
<1>8. AmountOf(ApprovedOf(s))' = AmountOf(ApprovedOf(s))
  BY <1>1 DEF AmountOf, ApprovedOf
<1>9. QED
  BY <1>1, <1>2, <1>7, <1>8 DEF Settled, Integrated

LEMMA SaleStepKeepsSettled ==
  ASSUME TakenInv, NEW t \in Sale, SaleStep(t), NEW s \in Sale
  PROVE  Settled(s)'
<1>1. ASSUME NEW used \in SUBSET Intent, CompleteSale(t, used)
      PROVE  Settled(s)'
  <2>1. CASE s = t
    BY <1>1, <2>1, CheckoutSettles
  <2>2. CASE s # t
    <3>1. UNCHANGED <<saleOf, channel, amount, total, charge>> /\ saleStatus'[s] = saleStatus[s]
      BY <1>1, <2>2 DEF CompleteSale, request, TakenInv, IInv, TypeOK
    <3>2. QED
      BY <3>1, SettledStays DEF Settled
  <2>3. QED
    BY <2>1, <2>2
<1>2. CASE (\E cents \in 0..MaxTotal : ChangeTotal(t, cents)) \/ CancelSale(t) \/ CreateReturn(t)
  <2>1. /\ UNCHANGED <<saleOf, channel, amount, charge>>
        /\ saleStatus'[s] = "COMPLETED" => saleStatus[s] = "COMPLETED"
        /\ saleStatus[s] = "COMPLETED" => total'[s] = total[s]
    BY <1>2 DEF ChangeTotal, CancelSale, CreateReturn, request, TakenInv, IInv, TypeOK
  <2>2. QED
    BY <2>1, SettledStays DEF Settled
<1>3. QED
  BY <1>1, <1>2 DEF SaleStep

LEMMA TakenInductive == TakenInv /\ [Next]_vars => TakenInv'
<1> SUFFICES ASSUME TakenInv, [Next]_vars
             PROVE  TakenInv'
  OBVIOUS
<1>1. IInv'
  BY Inductive DEF TakenInv
<1>2. ASSUME NEW s \in Sale
      PROVE  Settled(s)'
  <2>1. CASE Crash \/ UNCHANGED vars
    <3>1. UNCHANGED <<saleOf, channel, amount, total, charge, saleStatus>>
      BY <2>1 DEF Crash, vars, request, sales
    <3>2. QED
      BY <3>1, SettledStays DEF Settled
  <2>2. QED
    BY <2>1, IntentStepKeepsSettled, SaleStepKeepsSettled DEF Next
<1>3. QED
  BY <1>1, <1>2 DEF TakenInv

(* However late the provider approves them, the charges of a completed     *)
(* sale are not above its total: none was open when it was completed.      *)
THEOREM TakenStaysWithinTotal == Spec => []TakenWithinTotal
<1>1. Init => TakenInv
  BY InitEstablishes DEF Init, TakenInv, Settled
<1>2. TakenInv => TakenWithinTotal
  BY DEF TakenInv, Settled, TakenWithinTotal, ApprovedOf
<1>3. QED
  BY <1>1, <1>2, TakenInductive, PTL DEF Spec

=============================================================================
