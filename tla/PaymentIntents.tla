---------------------------- MODULE PaymentIntents ----------------------------
(***************************************************************************)
(* Attempts to charge a sale through a Pix QR code, the API of a bank or a *)
(* card terminal (TEF).  Starting an attempt and asking what became of it  *)
(* wait for the provider, and anything may happen meanwhile: other calls   *)
(* on the same attempt, the checkout, the end of the process.  A provider  *)
(* may keep silent or answer with doubt, but what it says of a charge that *)
(* is approved or declined is true and final.  An attempt stands for its   *)
(* idempotency key: a repeated create returns the row that is there.       *)
(* Suspended sales and the reference of the provider are left out.         *)
(***************************************************************************)
EXTENDS Integers, FiniteSets, FiniteSetsExt

CONSTANTS
  Intent, Sale,
  MaxTotal,      \* bound: the total of a sale, in units of money
  MaxAsking,     \* bound: calls of one kind that wait for the provider
  MaxCrashes,
  NoSale

VARIABLES
  status, saleOf, channel, amount, started,   \* payment_intents
  saleStatus, total,                          \* sales
  returned,      \* the sales that have a return
  starting,      \* how many calls of start wait for the provider
  checking,      \* how many calls of reconcile do
  requests,      \* how often the provider was asked for the charge
  charge,        \* what the provider made of it, known to it alone
  crashes

request == <<saleOf, channel, amount>>       \* written once, by create
sales == <<saleStatus, total, returned>>
calls == <<starting, checking, requests>>
vars == <<status, request, started, sales, calls, charge, crashes>>

Channel == {"PIX_STATIC", "PIX_API", "TEF"}

ASSUME PaymentAssumption ==
  /\ MaxTotal \in Nat /\ MaxAsking \in Nat /\ MaxCrashes \in Nat
  /\ NoSale \notin Sale /\ IsFiniteSet(Intent)

Init ==
  /\ status = [i \in Intent |-> "NONE"]
  /\ saleOf = [i \in Intent |-> NoSale]
  /\ channel = [i \in Intent |-> "PIX_STATIC"]
  /\ amount = [i \in Intent |-> 0]
  /\ started = [i \in Intent |-> FALSE]
  /\ saleStatus = [s \in Sale |-> "OPEN"] /\ total = [s \in Sale |-> 0]
  /\ returned = {}
  /\ starting = [i \in Intent |-> 0] /\ checking = [i \in Intent |-> 0]
  /\ requests = [i \in Intent |-> 0]
  /\ charge = [i \in Intent |-> "NONE"]
  /\ crashes = 0

-----------------------------------------------------------------------------
Live(s) == {i \in Intent : saleOf[i] = s /\ status[i] \notin {"FAILED", "CANCELLED"}}
AmountOf(intents) == SumFunctionOnSet(amount, intents)
Integrated(i) == channel[i] # "PIX_STATIC"

\* UPDATE ... SET status = to WHERE status IN from.
Move(i, from, to) ==
  status' = [status EXCEPT ![i] = IF @ \in from THEN to ELSE @]

Create(i, s, ch, cents) ==
  /\ status[i] = "NONE"
  /\ saleStatus[s] = "OPEN"
  /\ cents + AmountOf(Live(s)) <= total[s]
  /\ status' = [status EXCEPT ![i] = "PENDING"]
  /\ saleOf' = [saleOf EXCEPT ![i] = s]
  /\ channel' = [channel EXCEPT ![i] = ch]
  /\ amount' = [amount EXCEPT ![i] = cents]
  /\ UNCHANGED <<started, sales, calls, charge, crashes>>

MayStart(i) == status[i] = "PENDING" /\ Integrated(i) /\ ~started[i]

\* started_at is written before the provider is asked for the charge.
Start(i) ==
  /\ MayStart(i)
  /\ starting[i] < MaxAsking
  /\ started' = [started EXCEPT ![i] = TRUE]
  /\ starting' = [starting EXCEPT ![i] = @ + 1]
  /\ requests' = [requests EXCEPT ![i] = @ + 1]
  /\ UNCHANGED <<status, request, sales, checking, charge, crashes>>

\* Mutant: an answer that says nothing is taken for an approval.
TrustStart(i) ==
  \/ channel[i] = "PIX_API" /\ UNCHANGED status
  \/ channel[i] = "TEF" /\ Move(i, {"PENDING"}, "VERIFIED")
  \/ Move(i, {"PENDING"}, "REVIEW")

\* What start does with a QR code; an approval, a charge under way, a refusal
\* or a doubtful answer of a card terminal; an error or a timeout.
AfterStart(i) ==
  \/ channel[i] = "PIX_API" /\ UNCHANGED status
  \/ /\ channel[i] = "TEF"
     /\ \/ charge[i] = "APPROVED" /\ Move(i, {"PENDING"}, "VERIFIED")
        \/ UNCHANGED status
        \/ charge[i] = "DECLINED" /\ status' = [status EXCEPT ![i] = "FAILED"]
        \/ status' = [status EXCEPT ![i] = "REVIEW"]
  \/ Move(i, {"PENDING"}, "REVIEW")

StartAnswered(i) ==
  /\ starting[i] > 0
  /\ starting' = [starting EXCEPT ![i] = @ - 1]
  /\ AfterStart(i)
  /\ UNCHANGED <<request, started, sales, checking, requests, charge, crashes>>

Reconcile(i) ==
  /\ Integrated(i) /\ started[i] /\ status[i] \in {"PENDING", "REVIEW"}
  /\ checking[i] < MaxAsking
  /\ checking' = [checking EXCEPT ![i] = @ + 1]
  /\ UNCHANGED <<status, request, started, sales, starting, requests, charge, crashes>>

\* A charge not settled yet, an inconsistent receipt and an error change nothing.
ReconcileAnswered(i) ==
  /\ checking[i] > 0
  /\ checking' = [checking EXCEPT ![i] = @ - 1]
  /\ \/ charge[i] = "APPROVED" /\ Move(i, {"PENDING", "REVIEW"}, "VERIFIED")
     \/ charge[i] = "DECLINED" /\ Move(i, {"PENDING", "REVIEW"}, "FAILED")
     \/ UNCHANGED status
  /\ UNCHANGED <<request, started, sales, starting, requests, charge, crashes>>

ConfirmManual(i) ==
  /\ status[i] = "PENDING" /\ ~Integrated(i)
  /\ status' = [status EXCEPT ![i] = "MANUAL_CONFIRMED"]
  /\ UNCHANGED <<request, started, sales, calls, charge, crashes>>

\* Mutant: any attempt that is still pending can be given up.
CancelPending(i) ==
  /\ status[i] = "PENDING"
  /\ status' = [status EXCEPT ![i] = "CANCELLED"]
  /\ UNCHANGED <<request, started, sales, calls, charge, crashes>>

Cancel(i) ==
  /\ status[i] = "PENDING" /\ ~Integrated(i)
  /\ status' = [status EXCEPT ![i] = "CANCELLED"]
  /\ UNCHANGED <<request, started, sales, calls, charge, crashes>>

-----------------------------------------------------------------------------
\* addItem, removeItem, applyDiscount ... : any of them may change the total.
ChangeTotal(s, cents) ==
  /\ saleStatus[s] = "OPEN" /\ cents # total[s]
  /\ total' = [total EXCEPT ![s] = cents]
  /\ UNCHANGED <<status, request, started, saleStatus, returned, calls, charge, crashes>>

Confirmed(i) == status[i] \in {"VERIFIED", "MANUAL_CONFIRMED"}

\* Mutant: attempts that the payments do not mention do not matter.
ValidateMentioned(s, used) == used \subseteq Live(s) /\ \A i \in used : Confirmed(i)

\* validateCheckout: the payments mention every live attempt, all confirmed.
ValidateCheckout(s, used) == used = Live(s) /\ \A i \in used : Confirmed(i)

\* What the attempts leave due is paid at the counter.  A sale has an item.
CompleteSale(s, used) ==
  /\ saleStatus[s] = "OPEN" /\ total[s] > 0
  /\ ValidateCheckout(s, used)
  /\ AmountOf(used) <= total[s]
  /\ saleStatus' = [saleStatus EXCEPT ![s] = "COMPLETED"]
  /\ status' = [i \in Intent |-> IF i \in used THEN "CONSUMED" ELSE status[i]]
  /\ UNCHANGED <<request, started, total, returned, calls, charge, crashes>>

\* assertCancellationAllowed, then cancelSale.
CancelSale(s) ==
  /\ saleStatus[s] \in {"OPEN", "COMPLETED"}
  /\ Live(s) = {}
  /\ saleStatus' = [saleStatus EXCEPT ![s] = "CANCELLED"]
  /\ UNCHANGED <<status, request, started, total, returned, calls, charge, crashes>>

CreateReturn(s) ==
  /\ saleStatus[s] = "COMPLETED"
  /\ \A i \in Live(s) : status[i] # "CONSUMED"
  /\ s \notin returned
  /\ returned' = returned \union {s}
  /\ UNCHANGED <<status, request, started, saleStatus, total, calls, charge, crashes>>

-----------------------------------------------------------------------------
\* The provider settles a charge it was asked for, however late. Only cards are refused.
Settle(i, outcome) ==
  /\ requests[i] > 0 /\ charge[i] = "NONE"
  /\ outcome = "APPROVED" \/ channel[i] = "TEF"
  /\ charge' = [charge EXCEPT ![i] = outcome]
  /\ UNCHANGED <<status, request, started, sales, calls, crashes>>

\* The server stops: nobody waits any more for the answers under way.
Crash ==
  /\ crashes < MaxCrashes /\ crashes' = crashes + 1
  /\ \E i \in Intent : starting[i] > 0 \/ checking[i] > 0
  /\ starting' = [i \in Intent |-> 0] /\ checking' = [i \in Intent |-> 0]
  /\ UNCHANGED <<status, request, started, sales, requests, charge>>

IntentStep(i) ==
  \/ \E s \in Sale, ch \in Channel, cents \in 1..MaxTotal : Create(i, s, ch, cents)
  \/ Start(i) \/ StartAnswered(i)
  \/ Reconcile(i) \/ ReconcileAnswered(i)
  \/ ConfirmManual(i) \/ Cancel(i)
  \/ \E outcome \in {"APPROVED", "DECLINED"} : Settle(i, outcome)

SaleStep(s) ==
  \/ \E cents \in 0..MaxTotal : ChangeTotal(s, cents)
  \/ \E used \in SUBSET Intent : CompleteSale(s, used)
  \/ CancelSale(s)
  \/ CreateReturn(s)

Next == (\E i \in Intent : IntentStep(i)) \/ (\E s \in Sale : SaleStep(s)) \/ Crash

Spec == Init /\ [][Next]_vars

-----------------------------------------------------------------------------
Status == {"NONE", "PENDING", "REVIEW", "VERIFIED", "MANUAL_CONFIRMED",
           "CANCELLED", "FAILED", "CONSUMED"}

(* Type invariant.                                                         *)
TypeOK ==
  /\ status \in [Intent -> Status]
  /\ saleOf \in [Intent -> Sale \union {NoSale}]
  /\ channel \in [Intent -> Channel] /\ amount \in [Intent -> 0..MaxTotal]
  /\ started \in [Intent -> BOOLEAN]
  /\ saleStatus \in [Sale -> {"OPEN", "COMPLETED", "CANCELLED"}]
  /\ total \in [Sale -> 0..MaxTotal]
  /\ returned \subseteq Sale
  /\ starting \in [Intent -> Nat] /\ checking \in [Intent -> Nat]
  /\ requests \in [Intent -> {0, 1}]
  /\ charge \in [Intent -> {"NONE", "APPROVED", "DECLINED"}]
  /\ crashes \in Nat

(* The checkout relies on VERIFIED: whatever order the answers of start    *)
(* and reconcile come in, only a charge the provider approved gets there.  *)
VerifiedIsPaid ==
  \A i \in Intent :
    Integrated(i) /\ status[i] \in {"VERIFIED", "CONSUMED"} => charge[i] = "APPROVED"

(* An attempt is charged once at most, whatever is called again after a    *)
(* timeout or a restart ("never re-charge"), and its charge is never lost  *)
(* from sight: one that is approved, even long after nobody waits for it,  *)
(* is of an attempt that neither failed nor was given up, and of a sale    *)
(* that was not cancelled.                                                 *)
ChargedOnceAndKept ==
  \A i \in Intent :
    /\ requests[i] <= 1
    /\ charge[i] = "APPROVED" =>
         /\ status[i] \notin {"NONE", "FAILED", "CANCELLED"}
         /\ saleStatus[saleOf[i]] # "CANCELLED"

(* A completed sale has not taken more than its total, counting every      *)
(* charge a provider approved for it, early or late.                       *)
TakenWithinTotal ==
  \A s \in Sale :
    saleStatus[s] = "COMPLETED" =>
      AmountOf({i \in Intent : saleOf[i] = s /\ charge[i] = "APPROVED"}) <= total[s]

(* docs/operations/pix-tef-integration.md:121: sales that received a Pix   *)
(* or card payment through a provider have no returns.                     *)
ReturnsStayBlocked ==
  \A i \in Intent : charge[i] = "APPROVED" => saleOf[i] \notin returned

=============================================================================
