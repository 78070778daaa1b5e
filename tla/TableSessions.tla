---------------------------- MODULE TableSessions ----------------------------
(***************************************************************************)
(* The tables of a restaurant.  A session of a table collects lines, each  *)
(* so many pieces of a product, until they are billed: in one sale         *)
(* (checkout) or in parts, each settlement a sale of its own.  A sale is   *)
(* paid or given up at the counter, and what that means for the table is   *)
(* an effect of the sale, delivered later.  Sessions change tables, are    *)
(* merged, and lines pass from one to another.                             *)
(*                                                                         *)
(* Every handler is one transaction.  A line belongs to a session through  *)
(* its order, left out here: orders are the subject of Kitchen.  Prices,   *)
(* customers, waiters, service requests and the edition of a sale's basket *)
(* are left out; a settlement is known by its sale.                        *)
(***************************************************************************)
EXTENDS Integers, FiniteSets, FiniteSetsExt

CONSTANTS
  Table, Session, Line, Sale,
  MaxQuantity,    \* bound: pieces of a line
  NoTable, NoSession, NoSale

VARIABLES
  sessionStatus, tableOf, checkoutSale,   \* table_sessions
  lineOf, pieces, struck,                 \* restaurant_order_items, and the cancelled ones
  saleStatus, billed,                     \* sales, and what of each line they bill
  settlement, settles,                    \* restaurant_settlements, by their sale
  finished,                               \* sales whose sale.completed took effect
  reopened,                               \* sales whose cancellation took effect
  tangled                                 \* auxiliary: two ways of billing met

sessions == <<sessionStatus, tableOf, checkoutSale>>
lines == <<lineOf, pieces, struck>>
bills == <<saleStatus, billed>>
settlements == <<settlement, settles>>
effects == <<finished, reopened>>
tableVars == <<sessions, lines, bills, settlements, effects, tangled>>

ASSUME TablesAssumption ==
  /\ MaxQuantity \in Nat
  /\ NoTable \notin Table /\ NoSession \notin Session /\ NoSale \notin Sale
  /\ IsFiniteSet(Sale)

NoPieces == [l \in Line |-> 0]

TablesInit ==
  /\ sessionStatus = [s \in Session |-> "NONE"]
  /\ tableOf = [s \in Session |-> NoTable]
  /\ checkoutSale = [s \in Session |-> NoSale]
  /\ lineOf = [l \in Line |-> NoSession] /\ pieces = NoPieces /\ struck = {}
  /\ saleStatus = [b \in Sale |-> "NONE"] /\ billed = [b \in Sale |-> NoPieces]
  /\ settlement = [b \in Sale |-> "NONE"] /\ settles = [b \in Sale |-> NoSession]
  /\ finished = {} /\ reopened = {}
  /\ tangled = FALSE

-----------------------------------------------------------------------------
Active(s) == sessionStatus[s] \in {"OPEN", "CHECKOUT"}
FreeTable(t) == \A s \in Session : Active(s) => tableOf[s] # t

Owed(s) == {l \in Line : lineOf[l] = s /\ l \notin struck}

\* Pieces of a line in the settlements there are, paid or not.
BilledOf(l) == [b \in Sale |-> billed[b][l]]
Parts == {b \in Sale : settlement[b] # "NONE"}
Settled(l) == SumFunctionOnSet(BilledOf(l), Parts)

Remaining(s, l) == IF l \in Owed(s) THEN pieces[l] - Settled(l) ELSE 0

\* Opening an occupied table answers with its session and changes nothing.
OpenTable(t, s) ==
  /\ FreeTable(t) /\ sessionStatus[s] = "NONE"
  /\ sessionStatus' = [sessionStatus EXCEPT ![s] = "OPEN"]
  /\ tableOf' = [tableOf EXCEPT ![s] = t]
  /\ UNCHANGED <<checkoutSale, lines, bills, settlements, effects, tangled>>

AddOrder(s, l, n) ==
  /\ sessionStatus[s] = "OPEN" /\ lineOf[l] = NoSession
  /\ lineOf' = [lineOf EXCEPT ![l] = s]
  /\ pieces' = [pieces EXCEPT ![l] = n]
  /\ UNCHANGED <<sessions, struck, bills, settlements, effects, tangled>>

TransferTable(s, t) ==
  /\ Active(s) /\ FreeTable(t)
  /\ tableOf' = [tableOf EXCEPT ![s] = t]
  /\ UNCHANGED <<sessionStatus, checkoutSale, lines, bills, settlements, effects, tangled>>

OpenSale(b, basket) ==
  /\ saleStatus[b] = "NONE"
  /\ saleStatus' = [saleStatus EXCEPT ![b] = "OPEN"]
  /\ billed' = [billed EXCEPT ![b] = basket]

\* The whole session in one sale, settled or not; a checkout there is is kept.
CheckoutToSale(s, b) ==
  /\ Active(s) /\ checkoutSale[s] = NoSale
  /\ Owed(s) # {}
  /\ OpenSale(b, [l \in Line |-> IF l \in Owed(s) THEN pieces[l] ELSE 0])
  /\ sessionStatus' = [sessionStatus EXCEPT ![s] = "CHECKOUT"]
  /\ checkoutSale' = [checkoutSale EXCEPT ![s] = b]
  /\ tangled' = (tangled \/ \E l \in Owed(s) : Settled(l) > 0)
  /\ UNCHANGED <<tableOf, lines, settlements, effects>>

-----------------------------------------------------------------------------
\* Mutant: what another settlement has taken is not looked at.
MaySettleAll(s, part) ==
  part # NoPieces
    /\ \A l \in Line : part[l] > 0 => l \in Owed(s) /\ part[l] <= pieces[l]

MaySettle(s, part) ==
  part # NoPieces /\ \A l \in Line : part[l] <= Remaining(s, l)

CreateItemSettlement(s, b, part) ==
  /\ Active(s) /\ MaySettle(s, part)
  /\ OpenSale(b, part)
  /\ settlement' = [settlement EXCEPT ![b] = "OPEN"]
  /\ settles' = [settles EXCEPT ![b] = s]
  /\ tangled' = (tangled \/ sessionStatus[s] = "CHECKOUT")
  /\ UNCHANGED <<sessions, lines, effects>>

\* Mutant: the session is closed with the first part that is paid.
NothingIsLeft(s) == Active(s)

NothingRemains(s) == \A l \in Line : Remaining(s, l) = 0

\* The part is paid; the session is closed with it if no other part is missing.
CompleteSettlement(b) ==
  LET s == settles[b]
  IN /\ settlement[b] = "OPEN" /\ saleStatus[b] = "OPEN" /\ Active(s)
     /\ saleStatus' = [saleStatus EXCEPT ![b] = "COMPLETED"]
     /\ settlement' = [settlement EXCEPT ![b] = "COMPLETED"]
     /\ sessionStatus' = [sessionStatus EXCEPT ![s] = IF NothingRemains(s) THEN "CLOSED" ELSE @]
     /\ UNCHANGED <<tableOf, checkoutSale, lines, billed, settles, effects, tangled>>

\* A line no settlement has; the sale of a checkout goes on billing it.
CancelOrderItem(l) ==
  /\ lineOf[l] # NoSession /\ l \notin struck
  /\ Settled(l) = 0
  /\ struck' = struck \union {l}
  /\ tangled' = (tangled \/ sessionStatus[lineOf[l]] = "CHECKOUT")
  /\ UNCHANGED <<sessions, lineOf, pieces, bills, settlements, effects>>

\* Everything of source passes to target, and source is closed.
MergeSessions(source, target) ==
  /\ source # target /\ Active(source) /\ Active(target)
  /\ \A b \in Sale : settles[b] # source
  /\ lineOf' = [l \in Line |-> IF lineOf[l] = source THEN target ELSE lineOf[l]]
  /\ sessionStatus' = [sessionStatus EXCEPT ![source] = "CLOSED"]
  /\ tangled' = (tangled \/ "CHECKOUT" \in {sessionStatus[source], sessionStatus[target]})
  /\ UNCHANGED <<tableOf, checkoutSale, pieces, struck, bills, settlements, effects>>

MayPass(source, l, n) == n <= Remaining(source, l)

\* n pieces of a line pass: the line itself, or a new one cut from it.
TransferItems(source, target, l, new, n) ==
  /\ source # target
  /\ sessionStatus[source] = "OPEN" /\ sessionStatus[target] = "OPEN"
  /\ MayPass(source, l, n)
  /\ IF n = pieces[l]
     THEN /\ lineOf' = [lineOf EXCEPT ![l] = target]
          /\ UNCHANGED pieces
     ELSE /\ lineOf[new] = NoSession
          /\ lineOf' = [lineOf EXCEPT ![new] = target]
          /\ pieces' = [pieces EXCEPT ![l] = @ - n, ![new] = n]
  /\ UNCHANGED <<sessions, struck, bills, settlements, effects, tangled>>

-----------------------------------------------------------------------------
(* The counter, and the effects of what it does.                           *)

CompleteSale(b) ==
  /\ saleStatus[b] = "OPEN"
  /\ saleStatus' = [saleStatus EXCEPT ![b] = "COMPLETED"]
  /\ UNCHANGED <<sessions, lines, billed, settlements, effects, tangled>>

\* Voided before it was paid, or cancelled after: two events, one effect.
CancelSale(b) ==
  /\ saleStatus[b] \in {"OPEN", "COMPLETED"}
  /\ saleStatus' = [saleStatus EXCEPT ![b] =
       IF @ = "OPEN" THEN "VOIDED" ELSE "CANCELLED"]
  /\ UNCHANGED <<sessions, lines, billed, settlements, effects, tangled>>

\* The sale was paid once, whatever became of it, and its effect is due.
FinishIsDue(b) == saleStatus[b] \in {"COMPLETED", "CANCELLED"} /\ b \notin finished

\* Mutant: only a sale that was paid and cancelled gives its table back.
ReopenCancelledIsDue(b) ==
  saleStatus[b] = "CANCELLED" /\ b \notin reopened /\ ~FinishIsDue(b)

\* Events of one sale are delivered in their order.
ReopenIsDue(b) ==
  saleStatus[b] \in {"VOIDED", "CANCELLED"} /\ b \notin reopened /\ ~FinishIsDue(b)

WaitsFor(s, b) == sessionStatus[s] = "CHECKOUT" /\ checkoutSale[s] = b

FinalizeCompletedSale(b) ==
  /\ FinishIsDue(b)
  /\ sessionStatus' = [s \in Session |-> IF WaitsFor(s, b) THEN "CLOSED" ELSE sessionStatus[s]]
  /\ finished' = finished \union {b}
  /\ UNCHANGED <<tableOf, checkoutSale, lines, bills, settlements, reopened, tangled>>

ReopenCancelledCheckout(b) ==
  /\ ReopenIsDue(b)
  /\ sessionStatus' = [s \in Session |-> IF WaitsFor(s, b) THEN "OPEN" ELSE sessionStatus[s]]
  /\ checkoutSale' = [s \in Session |-> IF WaitsFor(s, b) THEN NoSale ELSE checkoutSale[s]]
  /\ reopened' = reopened \union {b}
  /\ UNCHANGED <<tableOf, lines, bills, settlements, finished, tangled>>

Part == [Line -> 0..MaxQuantity]

SessionStep(s) ==
  \/ \E t \in Table : OpenTable(t, s) \/ TransferTable(s, t)
  \/ \E l \in Line, n \in 1..MaxQuantity : AddOrder(s, l, n)
  \/ \E b \in Sale : CheckoutToSale(s, b)
  \/ \E b \in Sale, part \in Part : CreateItemSettlement(s, b, part)
  \/ \E target \in Session : MergeSessions(s, target)
  \/ \E target \in Session, l \in Line, new \in Line, n \in 1..MaxQuantity :
       TransferItems(s, target, l, new, n)

SaleStep(b) ==
  \/ CompleteSettlement(b)
  \/ CompleteSale(b) \/ CancelSale(b)
  \/ FinalizeCompletedSale(b) \/ ReopenCancelledCheckout(b)

TablesNext ==
  \/ \E s \in Session : SessionStep(s)
  \/ \E l \in Line : CancelOrderItem(l)
  \/ \E b \in Sale : SaleStep(b)

TablesSpec == TablesInit /\ [][TablesNext]_tableVars

-----------------------------------------------------------------------------
(* Type invariant.                                                         *)
TablesTypeOK ==
  /\ sessionStatus \in [Session -> {"NONE", "OPEN", "CHECKOUT", "CLOSED"}]
  /\ tableOf \in [Session -> Table \union {NoTable}]
  /\ checkoutSale \in [Session -> Sale \union {NoSale}]
  /\ lineOf \in [Line -> Session \union {NoSession}]
  /\ pieces \in [Line -> 0..MaxQuantity] /\ struck \subseteq Line
  /\ saleStatus \in [Sale -> {"NONE", "OPEN", "COMPLETED", "VOIDED", "CANCELLED"}]
  /\ billed \in [Sale -> Part]
  /\ settlement \in [Sale -> {"NONE", "OPEN", "COMPLETED"}]
  /\ settles \in [Sale -> Session \union {NoSession}]
  /\ finished \subseteq Sale /\ reopened \subseteq Sale
  /\ tangled \in BOOLEAN

\* Pieces of a line in the sales that are paid or waiting to be.
Asked(l) ==
  SumFunctionOnSet(BilledOf(l), {b \in Sale : saleStatus[b] \in {"OPEN", "COMPLETED"}})

\* Pieces of a line in sales that were paid, given back later or not.
EverPaid(l) ==
  SumFunctionOnSet(BilledOf(l), {b \in Sale : saleStatus[b] \in {"COMPLETED", "CANCELLED"}})

(* No guest is asked for a piece twice: across parts, transfers, merges,   *)
(* cancelled checkouts and late effects, the sales of a line never bill    *)
(* more than its pieces, unless a settlement, a merge or a cancelled item  *)
(* met a checkout of the same session.                                     *)
BilledWithinOrdered ==
  ~tangled => \A l \in Line : Asked(l) <= pieces[l]

(* A session that is closed was billed: every line it still has was paid,  *)
(* or is in a settlement somebody opened and that is not paid yet.         *)
ClosedIsBilled ==
  ~tangled =>
    \A s \in Session, l \in Line :
      sessionStatus[s] = "CLOSED" /\ l \in Owed(s) =>
        \/ EverPaid(l) >= pieces[l]
        \/ Settled(l) = pieces[l]

(* No table is stuck at the checkout: the sale it waits for is open, or an *)
(* effect of that sale is still to come.  No two sessions have a table.    *)
CheckoutIsLive ==
  \A s \in Session :
    /\ sessionStatus[s] = "CHECKOUT" =>
         LET b == checkoutSale[s]
         IN b \in Sale /\ (saleStatus[b] = "OPEN" \/ FinishIsDue(b) \/ ReopenIsDue(b))
    /\ \A other \in Session :
         Active(s) /\ Active(other) /\ s # other => tableOf[s] # tableOf[other]

=============================================================================
