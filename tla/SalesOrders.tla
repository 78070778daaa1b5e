----------------------------- MODULE SalesOrders -----------------------------
(***************************************************************************)
(* Orders that reserve stock, and the sales they are served by.  One       *)
(* product and one location: both only separate independent copies.  A     *)
(* confirmed order keeps a reservation; it goes to the counter as a sale   *)
(* that waits to be paid (prepareCheckout) or is served in parts, each a   *)
(* sale of its own (fulfillOrder).  The stock effect of a sale comes       *)
(* later: it moves the stock, then consumes the reservation bound to the   *)
(* sale.  The handler runs to its end before another request is served,    *)
(* so that only the end of the process can cut it; its parts are committed *)
(* one by one.  A sale is known by its pieces of the product; suspended    *)
(* sales, cancelled completed ones and manual movements are left out.      *)
(***************************************************************************)
EXTENDS Integers, FiniteSets, FiniteSetsExt

CONSTANTS
  Order, Sale,
  Opening,        \* the stock there is at first
  MaxQuantity,    \* bound: pieces of an order or a sale
  MaxCrashes,
  NoOrder, NoSale

VARIABLES
  orderStatus, ordered, fulfilled,   \* sales_orders, sales_order_items
  reservation, consumed, boundSale,  \* inventory_reservations, one per order
  saleStatus, quantity,              \* sales, sale_items
  fulfillment, orderOf, promised,    \* sales_order_fulfillments, by their sale
  balance, moved,                    \* stock, and the sales that wrote movements
  applied,                           \* sales whose stock effect is recorded
  crashes

orders == <<orderStatus, ordered, fulfilled>>
reservations == <<reservation, consumed, boundSale>>
sales == <<saleStatus, quantity>>
fulfillments == <<fulfillment, orderOf, promised>>
stock == <<balance, moved, applied, crashes>>
vars == <<orders, reservations, sales, fulfillments, stock>>

ASSUME SalesOrdersAssumption ==
  /\ Opening \in Nat /\ MaxQuantity \in Nat /\ MaxCrashes \in Nat
  /\ NoOrder \notin Order /\ NoSale \notin Sale
  /\ IsFiniteSet(Order) /\ IsFiniteSet(Sale)

Init ==
  /\ orderStatus = [o \in Order |-> "NONE"]
  /\ ordered = [o \in Order |-> 0] /\ fulfilled = [o \in Order |-> 0]
  /\ reservation = [o \in Order |-> "NONE"] /\ consumed = [o \in Order |-> 0]
  /\ boundSale = [o \in Order |-> NoSale]
  /\ saleStatus = [s \in Sale |-> "NONE"] /\ quantity = [s \in Sale |-> 0]
  /\ fulfillment = [s \in Sale |-> "NONE"] /\ orderOf = [s \in Sale |-> NoOrder]
  /\ promised = [s \in Sale |-> 0]
  /\ balance = Opening /\ moved = {} /\ applied = {}
  /\ crashes = 0

-----------------------------------------------------------------------------
Least(a, b) == IF a <= b THEN a ELSE b

Live(o) == orderStatus[o] \in {"CONFIRMED", "PARTIALLY_FULFILLED"}
Pending(o) == ordered[o] - fulfilled[o]

\* Pieces reserved for other orders than the one the sale is of.
Reserved(source) ==
  SumFunctionOnSet([o \in Order |-> ordered[o] - consumed[o]],
                   {o \in Order : reservation[o] = "ACTIVE" /\ o # source})

\* Completed sales whose stock effect is not recorded as applied.
Committed ==
  SumFunctionOnSet(quantity, {s \in Sale : saleStatus[s] = "COMPLETED" /\ s \notin applied})

\* Mutant: sales whose effect is pending are forgotten.
InStock(n, source) == n <= balance - Reserved(source)

IsAvailable(n, source) == n <= balance - Reserved(source) - Committed

-----------------------------------------------------------------------------
CreateQuote(o, n) ==
  /\ orderStatus[o] = "NONE"
  /\ orderStatus' = [orderStatus EXCEPT ![o] = "QUOTED"]
  /\ ordered' = [ordered EXCEPT ![o] = n]
  /\ UNCHANGED <<fulfilled, reservations, sales, fulfillments, stock>>

\* createReservation looks at the balance and at the other reservations.
ConfirmOrder(o) ==
  /\ orderStatus[o] = "QUOTED"
  /\ ordered[o] <= balance - Reserved(NoOrder)
  /\ orderStatus' = [orderStatus EXCEPT ![o] = "CONFIRMED"]
  /\ reservation' = [reservation EXCEPT ![o] = "ACTIVE"]
  /\ UNCHANGED <<ordered, fulfilled, consumed, boundSale, sales, fulfillments, stock>>

CancelOrder(o) ==
  /\ orderStatus[o] = "QUOTED" \/ Live(o)
  /\ orderStatus' = [orderStatus EXCEPT ![o] = "CANCELLED"]
  /\ reservation' = [reservation EXCEPT ![o] = IF @ = "ACTIVE" THEN "RELEASED" ELSE @]
  /\ UNCHANGED <<ordered, fulfilled, consumed, boundSale, sales, fulfillments, stock>>

\* A checkout that is still open is used again, which changes nothing.
PrepareCheckout(o, s) ==
  /\ Live(o) /\ Pending(o) > 0
  /\ saleStatus[s] = "NONE"
  /\ ~ \E other \in Sale :
         fulfillment[other] = "PENDING" /\ orderOf[other] = o /\ saleStatus[other] = "OPEN"
  /\ saleStatus' = [saleStatus EXCEPT ![s] = "OPEN"]
  /\ quantity' = [quantity EXCEPT ![s] = Pending(o)]
  /\ fulfillment' = [fulfillment EXCEPT ![s] = "PENDING"]
  /\ orderOf' = [orderOf EXCEPT ![s] = o]
  /\ promised' = [promised EXCEPT ![s] = Pending(o)]
  /\ UNCHANGED <<orders, reservations, stock>>

Bind(o, s) ==
  boundSale' = [boundSale EXCEPT ![o] = IF reservation[o] = "ACTIVE" THEN s ELSE @]

\* Mutant: only the last part counts.
FulfillLast(o, n) ==
  LET total == Least(ordered[o], n)
  IN /\ fulfilled' = [fulfilled EXCEPT ![o] = total]
     /\ orderStatus' = [orderStatus EXCEPT ![o] =
          IF total < ordered[o] THEN "PARTIALLY_FULFILLED" ELSE "FULFILLED"]

\* n more pieces of o are fulfilled; nothing asks what became of o.
Fulfill(o, n) ==
  LET total == Least(ordered[o], fulfilled[o] + n)
  IN /\ fulfilled' = [fulfilled EXCEPT ![o] = total]
     /\ orderStatus' = [orderStatus EXCEPT ![o] =
          IF total < ordered[o] THEN "PARTIALLY_FULFILLED" ELSE "FULFILLED"]

\* n pieces of o are sold and paid at once, in a sale of their own.
FulfillOrder(o, s, n) ==
  /\ Live(o) /\ n <= Pending(o)
  /\ saleStatus[s] = "NONE"
  /\ IsAvailable(n, o)
  /\ saleStatus' = [saleStatus EXCEPT ![s] = "COMPLETED"]
  /\ quantity' = [quantity EXCEPT ![s] = n]
  /\ fulfillment' = [fulfillment EXCEPT ![s] = "COMPLETED"]
  /\ orderOf' = [orderOf EXCEPT ![s] = o]
  /\ promised' = [promised EXCEPT ![s] = n]
  /\ Bind(o, s)
  /\ Fulfill(o, n)
  /\ UNCHANGED <<ordered, reservation, consumed, stock>>

-----------------------------------------------------------------------------
OpenSale(s) ==
  /\ saleStatus[s] = "NONE"
  /\ saleStatus' = [saleStatus EXCEPT ![s] = "OPEN"]
  /\ UNCHANGED <<orders, reservations, quantity, fulfillments, stock>>

\* The basket may be changed, that of a checkout too.
ChangeItem(s, n) ==
  /\ saleStatus[s] = "OPEN" /\ n # quantity[s]
  /\ quantity' = [quantity EXCEPT ![s] = n]
  /\ UNCHANGED <<orders, reservations, saleStatus, fulfillments, stock>>

\* The fulfillment a sale is waited for by, if any, is finished with it.
CompleteSale(s) ==
  /\ saleStatus[s] = "OPEN" /\ quantity[s] > 0
  /\ IsAvailable(quantity[s], orderOf[s])
  /\ saleStatus' = [saleStatus EXCEPT ![s] = "COMPLETED"]
  /\ IF orderOf[s] \in Order
     THEN /\ Bind(orderOf[s], s)
          /\ Fulfill(orderOf[s], promised[s])
          /\ fulfillment' = [fulfillment EXCEPT ![s] = "COMPLETED"]
     ELSE UNCHANGED <<boundSale, fulfilled, orderStatus, fulfillment>>
  /\ UNCHANGED <<ordered, reservation, consumed, quantity, orderOf, promised, stock>>

VoidSale(s) ==
  /\ saleStatus[s] = "OPEN"
  /\ saleStatus' = [saleStatus EXCEPT ![s] = "CANCELLED"]
  /\ fulfillment' = [fulfillment EXCEPT ![s] = IF @ = "PENDING" THEN "FAILED" ELSE @]
  /\ UNCHANGED <<orders, reservations, quantity, orderOf, promised, stock>>

-----------------------------------------------------------------------------
\* The movement of a sale: once, and never below nothing.
ApplySaleItems(s) ==
  IF s \in moved
  THEN UNCHANGED <<balance, moved>>
  ELSE /\ quantity[s] <= balance
       /\ balance' = balance - quantity[s] /\ moved' = moved \union {s}

Taken(s, o) ==
  IF reservation[o] = "ACTIVE" /\ boundSale[o] = s
  THEN Least(ordered[o] - consumed[o], quantity[s]) ELSE 0

\* Mutant: a reservation is used up by any sale of its order.
ConsumeWhole(s) ==
  /\ consumed' = [o \in Order |-> IF Taken(s, o) > 0 THEN ordered[o] ELSE consumed[o]]
  /\ reservation' = [o \in Order |-> IF Taken(s, o) > 0 THEN "CONSUMED" ELSE reservation[o]]
  /\ UNCHANGED boundSale

ConsumeSaleReservations(s) ==
  /\ consumed' = [o \in Order |-> consumed[o] + Taken(s, o)]
  /\ reservation' = [o \in Order |->
       IF Taken(s, o) > 0 /\ consumed[o] + Taken(s, o) >= ordered[o]
       THEN "CONSUMED" ELSE reservation[o]]
  /\ UNCHANGED boundSale

IsPending(s) == saleStatus[s] = "COMPLETED" /\ s \notin applied

\* The stock effect of sale.completed, recorded as applied at the end.
HandleSale(s) ==
  /\ IsPending(s)
  /\ ApplySaleItems(s)
  /\ ConsumeSaleReservations(s)
  /\ applied' = applied \union {s}
  /\ UNCHANGED <<orders, sales, fulfillments, crashes>>

\* The process ends before the reservation is consumed, or before the record.
CrashInHandler(s) ==
  /\ IsPending(s)
  /\ crashes < MaxCrashes /\ crashes' = crashes + 1
  /\ ApplySaleItems(s)
  /\ ConsumeSaleReservations(s) \/ UNCHANGED reservations
  /\ UNCHANGED <<orders, sales, fulfillments, applied>>

OrderStep(o) ==
  \/ \E n \in 1..MaxQuantity : CreateQuote(o, n)
  \/ ConfirmOrder(o) \/ CancelOrder(o)
  \/ \E s \in Sale : PrepareCheckout(o, s)
  \/ \E s \in Sale, n \in 1..MaxQuantity : FulfillOrder(o, s, n)

SaleStep(s) ==
  \/ OpenSale(s)
  \/ \E n \in 0..MaxQuantity : ChangeItem(s, n)
  \/ CompleteSale(s) \/ VoidSale(s)
  \/ HandleSale(s) \/ CrashInHandler(s)

Next == (\E o \in Order : OrderStep(o)) \/ (\E s \in Sale : SaleStep(s))

Spec == Init /\ [][Next]_vars

-----------------------------------------------------------------------------
(* Type invariant; the balance of a location is never negative.            *)
TypeOK ==
  /\ orderStatus \in [Order -> {"NONE", "QUOTED", "CONFIRMED", "PARTIALLY_FULFILLED",
                                "FULFILLED", "CANCELLED"}]
  /\ ordered \in [Order -> 0..MaxQuantity] /\ fulfilled \in [Order -> 0..MaxQuantity]
  /\ reservation \in [Order -> {"NONE", "ACTIVE", "RELEASED", "CONSUMED"}]
  /\ consumed \in [Order -> 0..MaxQuantity]
  /\ boundSale \in [Order -> Sale \union {NoSale}]
  /\ saleStatus \in [Sale -> {"NONE", "OPEN", "COMPLETED", "CANCELLED"}]
  /\ quantity \in [Sale -> 0..MaxQuantity]
  /\ fulfillment \in [Sale -> {"NONE", "PENDING", "COMPLETED", "FAILED"}]
  /\ orderOf \in [Sale -> Order \union {NoOrder}]
  /\ promised \in [Sale -> 0..MaxQuantity]
  /\ balance \in Nat /\ moved \subseteq Sale /\ applied \subseteq Sale
  /\ crashes \in Nat

(* The stock effect of a completed sale never fails for want of stock:     *)
(* what completed sales are still to take is there, whatever orders were   *)
(* confirmed, served or given up meanwhile and wherever the effects died.  *)
StockCoversPending ==
  SumFunctionOnSet(quantity, {s \in Sale : saleStatus[s] = "COMPLETED" /\ s \notin moved})
    <= balance

(* An order that is still to be served keeps enough of its reservation for *)
(* what is missing, however its parts, the checkout and their late effects *)
(* interleave, as long as no effect is cut by the end of the process.      *)
LiveOrderKeepsReservation ==
  crashes = 0 =>
    \A o \in Order : Live(o) =>
      reservation[o] = "ACTIVE" /\ Pending(o) <= ordered[o] - consumed[o]

(* The fulfilled pieces of an order are those of its finished fulfillments,*)
(* and never more than were ordered, also when a checkout and parts served *)
(* beside it overlap.                                                      *)
FulfilledMatchesDocuments ==
  \A o \in Order :
    fulfilled[o] = Least(ordered[o],
      SumFunctionOnSet(promised, {s \in Sale : orderOf[s] = o /\ fulfillment[s] = "COMPLETED"}))

=============================================================================
