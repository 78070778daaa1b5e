------------------------------- MODULE Kitchen -------------------------------
(***************************************************************************)
(* What the kitchen is told of the orders of a restaurant.  A product has  *)
(* a station, or is served directly; an order gets one ticket for each     *)
(* station of its products, and its status follows its tickets.            *)
(*                                                                         *)
(* The tickets of a table's order are an effect of the order, run later    *)
(* and, after a crash, again.  A delivery has its tickets when its sale is *)
(* opened, a counter order at once.  Every handler is one transaction.     *)
(* Quantities, notes, fees, couriers, addresses and ticket numbers are     *)
(* left out; a station that is switched off is a product without a route.  *)
(***************************************************************************)
EXTENDS Integers, FiniteSets

CONSTANTS
  Order, Product, Station,
  Direct, NoRoute,
  MaxChanges,     \* bound: routes configured while the shop is open
  MaxCrashes

VARIABLES
  route,                    \* restaurant_product_routes
  source, basket, orderStatus,   \* the orders, of tables, deliveries or the counter
  orderSale,                \* status of the sale of a delivery or counter order
  routed,                   \* table orders whose routing is recorded as applied
  ticket, cooks,            \* kitchen tickets; tickets of an order a product is on
  late,                     \* auxiliary: orders that got a ticket after others
  changes, crashes

orders == <<source, basket, orderStatus, orderSale>>
told == <<ticket, cooks, late>>
kitchenVars == <<route, orders, routed, told, changes, crashes>>

ASSUME KitchenAssumption ==
  /\ MaxChanges \in Nat /\ MaxCrashes \in Nat
  /\ Direct \notin Station /\ NoRoute \notin Station /\ Direct # NoRoute

InProduction == {"NEW", "PREPARING", "READY"}
TicketStatus == InProduction \union {"CANCELLED"}

KitchenInit ==
  /\ route \in [Product -> Station \union {Direct}]
  /\ source = [o \in Order |-> "NONE"]
  /\ basket = [o \in Order |-> {}] /\ orderStatus = [o \in Order |-> "NONE"]
  /\ orderSale = [o \in Order |-> "NONE"]
  /\ routed = {}
  /\ ticket = [o \in Order |-> [s \in Station |-> "NONE"]]
  /\ cooks = [o \in Order |-> [p \in Product |-> 0]]
  /\ late = {}
  /\ changes = 0 /\ crashes = 0

-----------------------------------------------------------------------------
(* Routing.                                                                *)

\* A product gets another destination, or loses it (unassignProduct).
ConfigureProductRoute(p, r) ==
  /\ changes < MaxChanges /\ r # route[p]
  /\ route' = [route EXCEPT ![p] = r]
  /\ changes' = changes + 1
  /\ UNCHANGED <<orders, routed, told, crashes>>

\* assertOrderRouting
AllRouted(products) == \A p \in products : route[p] # NoRoute

\* Mutant: a ticket the station has for this order is not looked for.
ToTellAgain(o, products) == {route[p] : p \in products} \intersect Station

\* Stations of these products that have no ticket of the order yet.
ToTell(o, products) ==
  {s \in Station : ticket[o][s] = "NONE" /\ \E p \in products : route[p] = s}

\* One new ticket for each of them, with all the products it makes.
MakeTickets(o, products) ==
  LET new == ToTell(o, products)
  IN /\ ticket' = [ticket EXCEPT ![o] =
          [s \in Station |-> IF s \in new THEN "NEW" ELSE ticket[o][s]]]
     /\ cooks' = [cooks EXCEPT ![o] =
          [p \in Product |-> IF p \in products /\ route[p] \in new
                             THEN cooks[o][p] + 1 ELSE cooks[o][p]]]
     /\ late' = IF (\E s \in Station : ticket[o][s] # "NONE")
                   /\ (\E s \in Station : ticket[o][s] = "NONE" /\ ticket'[o][s] # "NONE")
                THEN late \union {o} ELSE late

\* The status an order has from the tickets it is counted by.
Derived(statuses) ==
  CASE statuses = {"READY"} -> "READY"
    [] statuses # {"READY"} /\ statuses \intersect {"PREPARING", "READY"} # {} -> "PREPARING"
    [] OTHER -> "NEW"

\* All the tickets of a table's order, those not cancelled of the others.
Counted(o, tickets) ==
  {tickets[s] : s \in Station} \ (IF source[o] = "TABLE" THEN {"NONE"} ELSE {"NONE", "CANCELLED"})

\* syncOrderStatus, syncProductionSourceStatus
Synced(o, tickets) ==
  IF orderStatus[o] \in InProduction /\ Counted(o, tickets) # {}
  THEN Derived(Counted(o, tickets)) ELSE orderStatus[o]

\* A cancelled ticket is not reopened; any other change is allowed.
UpdateTicketStatus(o, s, status) ==
  /\ ticket[o][s] # "NONE" /\ (ticket[o][s] = "CANCELLED" => status = "CANCELLED")
  /\ ticket' = [ticket EXCEPT ![o][s] = status]
  /\ orderStatus' = [orderStatus EXCEPT ![o] = Synced(o, ticket'[o])]
  /\ UNCHANGED <<route, source, basket, orderSale, routed, cooks, late, changes, crashes>>

NewOrder(o, origin, products) ==
  /\ source[o] = "NONE"
  /\ source' = [source EXCEPT ![o] = origin]
  /\ basket' = [basket EXCEPT ![o] = products]
  /\ orderStatus' = [orderStatus EXCEPT ![o] = "NEW"]

-----------------------------------------------------------------------------
(* Orders of tables.                                                       *)

AddTableOrder(o, products) ==
  /\ products # {} /\ AllRouted(products)
  /\ NewOrder(o, "TABLE", products)
  /\ UNCHANGED <<route, orderSale, routed, told, changes, crashes>>

RouteIsDue(o) == source[o] = "TABLE" /\ o \notin routed

\* The effect: routes as they are now, not as they were when it was ordered.
RouteOrder(o) ==
  /\ RouteIsDue(o)
  /\ MakeTickets(o, basket[o])
  /\ routed' = routed \union {o}
  /\ UNCHANGED <<route, orders, changes, crashes>>

\* The tickets are committed, and the process ends before the effect is marked.
CrashInRouteOrder(o) ==
  /\ RouteIsDue(o)
  /\ crashes < MaxCrashes /\ crashes' = crashes + 1
  /\ MakeTickets(o, basket[o])
  /\ UNCHANGED <<route, orders, routed, changes>>

-----------------------------------------------------------------------------
(* Deliveries, and orders taken away.                                      *)

\* Its items may be told later, with the sale.
CreateDelivery(o, products) ==
  /\ AllRouted(products)
  /\ NewOrder(o, "DELIVERY", products)
  /\ UNCHANGED <<route, orderSale, routed, told, changes, crashes>>

\* Whatever became of the order; without tickets a new one is ready.
CreateDeliverySale(o, submitted) ==
  LET products == IF basket[o] = {} THEN submitted ELSE basket[o]
  IN /\ source[o] = "DELIVERY" /\ orderSale[o] = "NONE"
     /\ products # {} /\ AllRouted(products)
     /\ basket' = [basket EXCEPT ![o] = products]
     /\ orderSale' = [orderSale EXCEPT ![o] = "OPEN"]
     /\ MakeTickets(o, products)
     /\ orderStatus' = [orderStatus EXCEPT ![o] =
          IF @ = "NEW" /\ \A p \in products : route[p] = Direct THEN "READY" ELSE @]
     /\ UNCHANGED <<route, source, routed, changes, crashes>>

\* By hand: neither its sale nor its tickets hear of it.
UpdateDeliveryStatus(o, status) ==
  /\ source[o] = "DELIVERY"
  /\ \/ status = "CANCELLED" /\ orderStatus[o] \in InProduction \union {"OUT_FOR_DELIVERY"}
     \/ status \in {"OUT_FOR_DELIVERY", "PICKED_UP"} /\ orderStatus[o] = "READY"
     \/ status = "DELIVERED" /\ orderStatus[o] = "OUT_FOR_DELIVERY"
  /\ orderStatus' = [orderStatus EXCEPT ![o] = status]
  /\ UNCHANGED <<route, source, basket, orderSale, routed, told, changes, crashes>>

\* With its sale, if that is not paid, and those of its tickets that are among
\* the oldest 500 of the shop: any of them, of all orders and all days.
CancelDelivery(o) ==
  /\ source[o] = "DELIVERY"
  /\ orderStatus[o] \in InProduction \union {"OUT_FOR_DELIVERY"}
  /\ orderSale' = [orderSale EXCEPT ![o] = IF @ = "OPEN" THEN "VOIDED" ELSE @]
  /\ \E listed \in SUBSET {s \in Station : ticket[o][s] # "NONE"} :
       ticket' = [ticket EXCEPT ![o] =
         [s \in Station |-> IF s \in listed THEN "CANCELLED" ELSE ticket[o][s]]]
  /\ orderStatus' = [orderStatus EXCEPT ![o] = "CANCELLED"]
  /\ UNCHANGED <<route, source, basket, routed, cooks, late, changes, crashes>>

\* At the counter, as any sale.
PayOrder(o) ==
  /\ orderSale[o] = "OPEN"
  /\ orderSale' = [orderSale EXCEPT ![o] = "COMPLETED"]
  /\ UNCHANGED <<route, source, basket, orderStatus, routed, told, changes, crashes>>

-----------------------------------------------------------------------------
(* Fast food.                                                              *)

\* Routes are not asked for: a product without one is sold, not cooked.
CreateCounterOrder(o, products) ==
  /\ products # {}
  /\ NewOrder(o, "COUNTER", products)
  /\ orderSale' = [orderSale EXCEPT ![o] = "OPEN"]
  /\ MakeTickets(o, products)
  /\ UNCHANGED <<route, routed, changes, crashes>>

\* By hand, whatever its tickets say.
UpdateCounterStatus(o, status) ==
  /\ source[o] = "COUNTER"
  /\ \/ status = "CANCELLED" /\ orderStatus[o] \in InProduction
     \/ <<orderStatus[o], status>> \in
          {<<"NEW", "PREPARING">>, <<"PREPARING", "READY">>, <<"READY", "DELIVERED">>}
  /\ orderStatus' = [orderStatus EXCEPT ![o] = status]
  /\ UNCHANGED <<route, source, basket, orderSale, routed, told, changes, crashes>>

OrderStatus ==
  InProduction \union {"NONE", "OUT_FOR_DELIVERY", "DELIVERED", "PICKED_UP", "CANCELLED"}

KitchenNext ==
  \/ \E p \in Product, r \in Station \union {Direct, NoRoute} : ConfigureProductRoute(p, r)
  \/ \E o \in Order, s \in Station, status \in TicketStatus : UpdateTicketStatus(o, s, status)
  \/ \E o \in Order, products \in SUBSET Product :
       \/ AddTableOrder(o, products) \/ CreateCounterOrder(o, products)
       \/ CreateDelivery(o, products) \/ CreateDeliverySale(o, products)
  \/ \E o \in Order, status \in OrderStatus :
       UpdateDeliveryStatus(o, status) \/ UpdateCounterStatus(o, status)
  \/ \E o \in Order :
       \/ RouteOrder(o) \/ CrashInRouteOrder(o)
       \/ CancelDelivery(o) \/ PayOrder(o)

KitchenSpec == KitchenInit /\ [][KitchenNext]_kitchenVars

-----------------------------------------------------------------------------
(* Type invariant.                                                         *)
KitchenTypeOK ==
  /\ route \in [Product -> Station \union {Direct, NoRoute}]
  /\ source \in [Order -> {"NONE", "TABLE", "DELIVERY", "COUNTER"}]
  /\ basket \in [Order -> SUBSET Product]
  /\ orderStatus \in [Order -> OrderStatus]
  /\ orderSale \in [Order -> {"NONE", "OPEN", "COMPLETED", "VOIDED"}]
  /\ routed \subseteq {o \in Order : source[o] = "TABLE"}
  /\ ticket \in [Order -> [Station -> TicketStatus \union {"NONE"}]]
  /\ cooks \in [Order -> [Product -> Nat]]
  /\ late \subseteq {o \in Order : source[o] = "TABLE"}
  /\ changes \in 0..MaxChanges /\ crashes \in 0..MaxCrashes

\* A dish is on one ticket of its order at most, however often it is routed.
CookedOnce(o) == \A p \in Product : cooks[o][p] <= 1

\* A ready order has nothing to be made, a new one nothing begun, and a
\* delivery is ready when the last of its tickets is.
FollowsTickets(o) ==
  LET live == {ticket[o][s] : s \in Station} \ {"NONE", "CANCELLED"}
  IN /\ orderStatus[o] = "READY" => live \subseteq {"READY"}
     /\ orderStatus[o] = "NEW" => live \subseteq {"NEW"}
     /\ source[o] = "DELIVERY" /\ live = {"READY"} => orderStatus[o] \notin {"NEW", "PREPARING"}

(* An effect run again after a crash has nothing cooked twice, and what    *)
(* the waiter sees of an order agrees with its stations, whatever they     *)
(* change or cancel in which order: unless the route of a dish changed     *)
(* between the two runs, and the second made one ticket more.  The status  *)
(* of a counter order may also be set by hand.                             *)
KitchenIsTold ==
  \A o \in Order \ late : CookedOnce(o) /\ (source[o] # "COUNTER" => FollowsTickets(o))

=============================================================================
