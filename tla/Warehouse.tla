------------------------------- MODULE Warehouse -------------------------------
(***************************************************************************)
(* Pieces of one product on the move: bought and received in parts, sent   *)
(* from one location to another, reserved, and sold where they are.  The   *)
(* sale of a piece is committed first and takes the piece by an effect     *)
(* that comes later, and that fails while the location has none left.      *)
(*                                                                         *)
(* Every handler is one transaction.  A dispatch or a receipt asked for    *)
(* again, with its key or another, changes nothing and has no action.      *)
(* Costs are left out: a payable is known by the pieces it is for.         *)
(***************************************************************************)
EXTENDS Integers, FiniteSets, FiniteSetsExt

CONSTANTS
  Location, Transfer,
  Purchase, Receipt,    \* purchase orders; keys of receipts
  MaxUnits,             \* bound: pieces of a transfer or an order
  MaxSold,              \* bound: pieces sold
  OpeningStock,         \* pieces each location has at first
  NoPlace, NoPurchase

VARIABLES
  stock,                            \* inventory_location_balances
  reservedAt,                       \* pieces of the active reservations
  committedAt, taken,               \* pieces sold: effect to come, effect applied
  transferIs, from, to, load,       \* stock_transfers, stock_transfer_items
  purchaseIs, deliverTo,            \* purchase_orders
  purchased, received,              \* purchase_order_items
  receiptOf, delivered,             \* purchase_receipts, by their key
  payable                           \* financial_entries: the pieces of a receipt owed for

places == <<stock, reservedAt, committedAt, taken>>
transfers == <<transferIs, from, to, load>>
receipts == <<receiptOf, delivered, payable>>
purchases == <<purchaseIs, deliverTo, purchased, received, receipts>>
warehouseVars == <<places, transfers, purchases>>

ASSUME WarehouseAssumption ==
  /\ OpeningStock \in [Location -> Nat]
  /\ MaxUnits \in Nat /\ MaxSold \in Nat
  /\ NoPlace \notin Location /\ NoPurchase \notin Purchase
  /\ IsFiniteSet(Location) /\ IsFiniteSet(Transfer) /\ IsFiniteSet(Receipt)

WarehouseInit ==
  /\ stock = OpeningStock
  /\ reservedAt = [l \in Location |-> 0]
  /\ committedAt = [l \in Location |-> 0] /\ taken = 0
  /\ transferIs = [t \in Transfer |-> "NONE"]
  /\ from = [t \in Transfer |-> NoPlace] /\ to = [t \in Transfer |-> NoPlace]
  /\ load = [t \in Transfer |-> 0]
  /\ purchaseIs = [p \in Purchase |-> "NONE"]
  /\ deliverTo = [p \in Purchase |-> NoPlace]
  /\ purchased = [p \in Purchase |-> 0] /\ received = [p \in Purchase |-> 0]
  /\ receiptOf = [k \in Receipt |-> NoPurchase]
  /\ delivered = [k \in Receipt |-> 0] /\ payable = [k \in Receipt |-> 0]

-----------------------------------------------------------------------------
\* getAvailability: the sales whose effect is to come are not looked at.
AvailableAt(l) == stock[l] - reservedAt[l]

CreateReservation(l) ==
  /\ AvailableAt(l) >= 1
  /\ reservedAt' = [reservedAt EXCEPT ![l] = @ + 1]
  /\ UNCHANGED <<stock, committedAt, taken, transfers, purchases>>

ReleaseReservation(l) ==
  /\ reservedAt[l] > 0
  /\ reservedAt' = [reservedAt EXCEPT ![l] = @ - 1]
  /\ UNCHANGED <<stock, committedAt, taken, transfers, purchases>>

\* The counter does look at them.
SellPiece(l) ==
  /\ AvailableAt(l) - committedAt[l] >= 1
  /\ taken + SumFunctionOnSet(committedAt, Location) < MaxSold
  /\ committedAt' = [committedAt EXCEPT ![l] = @ + 1]
  /\ UNCHANGED <<stock, reservedAt, taken, transfers, purchases>>

TakeSoldPiece(l) ==
  /\ committedAt[l] > 0 /\ stock[l] > 0
  /\ stock' = [stock EXCEPT ![l] = @ - 1]
  /\ committedAt' = [committedAt EXCEPT ![l] = @ - 1]
  /\ taken' = taken + 1
  /\ UNCHANGED <<reservedAt, transfers, purchases>>

-----------------------------------------------------------------------------
CreateTransfer(t, a, b, n) ==
  /\ transferIs[t] = "NONE" /\ a # b
  /\ transferIs' = [transferIs EXCEPT ![t] = "DRAFT"]
  /\ from' = [from EXCEPT ![t] = a] /\ to' = [to EXCEPT ![t] = b]
  /\ load' = [load EXCEPT ![t] = n]
  /\ UNCHANGED <<places, purchases>>

DispatchTransfer(t) ==
  /\ transferIs[t] = "DRAFT"
  /\ load[t] <= AvailableAt(from[t])
  /\ transferIs' = [transferIs EXCEPT ![t] = "IN_TRANSIT"]
  /\ stock' = [stock EXCEPT ![from[t]] = @ - load[t]]
  /\ UNCHANGED <<reservedAt, committedAt, taken, from, to, load, purchases>>

ReceiveTransfer(t) ==
  /\ transferIs[t] = "IN_TRANSIT"
  /\ transferIs' = [transferIs EXCEPT ![t] = "RECEIVED"]
  /\ stock' = [stock EXCEPT ![to[t]] = @ + load[t]]
  /\ UNCHANGED <<reservedAt, committedAt, taken, from, to, load, purchases>>

\* Mutant: a transfer that never left brings its pieces back too.
BroughtBackAll(t) == load[t]

BroughtBack(t) == IF transferIs[t] = "IN_TRANSIT" THEN load[t] ELSE 0

CancelTransfer(t) ==
  /\ transferIs[t] \in {"DRAFT", "IN_TRANSIT"}
  /\ transferIs' = [transferIs EXCEPT ![t] = "CANCELLED"]
  /\ stock' = [stock EXCEPT ![from[t]] = @ + BroughtBack(t)]
  /\ UNCHANGED <<reservedAt, committedAt, taken, from, to, load, purchases>>

-----------------------------------------------------------------------------
CreatePurchaseOrder(p, l, n) ==
  /\ purchaseIs[p] = "NONE"
  /\ purchaseIs' = [purchaseIs EXCEPT ![p] = "DRAFT"]
  /\ deliverTo' = [deliverTo EXCEPT ![p] = l]
  /\ purchased' = [purchased EXCEPT ![p] = n]
  /\ UNCHANGED <<places, transfers, received, receipts>>

SubmitPurchaseOrder(p) ==
  /\ purchaseIs[p] = "DRAFT"
  /\ purchaseIs' = [purchaseIs EXCEPT ![p] = "ORDERED"]
  /\ UNCHANGED <<places, transfers, deliverTo, purchased, received, receipts>>

\* Some of what is missing, into the location of the order; a new receipt, a new debt.
ReceivePurchaseOrder(p, k, n) ==
  /\ receiptOf[k] = NoPurchase
  /\ purchaseIs[p] \in {"ORDERED", "PARTIALLY_RECEIVED"}
  /\ n <= purchased[p] - received[p]
  /\ receiptOf' = [receiptOf EXCEPT ![k] = p]
  /\ delivered' = [delivered EXCEPT ![k] = n] /\ payable' = [payable EXCEPT ![k] = n]
  /\ received' = [received EXCEPT ![p] = @ + n]
  /\ purchaseIs' = [purchaseIs EXCEPT ![p] =
       IF received'[p] < purchased[p] THEN "PARTIALLY_RECEIVED" ELSE "RECEIVED"]
  /\ stock' = [stock EXCEPT ![deliverTo[p]] = @ + n]
  /\ UNCHANGED <<reservedAt, committedAt, taken, transfers, deliverTo, purchased>>

LocationStep(l) ==
  \/ CreateReservation(l) \/ ReleaseReservation(l)
  \/ SellPiece(l) \/ TakeSoldPiece(l)

TransferStep(t) ==
  \/ \E a, b \in Location, n \in 1..MaxUnits : CreateTransfer(t, a, b, n)
  \/ DispatchTransfer(t) \/ ReceiveTransfer(t) \/ CancelTransfer(t)

PurchaseStep(p) ==
  \/ \E l \in Location, n \in 1..MaxUnits : CreatePurchaseOrder(p, l, n)
  \/ SubmitPurchaseOrder(p)
  \/ \E k \in Receipt, n \in 1..MaxUnits : ReceivePurchaseOrder(p, k, n)

WarehouseNext ==
  \/ \E l \in Location : LocationStep(l)
  \/ \E t \in Transfer : TransferStep(t)
  \/ \E p \in Purchase : PurchaseStep(p)

WarehouseSpec == WarehouseInit /\ [][WarehouseNext]_warehouseVars

-----------------------------------------------------------------------------
(* Type invariant.                                                         *)
WarehouseTypeOK ==
  /\ stock \in [Location -> Nat] /\ reservedAt \in [Location -> Nat]
  /\ committedAt \in [Location -> Nat] /\ taken \in Nat
  /\ transferIs \in [Transfer -> {"NONE", "DRAFT", "IN_TRANSIT", "RECEIVED", "CANCELLED"}]
  /\ from \in [Transfer -> Location \union {NoPlace}]
  /\ to \in [Transfer -> Location \union {NoPlace}]
  /\ \A t \in Transfer : transferIs[t] # "NONE" => {from[t], to[t]} \subseteq Location
  /\ load \in [Transfer -> 0..MaxUnits]
  /\ purchaseIs \in
       [Purchase -> {"NONE", "DRAFT", "ORDERED", "PARTIALLY_RECEIVED", "RECEIVED"}]
  /\ deliverTo \in [Purchase -> Location \union {NoPlace}]
  /\ \A p \in Purchase : purchaseIs[p] # "NONE" => deliverTo[p] \in Location
  /\ purchased \in [Purchase -> 0..MaxUnits] /\ received \in [Purchase -> 0..MaxUnits]
  /\ receiptOf \in [Receipt -> Purchase \union {NoPurchase}]
  /\ delivered \in [Receipt -> 0..MaxUnits] /\ payable \in [Receipt -> 0..MaxUnits]

InTransit == {t \in Transfer : transferIs[t] = "IN_TRANSIT"}
ReceiptsOf(p) == {k \in Receipt : receiptOf[k] = p}

(* No piece is lost or made: however transfers are sent, received and      *)
(* cancelled and orders received in parts, what the locations have, what   *)
(* is between them and what was sold add up to what there was and what was *)
(* received, and every piece received is owed for once.                    *)
PiecesAreKept ==
  /\ SumFunctionOnSet(stock, Location) + SumFunctionOnSet(load, InTransit) + taken
     = SumFunctionOnSet(OpeningStock, Location) + SumFunctionOnSet(delivered, Receipt)
  /\ \A p \in Purchase :
       /\ received[p] = SumFunctionOnSet(payable, ReceiptsOf(p))
       /\ purchaseIs[p] = "RECEIVED" <=> received[p] = purchased[p] /\ purchased[p] > 0

=============================================================================
