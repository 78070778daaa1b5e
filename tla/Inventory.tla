------------------------------ MODULE Inventory ------------------------------
(***************************************************************************)
(* The stock of one location: the balance of each product and the          *)
(* append-only movements that explain it.  Its operations are the steps    *)
(* that sales, returns and the stock keeper take on it; PointOfSale says   *)
(* when they take them.                                                    *)
(***************************************************************************)
EXTENDS Integers

CONSTANTS
  Product,        \* the products that track stock
  Entry,          \* the events whose effects move stock
  MaxAdjustments  \* bound: manual movements, counts included

VARIABLES
  balance,        \* inventory_location_balances
  stockRows,      \* stockRows[k] : how often event k wrote its movements
  added, removed, \* history: what manual movements and counts put in and took out
  adjustments

InventoryInit(opening) ==
  /\ balance = opening
  /\ stockRows = [k \in Entry |-> 0]
  /\ added = [p \in Product |-> 0]
  /\ removed = [p \in Product |-> 0]
  /\ adjustments = 0

(***************************************************************************)
(* The movements of an event, all of them or none.  Rows the event has     *)
(* already are left alone; the transaction fails rather than make a        *)
(* balance negative.                                                       *)
(***************************************************************************)
MoveItems(k, items, sign) ==
  /\ IF stockRows[k] = 0
     THEN /\ \A p \in Product : balance[p] + sign * items[p] >= 0
          /\ balance' = [p \in Product |-> balance[p] + sign * items[p]]
          /\ stockRows' = [stockRows EXCEPT ![k] = 1]
     ELSE UNCHANGED <<balance, stockRows>>
  /\ UNCHANGED <<added, removed, adjustments>>

ApplySaleItems(k, items, direction) ==
  MoveItems(k, items, IF direction = "cancel" THEN 1 ELSE -1)

\* Mutant: a cancelled return brings the pieces once more.
BringAgain(k, items, direction) == MoveItems(k, items, 1)

ApplyReturnItems(k, items, direction) ==
  MoveItems(k, items, IF direction = "cancel" THEN -1 ELSE 1)

\* A manual movement or a count: any change that leaves no balance negative.
Adjust(p, delta) ==
  /\ adjustments < MaxAdjustments
  /\ adjustments' = adjustments + 1
  /\ balance[p] + delta >= 0
  /\ balance' = [balance EXCEPT ![p] = @ + delta]
  /\ IF delta < 0
     THEN removed' = [removed EXCEPT ![p] = @ - delta] /\ UNCHANGED added
     ELSE added' = [added EXCEPT ![p] = @ + delta] /\ UNCHANGED removed
  /\ UNCHANGED stockRows

=============================================================================
