-------------------------------- MODULE Refunds --------------------------------
(***************************************************************************)
(* The cents of one sale that was paid: how its discount is shared out     *)
(* over its lines, what each return of some of its pieces gives back, and  *)
(* the commission its seller earns, loses with a return and gets again     *)
(* when the return is cancelled.                                           *)
(*                                                                         *)
(* Lines are in the order the sale lists them.  A return may have several. *)
(* Quantities are whole pieces; prices are the gross of a line; the stock  *)
(* and the cash of a return are the subject of PointOfSale, and the        *)
(* payments of commissions, which only lower the balance of the seller,    *)
(* are left out.                                                           *)
(*                                                                         *)
(* A change that is asked of the paid sale is refused, but not before its  *)
(* lines were priced anew: what a line says of its cents may change, and   *)
(* the next return goes by what it says.                                   *)
(***************************************************************************)
EXTENDS Integers, FiniteSets, FiniteSetsExt

CONSTANTS
  Lines,         \* number of lines of the sale
  Basket,        \* what the sale may be of: the cents and pieces of each line
  Discount,      \* discounts asked for
  Rate,          \* commission, in percent of the base
  NewCents,      \* what a line may cost at later prices of the catalog
  MaxReturns,    \* bound: returns of the sale
  MaxParts,      \* bound: lines of one return
  MaxRewrites    \* bound: times that lines of the paid sale are priced anew

VARIABLES
  gross, discount, sold,             \* sales, sale_items: what was paid, and its pieces
  net,                               \* sale_items: net_total_cents, or total_cents without one
  saleIs,                            \* status of the sale
  returnIs, parts, refund,           \* return_transactions, return_items
  reversal,                          \* commission_ledger: RETURN_REVERSAL of a return
  balance,                           \* commission_ledger: sum of what each line has
  rewrites,                          \* times that lines were priced anew
  rewritten, dearest                 \* auxiliary: which, and the most a line ever said

sale == <<gross, discount, sold>>
rows == <<net, rewrites, rewritten, dearest>>
returns == <<returnIs, parts, refund>>
refundVars == <<sale, rows, saleIs, returns, reversal, balance>>

Line == 1..Lines
Return == 1..MaxReturns

ASSUME RefundsAssumption ==
  /\ Lines \in Nat \ {0} /\ Rate \in 0..100 /\ MaxReturns \in Nat /\ MaxParts \in Nat
  /\ Basket \subseteq [1..Lines -> [cents : Nat, pieces : Nat \ {0}]]
  /\ Discount \subseteq Nat /\ NewCents \subseteq Nat /\ MaxRewrites \in Nat

-----------------------------------------------------------------------------
(* Math.round of a quotient.                                               *)
Rounded(x, y) == (2 * x + y) \div (2 * y)

Least(a, b) == IF a <= b THEN a ELSE b

\* What the lines from n on cost; the subtotal is that of all.
GrossFrom(n) == SumFunctionOnSet(gross, n..Lines)
Subtotal == GrossFrom(1)
Applied == Least(discount, Subtotal)

\* The part line n takes of the discount that is left over the lines that are.
ShareOf(n, left) ==
  IF left = 0 \/ GrossFrom(n) = 0 THEN 0
  ELSE Least(Rounded(left * gross[n], GrossFrom(n)), Least(gross[n], left))

leftBefore[n \in 1..(Lines + 1)] ==
  IF n = 1 THEN Applied
  ELSE leftBefore[n - 1] - ShareOf(n - 1, leftBefore[n - 1])

Share(n) == ShareOf(n, leftBefore[n])
Paid(n) == gross[n] - Share(n)

\* recordSaleCompleted divides what was paid another way: the last line has the rest.
ProportionalBase(n) ==
  IF Subtotal = 0 THEN 0 ELSE Rounded(gross[n] * (Subtotal - Applied), Subtotal)

Base(n) ==
  IF n < Lines THEN ProportionalBase(n)
  ELSE LET others == SumFunctionOnSet([l \in Line |-> ProportionalBase(l)], 1..(Lines - 1))
           rest == (Subtotal - Applied) - others
       IN IF rest > 0 THEN rest ELSE 0

Commission(n) == Rounded(Base(n) * Rate, 100)

NoCents == [l \in Line |-> 0]

RefundsInit ==
  /\ \E basket \in Basket :
       /\ gross = [l \in Line |-> basket[l].cents]
       /\ sold = [l \in Line |-> basket[l].pieces]
  /\ discount \in Discount
  /\ saleIs = "COMPLETED"
  /\ returnIs = [r \in Return |-> "NONE"]
  /\ parts = [r \in Return |-> NoCents] /\ refund = [r \in Return |-> NoCents]
  /\ reversal = [r \in Return |-> NoCents]
  /\ balance = [l \in Line |-> Commission(l)]
  /\ net = [l \in Line |-> Paid(l)] /\ dearest = net
  /\ rewrites = 0 /\ rewritten = {}

-----------------------------------------------------------------------------
Completed == {r \in Return : returnIs[r] = "COMPLETED"}

ReturnedPieces(l) == SumFunctionOnSet([r \in Return |-> parts[r][l]], Completed)
ReturnedCents(l) == SumFunctionOnSet([r \in Return |-> refund[r][l]], Completed)

Available(l) == sold[l] - ReturnedPieces(l)
CentsLeft(l) == IF net[l] > ReturnedCents(l) THEN net[l] - ReturnedCents(l) ELSE 0

\* Mutant: the last pieces are rounded like the others.
RoundedAmount(l, n) == Least(CentsLeft(l), Rounded(net[l] * n, sold[l]))

\* returnItemAmount: the last pieces have what is left, whatever was rounded before.
ReturnItemAmount(l, n) ==
  IF n >= Available(l) THEN CentsLeft(l)
  ELSE Least(CentsLeft(l), Rounded(net[l] * n, sold[l]))

\* reverseReturn: each return is rounded by itself, and the last one too.
Reversed(l, n) == Least(Rounded(Commission(l) * n, sold[l]), Commission(l))

\* Returns are numbered as they are made.
IsNext(r) == returnIs[r] = "NONE" /\ \A other \in 1..(r - 1) : returnIs[other] # "NONE"

\* A refund of nothing is refused: the amounts of its methods are above zero.
CreateReturn(r, part) ==
  LET amount == [l \in Line |-> IF part[l] = 0 THEN 0 ELSE ReturnItemAmount(l, part[l])]
      lost == [l \in Line |-> Reversed(l, part[l])]
  IN /\ saleIs = "COMPLETED" /\ IsNext(r)
     /\ \A l \in Line : part[l] <= Available(l)
     /\ \E l \in Line : amount[l] > 0
     /\ returnIs' = [returnIs EXCEPT ![r] = "COMPLETED"]
     /\ parts' = [parts EXCEPT ![r] = part]
     /\ refund' = [refund EXCEPT ![r] = amount]
     /\ reversal' = [reversal EXCEPT ![r] = lost]
     /\ balance' = [l \in Line |-> balance[l] - lost[l]]
     /\ UNCHANGED <<sale, rows, saleIs>>

\* restoreReturn gives back what the return took.
Restored(r, l) == reversal[r][l]

\* Whatever became of the sale.
CancelReturn(r) ==
  /\ returnIs[r] = "COMPLETED"
  /\ returnIs' = [returnIs EXCEPT ![r] = "CANCELLED"]
  /\ balance' = [l \in Line |-> balance[l] + Restored(r, l)]
  /\ UNCHANGED <<sale, rows, saleIs, parts, refund, reversal>>

\* reverseSale takes what was earned, whatever returns took of it.
CancelPaidSale ==
  /\ saleIs = "COMPLETED"
  /\ saleIs' = "CANCELLED"
  /\ balance' = [l \in Line |-> balance[l] - Commission(l)]
  /\ UNCHANGED <<sale, rows, returns, reversal>>

\* A discount, a suspension or a checkout is asked of the sale, whatever became of
\* it.  Lines whose price in the catalog is another now, all of them or those before
\* the process ended, have it and no share of the discount.
ApplyQuantityPricing(changed, cents) ==
  /\ rewrites < MaxRewrites /\ rewrites' = rewrites + 1
  /\ net' = [l \in Line |-> IF l \in changed THEN cents[l] ELSE net[l]]
  /\ rewritten' = rewritten \union changed
  /\ dearest' = [l \in Line |-> IF net'[l] > dearest[l] THEN net'[l] ELSE dearest[l]]
  /\ UNCHANGED <<sale, saleIs, returns, reversal, balance>>

\* What a return asks for: some pieces of at most MaxParts lines.
Part ==
  {part \in [Line -> 0..Max({sold[l] : l \in Line})] :
     Cardinality({l \in Line : part[l] > 0}) \in 1..MaxParts}

RefundsNext ==
  \/ \E r \in Return, part \in Part : CreateReturn(r, part)
  \/ \E r \in Return : CancelReturn(r)
  \/ CancelPaidSale
  \/ \E changed \in SUBSET Line \ {{}} :
       \E cents \in [changed -> NewCents] : ApplyQuantityPricing(changed, cents)

RefundsSpec == RefundsInit /\ [][RefundsNext]_refundVars

-----------------------------------------------------------------------------
(* Type invariant.                                                         *)
RefundsTypeOK ==
  /\ gross \in [Line -> Nat] /\ discount \in Nat /\ sold \in [Line -> Nat \ {0}]
  /\ saleIs \in {"COMPLETED", "CANCELLED"}
  /\ returnIs \in [Return -> {"NONE", "COMPLETED", "CANCELLED"}]
  /\ parts \in [Return -> [Line -> Nat]] /\ refund \in [Return -> [Line -> Nat]]
  /\ reversal \in [Return -> [Line -> Nat]] /\ balance \in [Line -> Int]
  /\ net \in [Line -> Nat] /\ dearest \in [Line -> Nat]
  /\ rewrites \in 0..MaxRewrites /\ rewritten \subseteq Line

\* The shares add up to the discount, and no line gets more than it costs.
SharesAddUp ==
  /\ SumFunctionOnSet([l \in Line |-> Share(l)], Line) = Applied
  /\ \A l \in Line : Share(l) \in 0..gross[l]

(* A line gives back no more than was paid for it, and once all its pieces *)
(* are back, exactly that.  Not so a line whose price was written anew     *)
(* after it was paid: returns go by the new price then, and all that holds *)
(* is that they add up to no more than the highest it was given.           *)
RefundsAreExact ==
  /\ SharesAddUp
  /\ \A l \in Line :
       /\ ReturnedPieces(l) <= sold[l] /\ ReturnedCents(l) <= dearest[l]
       /\ l \notin rewritten =>
            /\ ReturnedCents(l) <= Paid(l)
            /\ ReturnedPieces(l) = sold[l] => ReturnedCents(l) = Paid(l)

(* The seller of a sale that stands has the commission of the pieces that  *)
(* stand, to half a cent for each return that was not cancelled.           *)
CommissionFollowsReturns ==
  saleIs = "COMPLETED" =>
    \A l \in Line :
      LET exact == 2 * Commission(l) * (sold[l] - ReturnedPieces(l))
          slack == sold[l] * Cardinality({r \in Completed : parts[r][l] > 0})
      IN 2 * sold[l] * balance[l] \in (exact - slack)..(exact + slack)

(* Whatever is returned in whatever parts, some of it cancelled and        *)
(* returned again, the buyer and the seller are both given their due; the  *)
(* buyer not of a line that was priced anew after it was paid.             *)
ReturnsAreExact == RefundsAreExact /\ CommissionFollowsReturns

=============================================================================
