------------------------------ MODULE SalePricing ------------------------------
(***************************************************************************)
(* What an open sale costs while its cart, the catalog and the             *)
(* promotions change: the prices of its lines, the promotions that fit     *)
(* them, the discount of the cashier, and what is recorded of them.        *)
(*                                                                         *)
(* Every operation on the sale commits its own change and then reprices,   *)
(* in commits of their own: each line, the sale, and the discount state.   *)
(* The process may stop between any two.  Customers, kits, variants and    *)
(* other configured lines keep the price they have, and are left out;      *)
(* products stay active and quantities are whole.  What is paid is the     *)
(* subject of PointOfSale.                                                 *)
(***************************************************************************)
EXTENDS Integers, FiniteSetsExt, Folds

CONSTANTS
  Items,            \* number of products; a product has one line
  MaxPieces,        \* bound: pieces of a line
  Prices,           \* prices the catalog, or a cashier, may give
  Discounts,        \* discounts a cashier asks for
  TierFrom,         \* pieces the price by quantity is for
  TierCents,        \* ... that price
  Rules,            \* number of promotional combos
  Combo,            \* each with its mode, products, size, price, cap and manual
  NotListed,
  MaxRevisions,     \* bound: changes of the catalog
  MaxInterrupts     \* bound: ends of the process within an operation

VARIABLES
  price, tiered, offered,   \* sale_price_cents; the tier and the combos that are active
  saleState,                \* sales.status
  cart,                     \* sale_items: pieces, unit, listed, fixed
  netted,                   \* ... those whose net_total_cents is known
  subtotal, reduced,        \* sales: subtotal_cents, discount_cents
  manual, promotion,        \* sale_discount_states: the cents of the two discounts
  applied,                  \* ... the times each combo was applied
  revisions, interrupts

catalog == <<price, tiered, offered>>
totals == <<subtotal, reduced>>
discountState == <<manual, promotion, applied>>
pricingVars == <<catalog, saleState, cart, netted, totals, discountState, revisions, interrupts>>

Item == 1..Items
Rule == 1..Rules

ASSUME PricingAssumption ==
  /\ Items \in Nat \ {0} /\ Rules \in Nat /\ MaxPieces \in Nat
  /\ Prices \subseteq Nat /\ Discounts \subseteq Nat /\ NotListed \notin Nat
  /\ TierFrom \in Nat \ {0} /\ TierCents \in Nat
  /\ Combo \in [Rule -> [same : BOOLEAN, products : SUBSET Item, size : Nat \ {0},
                         cents : Nat, cap : Nat \ {0}, manual : BOOLEAN]]
  /\ MaxRevisions \in Nat /\ MaxInterrupts \in Nat

Lesser(a, b) == IF a <= b THEN a ELSE b

NoLine == [pieces |-> 0, unit |-> 0, listed |-> NotListed, fixed |-> FALSE]

PricingInit ==
  /\ price \in [Item -> Prices] /\ tiered = FALSE /\ offered = Rule
  /\ saleState = "OPEN"
  /\ cart = [i \in Item |-> NoLine] /\ netted = {}
  /\ subtotal = 0 /\ reduced = 0
  /\ manual = 0 /\ promotion = 0 /\ applied = [r \in Rule |-> 0]
  /\ revisions = 0 /\ interrupts = 0

-----------------------------------------------------------------------------
(* Prices.                                                                 *)

\* resolveUnitPrice: a tier never makes a piece dearer.
UnitPrice(i, pieces) ==
  IF tiered /\ pieces >= TierFrom THEN Lesser(price[i], TierCents) ELSE price[i]

\* A line whose price a cashier changed keeps it.
IsStale(i, line) ==
  /\ line.pieces > 0 /\ ~line.fixed
  /\ \/ line.unit # UnitPrice(i, line.pieces)
     \/ line.listed \notin {NotListed, price[i]}

StaleIn(lines) == {i \in Item : IsStale(i, lines[i])}

\* The lines some of which have their new price.
PricedIn(lines, some) ==
  [i \in Item |->
     IF i \in some
     THEN [lines[i] EXCEPT !.unit = UnitPrice(i, lines[i].pieces), !.listed = price[i]]
     ELSE lines[i]]

Priced(lines) == PricedIn(lines, StaleIn(lines))

SubtotalOf(lines) == SumFunctionOnSet([i \in Item |-> lines[i].pieces * lines[i].unit], Item)

-----------------------------------------------------------------------------
(* Promotions: resolvePromotions.                                          *)

CentsOf(lines, takes) == SumFunctionOnSet([i \in Item |-> takes[i] * lines[i].unit], Item)

\* The pieces of some products lie in a row, the dearest first: how many there are,
\* and how many of them before those of product i.
InRow(lines, products) == SumFunctionOnSet([i \in Item |-> lines[i].pieces], products)

Dearer(lines, j, i) ==
  \/ lines[j].unit > lines[i].unit
  \/ lines[j].unit = lines[i].unit /\ j < i

Before(lines, products, i) == InRow(lines, {j \in products : Dearer(lines, j, i)})

\* How many of the first pieces of a row, and what of each product, its n-th block has.
InBlock(first, size, n) == Lesser(first, n * size) - Lesser(first, (n - 1) * size)

Block(lines, products, size, n) ==
  [i \in Item |->
     IF i \in products
     THEN InBlock(Before(lines, products, i) + lines[i].pieces, size, n)
            - InBlock(Before(lines, products, i), size, n)
     ELSE 0]

Candidate(r, lines, products, first, n) ==
  LET takes == Block(lines, products, Combo[r].size, n)
  IN [rule |-> r, first |-> first, n |-> n, takes |-> takes,
      cents |-> CentsOf(lines, takes) - Combo[r].cents]

CandidatesOf(r, lines, products, first) ==
  LET times == Lesser(InRow(lines, products) \div Combo[r].size, Combo[r].cap)
      all == {Candidate(r, lines, products, first, n) : n \in 1..times}
  IN {c \in all : c.cents > 0}

\* candidatesForRule: of one product at a time, or of all that are selected.
Candidates(r, lines) ==
  IF Combo[r].same
  THEN UNION {CandidatesOf(r, lines, {i}, i) : i \in Combo[r].products}
  ELSE CandidatesOf(r, lines, Combo[r].products, 0)

\* The one that saves more comes first, then the combo and its own order.
Precedes(c, d) ==
  \/ c.cents > d.cents
  \/ c.cents = d.cents /\ c.rule < d.rule
  \/ c.cents = d.cents /\ c.rule = d.rule /\ c.first < d.first
  \/ c.cents = d.cents /\ c.rule = d.rule /\ c.first = d.first /\ c.n < d.n

FitsIn(c, deal) ==
  /\ deal.times[c.rule] < Combo[c.rule].cap
  /\ \A i \in Item : c.takes[i] <= deal.left[i]

Take(deal, c) ==
  IF FitsIn(c, deal)
  THEN [left |-> [i \in Item |-> deal.left[i] - c.takes[i]],
        times |-> [deal.times EXCEPT ![c.rule] = @ + 1],
        cents |-> deal.cents + c.cents]
  ELSE deal

LastOf(candidates) == CHOOSE c \in candidates : \A d \in candidates : ~Precedes(c, d)

\* One candidate after the other.
Dealt(none, candidates) ==
  MapThenFoldSet(LAMBDA c, deal : Take(deal, c), none, LAMBDA c : c, LastOf, candidates)

Deal(lines) ==
  Dealt([left |-> [i \in Item |-> lines[i].pieces], times |-> [r \in Rule |-> 0], cents |-> 0],
        UNION {Candidates(r, lines) : r \in offered})

\* A combo in use that goes with no discount of the cashier.
Blocks(deal) == \E r \in Rule : deal.times[r] > 0 /\ ~Combo[r].manual

-----------------------------------------------------------------------------
(* Repricing.                                                              *)

\* recalculate: the discount of the sale is cut to what it costs.
Recalculated(lines, cents) ==
  /\ subtotal' = SubtotalOf(lines)
  /\ reduced' = Lesser(cents, SubtotalOf(lines))

\* The discount of the promotions, and that of the cashier that is left beside it.
PromotionOf(lines, deal) == Lesser(deal.cents, SubtotalOf(lines))

ManualLeft(lines, deal, asked) ==
  IF Blocks(deal) THEN 0
  ELSE Lesser(asked, SubtotalOf(lines) - PromotionOf(lines, deal))

\* Lines that changed, by hand or by repricing, have no net any more.
Touched(lines, changed) == netted' = netted \ (changed \union StaleIn(lines))

PriceSale(priced, deal, asked) ==
  /\ cart' = priced
  /\ Recalculated(priced, PromotionOf(priced, deal) + ManualLeft(priced, deal, asked))

WriteState(priced, deal, asked) ==
  /\ promotion' = PromotionOf(priced, deal)
  /\ manual' = ManualLeft(priced, deal, asked)
  /\ applied' = deal.times
  /\ UNCHANGED interrupts

\* The process stops before the discount state is written.
Interrupt ==
  /\ interrupts < MaxInterrupts
  /\ interrupts' = interrupts + 1
  /\ UNCHANGED discountState

\* The commits of an operation that leaves the lines given, all of them or until
\* the row of the sale is written.
Reprice(lines, changed, asked) ==
  \E priced \in {Priced(lines)} : \E deal \in {Deal(priced)} :
    /\ PriceSale(priced, deal, asked) /\ Touched(lines, changed)
    /\ WriteState(priced, deal, asked) \/ Interrupt

\* ... or only the change of the operation itself (changed is empty where it is
\* none of a line) and some of the lines.
StopWithin(lines, changed) ==
  /\ Interrupt
  /\ \E some \in SUBSET StaleIn(lines) :
       /\ cart' = PricedIn(lines, some)
       /\ netted' = netted \ (changed \union some)
  /\ IF changed = {} THEN UNCHANGED totals ELSE Recalculated(lines, reduced)

Repriced(lines, changed, asked) ==
  \/ Reprice(lines, changed, asked)
  \/ StopWithin(lines, changed)

-----------------------------------------------------------------------------
(* The operations on the sale.                                             *)

\* addItem of a product the sale has: its line keeps its price until it is repriced.
AddItem(i, n) ==
  LET line == cart[i]
      more == IF line.pieces = 0
              THEN [NoLine EXCEPT !.pieces = n, !.unit = price[i]]
              ELSE [line EXCEPT !.pieces = @ + n]
  IN /\ saleState = "OPEN" /\ more.pieces <= MaxPieces
     /\ Repriced([cart EXCEPT ![i] = more], {i}, manual)
     /\ UNCHANGED <<catalog, saleState, revisions>>

UpdateItemQuantity(i, n) ==
  /\ saleState = "OPEN" /\ cart[i].pieces > 0
  /\ Repriced([cart EXCEPT ![i].pieces = n], {i}, manual)
  /\ UNCHANGED <<catalog, saleState, revisions>>

OverrideItemPrice(i, cents) ==
  LET line == cart[i]
      listed == IF line.listed = NotListed THEN line.unit ELSE line.listed
  IN /\ saleState = "OPEN" /\ line.pieces > 0
     /\ Repriced([cart EXCEPT ![i] = [line EXCEPT !.unit = cents, !.listed = listed,
                                                  !.fixed = TRUE]], {i}, manual)
     /\ UNCHANGED <<catalog, saleState, revisions>>

RemoveItem(i) ==
  /\ saleState = "OPEN" /\ cart[i].pieces > 0
  /\ Repriced([cart EXCEPT ![i] = NoLine], {i}, manual)
  /\ UNCHANGED <<catalog, saleState, revisions>>

\* Refused beside a combo that blocks it, when the lines have their prices already.
ApplyDiscount(cents) ==
  /\ saleState = "OPEN"
  /\ \E priced \in {Priced(cart)} : \E deal \in {Deal(priced)} :
       IF Blocks(deal) /\ cents > 0
       THEN /\ cart' = priced /\ Touched(cart, {})
            /\ UNCHANGED <<totals, discountState, interrupts>>
       ELSE Repriced(cart, {}, cents)
  /\ UNCHANGED <<catalog, saleState, revisions>>

\* setCustomer, or a checkout that is refused for what was paid.
RepriceSale ==
  /\ saleState = "OPEN"
  /\ Repriced(cart, {}, manual)
  /\ UNCHANGED <<catalog, saleState, revisions>>

\* Cut before the status is written it is RepriceSale.
SuspendSale ==
  /\ saleState = "OPEN"
  /\ Reprice(cart, {}, manual) /\ UNCHANGED interrupts
  /\ saleState' = "SUSPENDED"
  /\ UNCHANGED <<catalog, revisions>>

ResumeSale ==
  /\ saleState = "SUSPENDED"
  /\ saleState' = "OPEN"
  /\ Repriced(cart, {}, manual)
  /\ UNCHANGED <<catalog, revisions>>

\* A discount, a suspension or a checkout asked of a sale that is not open, or a
\* customer given to one that is suspended: its lines are priced before the sale
\* is found not to be open.
RepriceOutOfTurn ==
  /\ saleState # "OPEN"
  /\ cart' = Priced(cart) /\ Touched(cart, {})
  /\ UNCHANGED <<catalog, saleState, totals, discountState, revisions, interrupts>>

\* Mutant: the sale is completed with the prices of its last change.
CompleteUnpriced ==
  /\ saleState = "OPEN" /\ \E i \in Item : cart[i].pieces > 0
  /\ saleState' = "COMPLETED" /\ netted' = {i \in Item : cart[i].pieces > 0}
  /\ Recalculated(cart, reduced)
  /\ UNCHANGED <<catalog, cart, discountState, revisions, interrupts>>

\* The sale is repriced once more, then completed in a commit of its own.
CompletePriced ==
  /\ saleState = "OPEN" /\ \E i \in Item : cart[i].pieces > 0
  /\ saleState' = "COMPLETED"
  /\ \E priced \in {Priced(cart)} : \E deal \in {Deal(priced)} :
       /\ PriceSale(priced, deal, manual)
       /\ WriteState(priced, deal, manual)
  /\ netted' = {i \in Item : cart[i].pieces > 0}
  /\ UNCHANGED <<catalog, revisions>>

CancelAnySale ==
  /\ saleState # "CANCELLED"
  /\ saleState' = "CANCELLED"
  /\ UNCHANGED <<catalog, cart, netted, totals, discountState, revisions, interrupts>>

-----------------------------------------------------------------------------
(* The catalog.                                                            *)

ReviseCatalog ==
  /\ revisions < MaxRevisions
  /\ revisions' = revisions + 1
  /\ \/ /\ \E i \in Item, cents \in Prices : price' = [price EXCEPT ![i] = cents]
        /\ UNCHANGED <<tiered, offered>>
     \/ tiered' = ~tiered /\ UNCHANGED <<price, offered>>
     \/ /\ \E r \in Rule : offered' \in {offered \ {r}, offered \union {r}}
        /\ UNCHANGED <<price, tiered>>
  /\ UNCHANGED <<saleState, cart, netted, totals, discountState, interrupts>>

PricingNext ==
  \/ \E i \in Item, n \in 1..MaxPieces : AddItem(i, n) \/ UpdateItemQuantity(i, n)
  \/ \E i \in Item, cents \in Prices : OverrideItemPrice(i, cents)
  \/ \E i \in Item : RemoveItem(i)
  \/ \E cents \in Discounts : ApplyDiscount(cents)
  \/ RepriceSale \/ SuspendSale \/ ResumeSale \/ RepriceOutOfTurn
  \/ CompletePriced \/ CancelAnySale \/ ReviseCatalog

PricingSpec == PricingInit /\ [][PricingNext]_pricingVars

-----------------------------------------------------------------------------
PricingTypeOK ==
  /\ price \in [Item -> Prices] /\ tiered \in BOOLEAN /\ offered \subseteq Rule
  /\ saleState \in {"OPEN", "SUSPENDED", "COMPLETED", "CANCELLED"}
  /\ cart \in [Item -> [pieces : 0..MaxPieces, unit : Nat,
                        listed : Nat \union {NotListed}, fixed : BOOLEAN]]
  /\ netted \subseteq Item
  /\ subtotal \in Nat /\ reduced \in Nat /\ manual \in Nat /\ promotion \in Nat
  /\ applied \in [Rule -> Nat]
  /\ revisions \in 0..MaxRevisions /\ interrupts \in 0..MaxInterrupts

\* No combo is applied beyond its cap, nor any piece taken by two combos.
PiecesSuffice ==
  /\ \A r \in Rule : applied[r] <= Combo[r].cap
  /\ \A rules \in SUBSET Rule :
       SumFunctionOnSet([r \in Rule |-> applied[r] * Combo[r].size], rules) <=
         InRow(cart, UNION {Combo[r].products : r \in rules})

(* What a paid sale says of its discounts is what it was reduced by, even  *)
(* if the process stopped within operations before, or the catalog changed *)
(* until the last moment: promotions and cashier together, none of them    *)
(* where a combo in use forbids the other, no piece in two combos.  Its    *)
(* lines add up to it unless one lost its net by repricing afterwards.     *)
PaidAsPriced ==
  saleState = "COMPLETED" =>
    /\ reduced = manual + promotion /\ reduced <= subtotal
    /\ PiecesSuffice
    /\ (\E r \in Rule : applied[r] > 0 /\ ~Combo[r].manual) => manual = 0
    /\ (\A i \in Item : cart[i].pieces > 0 => i \in netted) =>
         subtotal = SubtotalOf(cart)

=============================================================================
