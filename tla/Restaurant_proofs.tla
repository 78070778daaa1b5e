-------------------------- MODULE Restaurant_proofs --------------------------
(***************************************************************************)
(* The two halves of a restaurant, for any number of tables, sessions,     *)
(* sales, orders, products and stations: no table is stuck at the          *)
(* checkout, no piece is billed twice or left unbilled, and the kitchen is *)
(* told everything once.                                                   *)
(***************************************************************************)
EXTENDS TableSessions, Kitchen, SumTheorems, TLAPS

-----------------------------------------------------------------------------
(* The tables.                                                             *)

\* The types of what the bills of a session do not enter.
SessionsTyped ==
  /\ sessionStatus \in [Session -> {"NONE", "OPEN", "CHECKOUT", "CLOSED"}]
  /\ tableOf \in [Session -> Table \union {NoTable}]
  /\ checkoutSale \in [Session -> Sale \union {NoSale}]
  /\ saleStatus \in [Sale -> {"NONE", "OPEN", "COMPLETED", "VOIDED", "CANCELLED"}]

\* An effect took place for what its sale has become; a paid one may be cancelled yet.
EffectsFollowSales ==
  \A b \in Sale :
    /\ b \in finished => saleStatus[b] \in {"COMPLETED", "CANCELLED"}
    /\ b \in reopened => saleStatus[b] \in {"VOIDED", "CANCELLED"} /\ ~FinishIsDue(b)

\* Its effect on the tables has not taken place in full.
NotSettled(b) == saleStatus[b] = "OPEN" \/ FinishIsDue(b) \/ ReopenIsDue(b)

\* The sale a table waits for is one whose effects are to come, none of them seen.
WaitsForLive ==
  \A s \in Session :
    sessionStatus[s] = "CHECKOUT" =>
      /\ checkoutSale[s] \in Sale
      /\ saleStatus[checkoutSale[s]] # "NONE"
      /\ checkoutSale[s] \notin finished /\ checkoutSale[s] \notin reopened

OwnTable ==
  \A s, other \in Session :
    Active(s) /\ Active(other) /\ s # other => tableOf[s] # tableOf[other]

TablesInv == SessionsTyped /\ EffectsFollowSales /\ WaitsForLive /\ OwnTable

LEMMA TablesInitKeepsInv == TablesInit => TablesInv
  BY TablesAssumption
  DEF TablesInit, TablesInv, SessionsTyped, EffectsFollowSales, WaitsForLive, OwnTable, Active

\* Steps that touch neither the sessions nor the sales.
LEMMA LinesKeepInv ==
  ASSUME TablesInv, UNCHANGED <<sessions, saleStatus, finished, reopened>>
  PROVE  TablesInv'
  BY DEF sessions, TablesInv, SessionsTyped, EffectsFollowSales, FinishIsDue, WaitsForLive,
         OwnTable, Active

\* Steps of a sale before its effects: what has been taken into account stays.
LEMMA SaleMoves ==
  ASSUME TablesInv, NEW b \in Sale, UNCHANGED <<sessions, finished, reopened>>,
         NEW next \in {"OPEN", "COMPLETED", "VOIDED", "CANCELLED"},
         saleStatus' = [saleStatus EXCEPT ![b] = next],
         b \notin reopened,
         b \in finished => next = "CANCELLED"
  PROVE  TablesInv'
<1>1. SessionsTyped'
  BY DEF sessions, TablesInv, SessionsTyped
<1>2. EffectsFollowSales'
  BY DEF TablesInv, SessionsTyped, EffectsFollowSales, FinishIsDue
<1>3. WaitsForLive'
  BY DEF sessions, TablesInv, SessionsTyped, WaitsForLive
<1>4. OwnTable'
  BY DEF sessions, TablesInv, OwnTable, Active
<1>5. QED
  BY <1>1, <1>2, <1>3, <1>4 DEF TablesInv

LEMMA OpenTableKeepsInv ==
  ASSUME TablesInv, NEW t \in Table, NEW s \in Session, OpenTable(t, s)
  PROVE  TablesInv'
<1>1. SessionsTyped' /\ EffectsFollowSales' /\ WaitsForLive'
  BY DEF OpenTable, bills, effects, TablesInv, SessionsTyped, EffectsFollowSales, FinishIsDue,
         WaitsForLive
<1>2. OwnTable'
  BY DEF OpenTable, FreeTable, TablesInv, SessionsTyped, OwnTable, Active
<1>3. QED
  BY <1>1, <1>2 DEF TablesInv

LEMMA TransferTableKeepsInv ==
  ASSUME TablesInv, NEW t \in Table, NEW s \in Session, TransferTable(s, t)
  PROVE  TablesInv'
<1>1. SessionsTyped' /\ EffectsFollowSales' /\ WaitsForLive'
  BY DEF TransferTable, bills, effects, TablesInv, SessionsTyped, EffectsFollowSales, FinishIsDue,
         WaitsForLive
<1>2. OwnTable'
  BY DEF TransferTable, FreeTable, TablesInv, SessionsTyped, OwnTable, Active
<1>3. QED
  BY <1>1, <1>2 DEF TablesInv

\* The sale is new, so that no effect of it has been seen.
LEMMA CheckoutToSaleKeepsInv ==
  ASSUME TablesInv, NEW s \in Session, NEW b \in Sale, CheckoutToSale(s, b)
  PROVE  TablesInv'
<1>1. saleStatus[b] = "NONE" /\ b \notin finished /\ b \notin reopened
  BY DEF CheckoutToSale, OpenSale, TablesInv, EffectsFollowSales
<1>2. SessionsTyped'
  BY DEF CheckoutToSale, OpenSale, TablesInv, SessionsTyped
<1>3. EffectsFollowSales'
  BY <1>1 DEF CheckoutToSale, OpenSale, effects, TablesInv, SessionsTyped, EffectsFollowSales,
              FinishIsDue
<1>4. WaitsForLive'
  BY <1>1 DEF CheckoutToSale, OpenSale, effects, TablesInv, SessionsTyped, WaitsForLive
<1>5. OwnTable'
  BY DEF CheckoutToSale, TablesInv, SessionsTyped, OwnTable, Active
<1>6. QED
  BY <1>2, <1>3, <1>4, <1>5 DEF TablesInv

LEMMA CreateItemSettlementKeepsInv ==
  ASSUME TablesInv, NEW s \in Session, NEW b \in Sale, NEW part, CreateItemSettlement(s, b, part)
  PROVE  TablesInv'
<1>1. saleStatus[b] = "NONE" /\ b \notin finished /\ b \notin reopened
  BY DEF CreateItemSettlement, OpenSale, TablesInv, EffectsFollowSales
<1>2. QED
  BY <1>1, SaleMoves DEF CreateItemSettlement, OpenSale, sessions, effects

\* A session that is closed waits for nothing.
LEMMA CompleteSettlementKeepsInv ==
  ASSUME TablesInv, NEW b \in Sale, CompleteSettlement(b)
  PROVE  TablesInv'
<1>1. b \notin finished /\ b \notin reopened
  BY DEF CompleteSettlement, TablesInv, EffectsFollowSales
<1>2. SessionsTyped'
  BY DEF CompleteSettlement, TablesInv, SessionsTyped
<1>3. EffectsFollowSales'
  BY <1>1 DEF CompleteSettlement, effects, TablesInv, SessionsTyped, EffectsFollowSales, FinishIsDue
<1>4. \A s \in Session : sessionStatus'[s] \in {sessionStatus[s], "CLOSED"}
  BY DEF CompleteSettlement, TablesInv, SessionsTyped
<1>5. WaitsForLive'
  BY <1>4 DEF CompleteSettlement, effects, TablesInv, SessionsTyped, WaitsForLive
<1>6. OwnTable'
  BY <1>4 DEF CompleteSettlement, TablesInv, OwnTable, Active
<1>7. QED
  BY <1>2, <1>3, <1>5, <1>6 DEF TablesInv

LEMMA MergeSessionsKeepsInv ==
  ASSUME TablesInv, NEW from \in Session, NEW into \in Session, MergeSessions(from, into)
  PROVE  TablesInv'
<1>1. SessionsTyped' /\ EffectsFollowSales' /\ WaitsForLive'
  BY DEF MergeSessions, bills, effects, TablesInv, SessionsTyped, EffectsFollowSales, FinishIsDue,
         WaitsForLive
<1>2. OwnTable'
  BY DEF MergeSessions, TablesInv, SessionsTyped, OwnTable, Active
<1>3. QED
  BY <1>1, <1>2 DEF TablesInv

LEMMA CompleteSaleKeepsInv ==
  ASSUME TablesInv, NEW b \in Sale, CompleteSale(b)
  PROVE  TablesInv'
<1>1. b \notin finished /\ b \notin reopened
  BY DEF CompleteSale, TablesInv, EffectsFollowSales
<1>2. QED
  BY <1>1, SaleMoves DEF CompleteSale, effects, sessions

\* Of a paid sale the effect may have been seen, and the cancellation's is to come.
LEMMA CancelSaleKeepsInv ==
  ASSUME TablesInv, NEW b \in Sale, CancelSale(b)
  PROVE  TablesInv'
<1>1. b \notin reopened
  BY DEF CancelSale, TablesInv, EffectsFollowSales
<1>2. CASE saleStatus[b] = "OPEN"
  <2>1. saleStatus' = [saleStatus EXCEPT ![b] = "VOIDED"] /\ b \notin finished
    BY <1>2 DEF CancelSale, TablesInv, EffectsFollowSales
  <2>2. QED
    BY <1>1, <2>1, SaleMoves DEF CancelSale, effects, sessions
<1>3. CASE saleStatus[b] = "COMPLETED"
  <2>1. saleStatus' = [saleStatus EXCEPT ![b] = "CANCELLED"]
    BY <1>3 DEF CancelSale
  <2>2. QED
    BY <1>1, <2>1, SaleMoves DEF CancelSale, effects, sessions
<1>4. QED
  BY <1>2, <1>3 DEF CancelSale

\* Every session that waited for the sale is closed by its effect.
LEMMA FinalizeCompletedSaleKeepsInv ==
  ASSUME TablesInv, NEW b \in Sale, FinalizeCompletedSale(b)
  PROVE  TablesInv'
<1>1. SessionsTyped'
  BY DEF FinalizeCompletedSale, bills, TablesInv, SessionsTyped
<1>2. EffectsFollowSales'
  BY DEF FinalizeCompletedSale, FinishIsDue, bills, TablesInv, EffectsFollowSales
<1>3. WaitsForLive'
  BY DEF FinalizeCompletedSale, WaitsFor, bills, TablesInv, SessionsTyped, WaitsForLive
<1>4. OwnTable'
  BY DEF FinalizeCompletedSale, TablesInv, SessionsTyped, OwnTable, Active
<1>5. QED
  BY <1>1, <1>2, <1>3, <1>4 DEF TablesInv

\* Every session that waited for the sale is open again.
LEMMA ReopenCancelledCheckoutKeepsInv ==
  ASSUME TablesInv, NEW b \in Sale, ReopenCancelledCheckout(b)
  PROVE  TablesInv'
<1>1. SessionsTyped'
  BY DEF ReopenCancelledCheckout, bills, TablesInv, SessionsTyped
<1>2. EffectsFollowSales'
  BY DEF ReopenCancelledCheckout, ReopenIsDue, FinishIsDue, bills, TablesInv, EffectsFollowSales
<1>3. WaitsForLive'
  BY DEF ReopenCancelledCheckout, WaitsFor, bills, TablesInv, SessionsTyped, WaitsForLive
<1>4. OwnTable'
  <2>1. \A s \in Session : Active(s)' <=> Active(s)
    BY DEF ReopenCancelledCheckout, WaitsFor, TablesInv, SessionsTyped, Active
  <2>2. QED
    BY <2>1 DEF ReopenCancelledCheckout, TablesInv, OwnTable
<1>5. QED
  BY <1>1, <1>2, <1>3, <1>4 DEF TablesInv

LEMMA SessionStepKeepsInv ==
  ASSUME TablesInv, NEW s \in Session, SessionStep(s)
  PROVE  TablesInv'
<1>1. ASSUME NEW l \in Line, NEW n \in 1..MaxQuantity, AddOrder(s, l, n)
      PROVE  TablesInv'
  BY <1>1, LinesKeepInv DEF AddOrder, bills, effects
<1>2. ASSUME NEW target \in Session, NEW l \in Line, NEW new \in Line, NEW n \in 1..MaxQuantity,
             TransferItems(s, target, l, new, n)
      PROVE  TablesInv'
  BY <1>2, LinesKeepInv DEF TransferItems, bills, effects
<1>3. QED
  BY <1>1, <1>2, OpenTableKeepsInv, TransferTableKeepsInv, CheckoutToSaleKeepsInv,
     CreateItemSettlementKeepsInv, MergeSessionsKeepsInv
  DEF SessionStep

LEMMA TablesNextKeepsInv ==
  ASSUME TablesInv, [TablesNext]_tableVars
  PROVE  TablesInv'
<1>1. CASE UNCHANGED tableVars
  BY <1>1, LinesKeepInv DEF tableVars, bills, effects
<1>2. ASSUME NEW l \in Line, CancelOrderItem(l)
      PROVE  TablesInv'
  BY <1>2, LinesKeepInv DEF CancelOrderItem, bills, effects
<1>3. ASSUME NEW b \in Sale, SaleStep(b)
      PROVE  TablesInv'
  BY <1>3, CompleteSettlementKeepsInv, CompleteSaleKeepsInv, CancelSaleKeepsInv,
     FinalizeCompletedSaleKeepsInv, ReopenCancelledCheckoutKeepsInv
  DEF SaleStep
<1>4. QED
  BY <1>1, <1>2, <1>3, SessionStepKeepsInv DEF TablesNext

(* A table waits only for a sale that is open or whose effect is to come,  *)
(* whatever is merged, transferred, settled and cancelled meanwhile.       *)
THEOREM CheckoutStaysLive == TablesSpec => []CheckoutIsLive
<1>1. ASSUME TablesInv
      PROVE  CheckoutIsLive
  <2>1. ASSUME NEW s \in Session, sessionStatus[s] = "CHECKOUT"
        PROVE  checkoutSale[s] \in Sale /\ NotSettled(checkoutSale[s])
    BY <1>1, <2>1 DEF TablesInv, SessionsTyped, WaitsForLive, NotSettled, FinishIsDue, ReopenIsDue
  <2>2. QED
    BY <1>1, <2>1 DEF TablesInv, OwnTable, CheckoutIsLive, NotSettled
<1>2. QED
  BY <1>1, TablesInitKeepsInv, TablesNextKeepsInv, PTL DEF TablesSpec

-----------------------------------------------------------------------------
(* What the tables are billed.                                             *)

\* A settlement bills lines its session has, and keeps.
PartsOfTheirSession ==
  \A b \in Sale :
    /\ settlement[b] = "NONE" <=> settles[b] = NoSession
    /\ saleStatus[b] = "NONE" => settlement[b] = "NONE" /\ billed[b] = NoPieces
    /\ settlement[b] # "NONE" =>
         \A l \in Line : billed[b][l] > 0 => lineOf[l] = settles[b] /\ l \notin struck

PartsWithin == \A l \in Line : Settled(l) <= pieces[l]

NoCheckoutYet ==
  \A s \in Session : sessionStatus[s] \in {"NONE", "OPEN"} => checkoutSale[s] = NoSale

\* Unless bills were tangled, a checkout bills whole lines of its session, which
\* no settlement has.
WholeLines ==
  \A b \in Sale, l \in Line :
    saleStatus[b] \in {"OPEN", "COMPLETED"} /\ settlement[b] = "NONE" /\ billed[b][l] > 0 =>
      /\ lineOf[l] \in Session /\ checkoutSale[lineOf[l]] = b
      /\ billed[b][l] = pieces[l] /\ Settled(l) = 0

\* ... and all of them.
WholeSessions ==
  \A s \in Session, l \in Line :
    sessionStatus[s] = "CHECKOUT" /\ l \in Owed(s) => billed[checkoutSale[s]][l] = pieces[l]

BillsInv ==
  /\ TablesInv /\ TablesTypeOK
  /\ PartsOfTheirSession /\ PartsWithin /\ NoCheckoutYet
  /\ ~tangled => WholeLines /\ WholeSessions
  /\ ClosedIsBilled

LEMMA BilledIsNat ==
  ASSUME TablesTypeOK, NEW l \in Line, NEW b \in Sale
  PROVE  BilledOf(l)[b] = billed[b][l] /\ billed[b][l] \in Nat
  BY TablesAssumption DEF TablesTypeOK, BilledOf, Part

LEMMA BillsAddUp ==
  ASSUME TablesTypeOK, NEW l \in Line, NEW S \in SUBSET Sale
  PROVE  /\ IsFiniteSet(S)
         /\ SumFunctionOnSet(BilledOf(l), S) \in Nat
         /\ \A T \in SUBSET S : SumFunctionOnSet(BilledOf(l), T) <= SumFunctionOnSet(BilledOf(l), S)
         /\ \A b \in S : billed[b][l] <= SumFunctionOnSet(BilledOf(l), S)
         /\ (\A b \in S : billed[b][l] = 0) => SumFunctionOnSet(BilledOf(l), S) = 0
<1>1. IsFiniteSet(S)
  BY TablesAssumption, FS_Subset
<1>2. \A b \in S : BilledOf(l)[b] = billed[b][l] /\ BilledOf(l)[b] \in Nat
  BY BilledIsNat
<1>3. SumFunctionOnSet(BilledOf(l), S) \in Nat
  BY <1>1, <1>2, SumIsNat
<1>4. \A T \in SUBSET S : SumFunctionOnSet(BilledOf(l), T) <= SumFunctionOnSet(BilledOf(l), S)
  BY <1>1, <1>2, SumOfPart
<1>5. ASSUME NEW b \in S
      PROVE  billed[b][l] <= SumFunctionOnSet(BilledOf(l), S)
  <2>1. \A x \in S : BilledOf(l)[x] \in Int
    BY <1>2
  <2>2. SumFunctionOnSet(BilledOf(l), S)
          = BilledOf(l)[b] + SumFunctionOnSet(BilledOf(l), S \ {b})
    BY <1>1, <2>1, SumRemove
  <2>3. IsFiniteSet(S \ {b}) /\ \A x \in S \ {b} : BilledOf(l)[x] \in Nat
    BY <1>1, <1>2, FS_Subset
  <2>4. SumFunctionOnSet(BilledOf(l), S \ {b}) \in Nat
    BY <2>3, SumIsNat
  <2>5. QED
    BY <1>2, <2>2, <2>4
<1>6. ASSUME \A b \in S : billed[b][l] = 0
      PROVE  SumFunctionOnSet(BilledOf(l), S) = 0
  <2>1. \A b \in S : BilledOf(l)[b] = 0
    BY <1>2, <1>6
  <2>2. QED
    BY <1>1, <2>1, SumOfZeros
<1>7. QED
  BY <1>1, <1>3, <1>4, <1>5, <1>6

LEMMA SettledAddsUp ==
  ASSUME TablesTypeOK, NEW l \in Line
  PROVE  /\ Settled(l) \in Nat
         /\ \A b \in Parts : billed[b][l] <= Settled(l)
         /\ Settled(l) # 0 => \E b \in Parts : billed[b][l] > 0
<1>1. Parts \in SUBSET Sale
  BY DEF Parts
<1>2. /\ Settled(l) \in Nat
      /\ \A b \in Parts : billed[b][l] <= Settled(l)
      /\ (\A b \in Parts : billed[b][l] = 0) => Settled(l) = 0
  BY <1>1, BillsAddUp DEF Settled
<1>3. \A b \in Parts : billed[b][l] \in Nat
  BY <1>1, BilledIsNat
<1>4. QED
  BY <1>2, <1>3

\* A line is in one checkout, and then in no settlement, or only in settlements.
LEMMA AskedWithin ==
  ASSUME BillsInv, ~tangled, NEW l \in Line
  PROVE  Asked(l) <= pieces[l]
<1> DEFINE L == {b \in Sale : saleStatus[b] \in {"OPEN", "COMPLETED"}}
<1>1. TablesTypeOK /\ WholeLines /\ Settled(l) <= pieces[l] /\ L \in SUBSET Sale
      /\ pieces[l] \in Nat
  BY TablesAssumption DEF BillsInv, PartsWithin, TablesTypeOK
<1>2. CASE \E b \in L : settlement[b] = "NONE" /\ billed[b][l] > 0
  <2>1. PICK b \in L : settlement[b] = "NONE" /\ billed[b][l] > 0
    BY <1>2
  <2>2. checkoutSale[lineOf[l]] = b /\ billed[b][l] = pieces[l] /\ Settled(l) = 0
    BY <1>1, <2>1 DEF WholeLines
  <2>3. ASSUME NEW other \in L \ {b}
        PROVE  billed[other][l] = 0
    <3>1. billed[other][l] \in Nat
      BY <1>1, BilledIsNat
    <3>2. CASE settlement[other] = "NONE"
      BY <1>1, <2>2, <3>1, <3>2 DEF WholeLines
    <3>3. CASE settlement[other] # "NONE"
      BY <1>1, <2>2, <3>1, <3>3, SettledAddsUp DEF Parts
    <3>4. QED
      BY <3>2, <3>3
  <2>4. L \ {b} \in SUBSET Sale
    OBVIOUS
  <2>5. SumFunctionOnSet(BilledOf(l), L \ {b}) = 0
    BY <1>1, <2>3, <2>4, BillsAddUp
  <2>6. IsFiniteSet(L) /\ \A x \in L : BilledOf(l)[x] \in Int
    BY <1>1, BillsAddUp, BilledIsNat
  <2>7. SumFunctionOnSet(BilledOf(l), L)
          = BilledOf(l)[b] + SumFunctionOnSet(BilledOf(l), L \ {b})
    BY <2>6, SumRemove
  <2>8. BilledOf(l)[b] = billed[b][l] /\ billed[b][l] \in Nat
    BY <1>1, BilledIsNat
  <2>9. QED
    BY <1>1, <2>2, <2>5, <2>7, <2>8 DEF Asked
<1>3. CASE \A b \in L : settlement[b] = "NONE" => ~(billed[b][l] > 0)
  <2> DEFINE InParts == L \intersect Parts
             Rest == L \ Parts
  <2>1. InParts \in SUBSET Parts /\ Parts \in SUBSET Sale /\ InParts \in SUBSET Sale
        /\ Rest \in SUBSET Sale
    BY DEF Parts
  <2>2. \A b \in Rest : billed[b][l] = 0
    BY <1>1, <1>3, BilledIsNat DEF Parts
  <2>3. SumFunctionOnSet(BilledOf(l), Rest) = 0
    BY <1>1, <2>1, <2>2, BillsAddUp
  <2>4. SumFunctionOnSet(BilledOf(l), InParts) <= Settled(l)
        /\ SumFunctionOnSet(BilledOf(l), InParts) \in Nat /\ Settled(l) \in Nat
    BY <1>1, <2>1, BillsAddUp DEF Settled
  <2>5. /\ IsFiniteSet(InParts) /\ IsFiniteSet(Rest)
        /\ \A x \in InParts \union Rest : BilledOf(l)[x] \in Int
    BY <1>1, <2>1, BillsAddUp, BilledIsNat
  <2>6. InParts \intersect Rest = {} /\ InParts \union Rest = L
    OBVIOUS
  <2>7. SumFunctionOnSet(BilledOf(l), L)
          = SumFunctionOnSet(BilledOf(l), InParts) + SumFunctionOnSet(BilledOf(l), Rest)
    BY <2>5, <2>6, SumOfUnion
  <2>8. SumFunctionOnSet(BilledOf(l), L) <= pieces[l]
    BY <1>1, <2>3, <2>4, <2>7
  <2>9. QED
    BY <2>8 DEF Asked
<1>4. QED
  BY <1>2, <1>3

LEMMA TablesInitKeepsBills == TablesInit => BillsInv
<1> SUFFICES ASSUME TablesInit
             PROVE  BillsInv
  OBVIOUS
<1>1. TablesInv
  BY TablesInitKeepsInv
<1>2. TablesTypeOK
  <2>1. NoPieces \in Part /\ pieces \in [Line -> 0..MaxQuantity]
    BY TablesAssumption DEF TablesInit, NoPieces, Part
  <2>2. QED
    BY <2>1 DEF TablesInit, TablesTypeOK
<1>3. \A l \in Line : Settled(l) = 0
  <2>1. Parts = {}
    BY DEF TablesInit, Parts
  <2>2. QED
    BY <2>1, SumEmpty DEF Settled
<1>4. PartsOfTheirSession /\ NoCheckoutYet
  BY DEF TablesInit, PartsOfTheirSession, NoCheckoutYet, NoPieces
<1>5. PartsWithin
  BY <1>3, <1>2 DEF PartsWithin, TablesInit, NoPieces
<1>6. WholeLines /\ WholeSessions /\ ClosedIsBilled
  BY DEF TablesInit, WholeLines, WholeSessions, ClosedIsBilled
<1>7. QED
  BY <1>1, <1>2, <1>4, <1>5, <1>6 DEF BillsInv

\* Steps that change no line and no bill.
LEMMA LinesStayBilled ==
  ASSUME BillsInv, TablesInv', TablesTypeOK', UNCHANGED <<lines, billed, settles, tangled>>,
         \A b \in Sale :
           /\ settlement'[b] = "NONE" <=> settlement[b] = "NONE"
           /\ saleStatus'[b] = "NONE" <=> saleStatus[b] = "NONE"
           /\ saleStatus'[b] \in {"OPEN", "COMPLETED"} => saleStatus[b] \in {"OPEN", "COMPLETED"}
           /\ saleStatus[b] \in {"COMPLETED", "CANCELLED"} =>
                saleStatus'[b] \in {"COMPLETED", "CANCELLED"},
         NoCheckoutYet',
         \A s \in Session :
           /\ \/ checkoutSale'[s] = checkoutSale[s]
              \/ saleStatus'[checkoutSale[s]] \notin {"OPEN", "COMPLETED"}
           /\ sessionStatus'[s] = "CHECKOUT" =>
                sessionStatus[s] = "CHECKOUT" /\ checkoutSale'[s] = checkoutSale[s]
           /\ sessionStatus'[s] = "CLOSED" /\ sessionStatus[s] # "CLOSED" /\ ~tangled =>
                \A l \in Owed(s) : EverPaid(l) >= pieces[l] \/ Settled(l) = pieces[l]
  PROVE  BillsInv'
<1>1. Parts' = Parts
  BY DEF Parts
<1>2. \A l \in Line : BilledOf(l)' = BilledOf(l) /\ Settled(l)' = Settled(l)
  BY <1>1 DEF BilledOf, Settled
<1>3. PartsOfTheirSession' /\ PartsWithin'
  BY <1>2 DEF lines, BillsInv, PartsOfTheirSession, PartsWithin, NoPieces
<1>4. ASSUME ~tangled'
      PROVE  WholeLines' /\ WholeSessions'
  <2>1. ~tangled /\ WholeLines /\ WholeSessions
    BY <1>4 DEF BillsInv
  <2>2. WholeLines'
    BY <1>2, <2>1 DEF lines, WholeLines
  <2>3. WholeSessions'
    BY <2>1 DEF lines, WholeSessions, Owed
  <2>4. QED
    BY <2>2, <2>3
<1>5. ClosedIsBilled'
  <2>1. ASSUME NEW s \in Session, NEW l \in Line, ~tangled, sessionStatus'[s] = "CLOSED",
               l \in Owed(s)
        PROVE  EverPaid(l)' >= pieces[l] \/ Settled(l) = pieces[l]
    <3> DEFINE Paid == {b \in Sale : saleStatus[b] \in {"COMPLETED", "CANCELLED"}}
    <3>1. EverPaid(l) >= pieces[l] \/ Settled(l) = pieces[l]
      BY <2>1 DEF BillsInv, ClosedIsBilled
    <3>2. Paid \in SUBSET Paid' /\ Paid \in SUBSET Sale /\ Paid' \in SUBSET Sale
      OBVIOUS
    <3>3. /\ SumFunctionOnSet(BilledOf(l), Paid) <= SumFunctionOnSet(BilledOf(l), Paid')
          /\ SumFunctionOnSet(BilledOf(l), Paid) \in Nat
          /\ SumFunctionOnSet(BilledOf(l), Paid') \in Nat
      BY <3>2, BillsAddUp DEF BillsInv
    <3>4. EverPaid(l) = SumFunctionOnSet(BilledOf(l), Paid)
          /\ EverPaid(l)' = SumFunctionOnSet(BilledOf(l), Paid')
      BY <1>2 DEF EverPaid
    <3>5. pieces[l] \in Nat
      BY TablesAssumption DEF BillsInv, TablesTypeOK
    <3>6. QED
      BY <3>1, <3>3, <3>4, <3>5
  <2>2. QED
    BY <1>2, <2>1 DEF lines, ClosedIsBilled, Owed
<1>6. QED
  BY <1>3, <1>4, <1>5 DEF BillsInv

\* Steps of the lines: those that are settled, or of a session that was billed, stay.
LEMMA BillsStayLined ==
  ASSUME BillsInv, TablesInv', TablesTypeOK',
         UNCHANGED <<checkoutSale, bills, settlements>>, tangled => tangled',
         \A l \in Line :
           /\ Settled(l) <= pieces'[l]
           /\ Settled(l) > 0 => lineOf'[l] = lineOf[l] /\ (l \in struck' => l \in struck),
         NoCheckoutYet',
         ~tangled' => \A s \in Session, l \in Line :
           sessionStatus[s] \in {"CHECKOUT", "CLOSED"} /\ lineOf[l] = s =>
             lineOf'[l] = s /\ pieces'[l] = pieces[l],
         ~tangled' => \A s \in Session, l \in Line :
           sessionStatus'[s] \in {"CHECKOUT", "CLOSED"} /\ l \in Owed(s)' =>
             l \in Owed(s) /\ sessionStatus'[s] = sessionStatus[s]
  PROVE  BillsInv'
<1>1. Parts' = Parts /\ \A l \in Line : Settled(l)' = Settled(l) /\ EverPaid(l)' = EverPaid(l)
  BY DEF Parts, Settled, EverPaid, BilledOf, bills, settlements
<1>2. PartsWithin'
  BY <1>1 DEF PartsWithin
<1>3. PartsOfTheirSession'
  <2>1. ASSUME NEW b \in Sale, settlement[b] # "NONE", NEW l \in Line, billed[b][l] > 0
        PROVE  lineOf'[l] = settles[b] /\ l \notin struck'
    <3>1. billed[b][l] <= Settled(l) /\ Settled(l) \in Nat /\ billed[b][l] \in Nat
      BY <2>1, SettledAddsUp, BilledIsNat DEF Parts, BillsInv
    <3>2. Settled(l) > 0
      BY <2>1, <3>1
    <3>3. QED
      BY <2>1, <3>2 DEF BillsInv, PartsOfTheirSession
  <2>2. QED
    BY <2>1 DEF bills, settlements, BillsInv, PartsOfTheirSession, NoPieces
<1>4. ASSUME ~tangled'
      PROVE  WholeLines' /\ WholeSessions'
  <2>1. ~tangled /\ WholeLines /\ WholeSessions
    BY <1>4 DEF BillsInv
  <2>2. WholeLines'
    <3>1. ASSUME NEW b \in Sale, NEW l \in Line, saleStatus[b] \in {"OPEN", "COMPLETED"},
                 settlement[b] = "NONE", billed[b][l] > 0
          PROVE  /\ lineOf'[l] \in Session /\ checkoutSale[lineOf'[l]] = b
                 /\ billed[b][l] = pieces'[l] /\ Settled(l) = 0
      <4>1. /\ lineOf[l] \in Session /\ checkoutSale[lineOf[l]] = b
            /\ billed[b][l] = pieces[l] /\ Settled(l) = 0
        BY <2>1, <3>1 DEF WholeLines
      <4>2. sessionStatus[lineOf[l]] \in {"CHECKOUT", "CLOSED"}
        BY <4>1, TablesAssumption DEF BillsInv, NoCheckoutYet, TablesTypeOK
      <4>3. QED
        BY <1>4, <4>1, <4>2
    <3>2. QED
      BY <1>1, <3>1 DEF bills, settlements, WholeLines
  <2>3. WholeSessions'
    <3>1. ASSUME NEW s \in Session, NEW l \in Line, sessionStatus'[s] = "CHECKOUT",
                 l \in Owed(s)'
          PROVE  billed[checkoutSale[s]][l] = pieces'[l]
      <4>1. l \in Owed(s) /\ sessionStatus[s] = "CHECKOUT" /\ pieces'[l] = pieces[l]
        BY <1>4, <3>1 DEF Owed
      <4>2. QED
        BY <2>1, <4>1 DEF WholeSessions
    <3>2. QED
      BY <3>1 DEF bills, WholeSessions
  <2>4. QED
    BY <2>2, <2>3
<1>5. ClosedIsBilled'
  <2>1. ASSUME ~tangled', NEW s \in Session, NEW l \in Line, sessionStatus'[s] = "CLOSED",
               l \in Owed(s)'
        PROVE  EverPaid(l) >= pieces'[l] \/ Settled(l) = pieces'[l]
    <3>1. ~tangled /\ l \in Owed(s) /\ sessionStatus[s] = "CLOSED" /\ pieces'[l] = pieces[l]
      BY <2>1 DEF Owed
    <3>2. QED
      BY <3>1 DEF BillsInv, ClosedIsBilled
  <2>2. QED
    BY <1>1, <2>1 DEF ClosedIsBilled
<1>6. QED
  BY <1>2, <1>3, <1>4, <1>5 DEF BillsInv

LEMMA TablesStepKeepsBills ==
  ASSUME BillsInv, TablesInv', NEW s \in Session, NEW t \in Table,
         OpenTable(t, s) \/ TransferTable(s, t)
  PROVE  BillsInv'
<1>1. UNCHANGED <<checkoutSale, lines, bills, settlements, effects, tangled>>
  BY DEF OpenTable, TransferTable
<1>2. \/ UNCHANGED sessionStatus
      \/ sessionStatus[s] = "NONE" /\ sessionStatus' = [sessionStatus EXCEPT ![s] = "OPEN"]
  BY DEF OpenTable, TransferTable
<1>3. tableOf' = [tableOf EXCEPT ![s] = t]
  BY DEF OpenTable, TransferTable
<1>4. \A r \in Session :
        \/ sessionStatus'[r] = sessionStatus[r]
        \/ sessionStatus[r] = "NONE" /\ sessionStatus'[r] = "OPEN"
  BY <1>2 DEF BillsInv, TablesTypeOK
<1>5. TablesTypeOK'
  <2>1. sessionStatus' \in [Session -> {"NONE", "OPEN", "CHECKOUT", "CLOSED"}]
    BY <1>2 DEF BillsInv, TablesTypeOK
  <2>2. tableOf' \in [Session -> Table \union {NoTable}]
    BY <1>3 DEF BillsInv, TablesTypeOK
  <2>3. QED
    BY <1>1, <2>1, <2>2 DEF BillsInv, TablesTypeOK, lines, bills, settlements, effects
<1>6. NoCheckoutYet'
  BY <1>1, <1>4 DEF BillsInv, NoCheckoutYet
<1>7. QED
  BY <1>1, <1>4, <1>5, <1>6, LinesStayBilled DEF bills, settlements

\* A session that a settlement closes has nothing left that is in none.
LEMMA CompleteSettlementKeepsBills ==
  ASSUME BillsInv, TablesInv', NEW b \in Sale, CompleteSettlement(b)
  PROVE  BillsInv'
<1> DEFINE s == settles[b]
<1>1. /\ UNCHANGED <<tableOf, checkoutSale, lines, billed, settles, effects, tangled>>
      /\ settlement[b] = "OPEN" /\ saleStatus[b] = "OPEN"
      /\ saleStatus' = [saleStatus EXCEPT ![b] = "COMPLETED"]
      /\ settlement' = [settlement EXCEPT ![b] = "COMPLETED"]
      /\ sessionStatus' = [sessionStatus EXCEPT ![s] = IF NothingRemains(s) THEN "CLOSED" ELSE @]
  BY DEF CompleteSettlement
<1>2. TablesTypeOK'
  BY <1>1 DEF BillsInv, TablesTypeOK, lines, effects
<1>3. \A r \in Session : sessionStatus'[r] \in {sessionStatus[r], "CLOSED"}
  BY <1>1 DEF BillsInv, TablesTypeOK
<1>4. NoCheckoutYet'
  BY <1>1, <1>3 DEF BillsInv, NoCheckoutYet
<1>5. ASSUME NEW r \in Session, sessionStatus'[r] = "CLOSED", sessionStatus[r] # "CLOSED",
             NEW l \in Owed(r)
      PROVE  Settled(l) = pieces[l]
  <2>1. r = s /\ NothingRemains(s)
    BY <1>1, <1>5 DEF BillsInv, TablesTypeOK
  <2>2. pieces[l] - Settled(l) = 0 /\ l \in Line
    BY <1>5, <2>1 DEF NothingRemains, Remaining, Owed
  <2>3. pieces[l] \in Nat /\ Settled(l) \in Nat
    BY <2>2, SettledAddsUp, TablesAssumption DEF BillsInv, TablesTypeOK
  <2>4. QED
    BY <2>2, <2>3
<1>6. \A c \in Sale :
        /\ settlement'[c] = "NONE" <=> settlement[c] = "NONE"
        /\ saleStatus'[c] = "NONE" <=> saleStatus[c] = "NONE"
        /\ saleStatus'[c] \in {"OPEN", "COMPLETED"} => saleStatus[c] \in {"OPEN", "COMPLETED"}
        /\ saleStatus[c] \in {"COMPLETED", "CANCELLED"} =>
             saleStatus'[c] \in {"COMPLETED", "CANCELLED"}
  BY <1>1 DEF BillsInv, TablesTypeOK
<1>7. QED
  BY <1>1, <1>2, <1>3, <1>4, <1>5, <1>6, LinesStayBilled

LEMMA CounterKeepsBills ==
  ASSUME BillsInv, TablesInv', NEW b \in Sale, CompleteSale(b) \/ CancelSale(b)
  PROVE  BillsInv'
<1>1. UNCHANGED <<sessions, lines, billed, settlements, effects, tangled>>
  BY DEF CompleteSale, CancelSale
<1>2. \/ saleStatus[b] = "OPEN" /\ saleStatus' = [saleStatus EXCEPT ![b] = "COMPLETED"]
      \/ saleStatus[b] = "OPEN" /\ saleStatus' = [saleStatus EXCEPT ![b] = "VOIDED"]
      \/ saleStatus[b] = "COMPLETED" /\ saleStatus' = [saleStatus EXCEPT ![b] = "CANCELLED"]
  BY DEF CompleteSale, CancelSale
<1>3. TablesTypeOK'
  BY <1>1, <1>2 DEF BillsInv, TablesTypeOK, sessions, lines, settlements, effects
<1>4. \A c \in Sale :
        /\ saleStatus'[c] = "NONE" <=> saleStatus[c] = "NONE"
        /\ saleStatus'[c] \in {"OPEN", "COMPLETED"} => saleStatus[c] \in {"OPEN", "COMPLETED"}
        /\ saleStatus[c] \in {"COMPLETED", "CANCELLED"} =>
             saleStatus'[c] \in {"COMPLETED", "CANCELLED"}
  BY <1>2 DEF BillsInv, TablesTypeOK
<1>5. NoCheckoutYet'
  BY <1>1 DEF BillsInv, NoCheckoutYet, sessions
<1>6. QED
  BY <1>1, <1>3, <1>4, <1>5, LinesStayBilled DEF sessions, settlements

\* A session that is closed for a sale had its lines billed by it.
LEMMA FinalizeCompletedSaleKeepsBills ==
  ASSUME BillsInv, TablesInv', NEW b \in Sale, FinalizeCompletedSale(b)
  PROVE  BillsInv'
<1>1. /\ UNCHANGED <<tableOf, checkoutSale, lines, bills, settlements, reopened, tangled>>
      /\ saleStatus[b] \in {"COMPLETED", "CANCELLED"}
      /\ \A s \in Session :
           sessionStatus'[s] = IF WaitsFor(s, b) THEN "CLOSED" ELSE sessionStatus[s]
  BY DEF FinalizeCompletedSale, FinishIsDue
<1>2. TablesTypeOK'
  BY DEF FinalizeCompletedSale, BillsInv, TablesTypeOK, lines, bills, settlements
<1>3. NoCheckoutYet'
  BY <1>1 DEF BillsInv, NoCheckoutYet
<1>4. ASSUME NEW s \in Session, WaitsFor(s, b), ~tangled, NEW l \in Owed(s)
      PROVE  EverPaid(l) >= pieces[l]
  <2> DEFINE Paid == {c \in Sale : saleStatus[c] \in {"COMPLETED", "CANCELLED"}}
  <2>1. l \in Line /\ billed[b][l] = pieces[l]
    BY <1>4 DEF WaitsFor, BillsInv, WholeSessions, Owed
  <2>2. Paid \in SUBSET Sale /\ b \in Paid
    BY <1>1
  <2>3. billed[b][l] <= SumFunctionOnSet(BilledOf(l), Paid)
        /\ SumFunctionOnSet(BilledOf(l), Paid) \in Nat /\ billed[b][l] \in Nat
    BY <2>1, <2>2, BillsAddUp, BilledIsNat DEF BillsInv
  <2>4. QED
    BY <2>1, <2>3 DEF EverPaid
<1>5. \A s \in Session :
        /\ sessionStatus'[s] = "CHECKOUT" => sessionStatus[s] = "CHECKOUT"
        /\ sessionStatus'[s] = "CLOSED" /\ sessionStatus[s] # "CLOSED" => WaitsFor(s, b)
  BY <1>1
<1>6. QED
  BY <1>1, <1>2, <1>3, <1>4, <1>5, LinesStayBilled DEF bills, settlements

LEMMA ReopenCancelledCheckoutKeepsBills ==
  ASSUME BillsInv, TablesInv', NEW b \in Sale, ReopenCancelledCheckout(b)
  PROVE  BillsInv'
<1>1. /\ UNCHANGED <<tableOf, lines, bills, settlements, finished, tangled>>
      /\ saleStatus[b] \notin {"OPEN", "COMPLETED"}
      /\ \A s \in Session :
           /\ sessionStatus'[s] = IF WaitsFor(s, b) THEN "OPEN" ELSE sessionStatus[s]
           /\ checkoutSale'[s] = IF WaitsFor(s, b) THEN NoSale ELSE checkoutSale[s]
  BY DEF ReopenCancelledCheckout, ReopenIsDue
<1>2. TablesTypeOK'
  BY DEF ReopenCancelledCheckout, BillsInv, TablesTypeOK, lines, bills, settlements
<1>3. NoCheckoutYet'
  BY <1>1 DEF BillsInv, NoCheckoutYet
<1>4. \A s \in Session :
        /\ \/ checkoutSale'[s] = checkoutSale[s]
           \/ saleStatus'[checkoutSale[s]] \notin {"OPEN", "COMPLETED"}
        /\ sessionStatus'[s] = "CHECKOUT" =>
             sessionStatus[s] = "CHECKOUT" /\ checkoutSale'[s] = checkoutSale[s]
        /\ sessionStatus'[s] = "CLOSED" => sessionStatus[s] = "CLOSED"
  BY <1>1 DEF WaitsFor, bills
<1>5. QED
  BY <1>1, <1>2, <1>3, <1>4, LinesStayBilled DEF bills, settlements

-----------------------------------------------------------------------------
(* Steps that bill, or move lines.                                         *)

\* A new sale is in no sum but those that count it.
LEMMA NewBill ==
  ASSUME BillsInv, NEW b \in Sale, NEW asked, OpenSale(b, asked)
  PROVE  /\ settlement[b] = "NONE" /\ b \notin Parts
         /\ \A c \in Sale \ {b} : billed'[c] = billed[c] /\ saleStatus'[c] = saleStatus[c]
         /\ billed'[b] = asked /\ saleStatus'[b] = "OPEN" /\ saleStatus[b] = "NONE"
         /\ \A l \in Line : SumFunctionOnSet(BilledOf(l)', Parts) = Settled(l)
         /\ \A l \in Line : EverPaid(l)' = EverPaid(l)
         /\ \A s \in Session : sessionStatus[s] = "CHECKOUT" => checkoutSale[s] # b
<1>1. settlement[b] = "NONE" /\ b \notin Parts /\ saleStatus[b] = "NONE"
  BY DEF OpenSale, BillsInv, PartsOfTheirSession, Parts
<1>2. /\ \A c \in Sale \ {b} : billed'[c] = billed[c] /\ saleStatus'[c] = saleStatus[c]
      /\ billed'[b] = asked /\ saleStatus'[b] = "OPEN"
  BY DEF OpenSale, BillsInv, TablesTypeOK
<1>3. ASSUME NEW l \in Line, NEW S \in SUBSET Sale, b \notin S
      PROVE  SumFunctionOnSet(BilledOf(l), S) = SumFunctionOnSet(BilledOf(l)', S)
  <2>1. IsFiniteSet(S) /\ \A c \in S : BilledOf(l)[c] = (BilledOf(l)')[c]
    BY <1>2, <1>3, TablesAssumption, FS_Subset DEF BilledOf
  <2>2. QED
    BY <2>1, SumEqual
<1>4. \A l \in Line : SumFunctionOnSet(BilledOf(l)', Parts) = Settled(l)
  BY <1>1, <1>3 DEF Settled, Parts
<1>5. ASSUME NEW l \in Line
      PROVE  EverPaid(l)' = EverPaid(l)
  <2> DEFINE Paid == {c \in Sale : saleStatus[c] \in {"COMPLETED", "CANCELLED"}}
  <2>1. Paid' = Paid /\ b \notin Paid
    BY <1>1, <1>2
  <2>2. QED
    BY <1>3, <2>1 DEF EverPaid
<1>6. \A s \in Session : sessionStatus[s] = "CHECKOUT" => checkoutSale[s] # b
  BY <1>1 DEF BillsInv, TablesInv, WaitsForLive
<1>7. QED
  BY <1>1, <1>2, <1>4, <1>5, <1>6

\* Lines that no settlement has, unless there is an untangled one of them, pass to the sale.
LEMMA CheckoutToSaleKeepsBills ==
  ASSUME BillsInv, TablesInv', NEW s \in Session, NEW b \in Sale, CheckoutToSale(s, b)
  PROVE  BillsInv'
<1> DEFINE asked == [l \in Line |-> IF l \in Owed(s) THEN pieces[l] ELSE 0]
<1>1. /\ checkoutSale[s] = NoSale /\ OpenSale(b, asked)
      /\ sessionStatus' = [sessionStatus EXCEPT ![s] = "CHECKOUT"]
      /\ checkoutSale' = [checkoutSale EXCEPT ![s] = b]
      /\ tangled' = (tangled \/ \E l \in Owed(s) : Settled(l) > 0)
      /\ UNCHANGED <<tableOf, lines, settlements, effects>>
  BY DEF CheckoutToSale
<1>2. /\ settlement[b] = "NONE" /\ b \notin Parts
      /\ \A c \in Sale \ {b} : billed'[c] = billed[c] /\ saleStatus'[c] = saleStatus[c]
      /\ billed'[b] = asked /\ saleStatus'[b] = "OPEN" /\ saleStatus[b] = "NONE"
      /\ \A l \in Line : EverPaid(l)' = EverPaid(l)
      /\ \A r \in Session : sessionStatus[r] = "CHECKOUT" => checkoutSale[r] # b
  BY <1>1, NewBill
<1>3. \A l \in Line : Settled(l)' = Settled(l)
  <2>1. \A l \in Line : SumFunctionOnSet(BilledOf(l)', Parts) = Settled(l)
    BY <1>1, NewBill
  <2>2. Parts' = Parts
    BY <1>1 DEF Parts, settlements
  <2>3. QED
    BY <2>1, <2>2 DEF Settled
<1>4. TablesTypeOK'
  <2>1. asked \in Part
    BY TablesAssumption DEF Part, BillsInv, TablesTypeOK
  <2>2. saleStatus' \in [Sale -> {"NONE", "OPEN", "COMPLETED", "VOIDED", "CANCELLED"}]
        /\ billed' \in [Sale -> Part]
    BY <1>1, <2>1 DEF OpenSale, BillsInv, TablesTypeOK
  <2>3. /\ sessionStatus' \in [Session -> {"NONE", "OPEN", "CHECKOUT", "CLOSED"}]
        /\ checkoutSale' \in [Session -> Sale \union {NoSale}]
    BY <1>1 DEF BillsInv, TablesTypeOK
  <2>4. tangled' \in BOOLEAN
    BY <1>1 DEF BillsInv, TablesTypeOK
  <2>5. QED
    BY <1>1, <2>2, <2>3, <2>4 DEF BillsInv, TablesTypeOK, lines, settlements, effects
<1>5. PartsOfTheirSession'
  BY <1>1, <1>2 DEF BillsInv, PartsOfTheirSession, lines, settlements, NoPieces
<1>6. PartsWithin'
  BY <1>1, <1>3 DEF BillsInv, PartsWithin, lines
<1>7. NoCheckoutYet'
  BY <1>1 DEF BillsInv, TablesTypeOK, NoCheckoutYet
<1>8. /\ checkoutSale'[s] = b /\ sessionStatus'[s] = "CHECKOUT"
      /\ \A r \in Session \ {s} :
           checkoutSale'[r] = checkoutSale[r] /\ sessionStatus'[r] = sessionStatus[r]
  BY <1>1 DEF BillsInv, TablesTypeOK
<1>9. ASSUME ~tangled'
      PROVE  WholeLines' /\ WholeSessions'
  <2>1. /\ ~tangled /\ WholeLines /\ WholeSessions
        /\ \A l \in Owed(s) : Settled(l) = 0
    <3>1. ~tangled /\ \A l \in Owed(s) : ~(Settled(l) > 0)
      BY <1>1, <1>9
    <3>2. \A l \in Owed(s) : Settled(l) \in Nat
      BY SettledAddsUp DEF BillsInv, Owed
    <3>3. QED
      BY <3>1, <3>2 DEF BillsInv
  <2>2. ASSUME NEW c \in Sale, NEW l \in Line, saleStatus'[c] \in {"OPEN", "COMPLETED"},
               settlement[c] = "NONE", billed'[c][l] > 0
        PROVE  /\ lineOf[l] \in Session /\ checkoutSale'[lineOf[l]] = c
               /\ billed'[c][l] = pieces[l] /\ Settled(l) = 0
    <3>1. CASE c = b
      <4>1. l \in Owed(s) /\ lineOf[l] = s
        BY <1>2, <2>2, <3>1 DEF Owed
      <4>2. QED
        BY <1>2, <1>8, <2>1, <3>1, <4>1
    <3>2. CASE c # b
      <4>1. /\ lineOf[l] \in Session /\ checkoutSale[lineOf[l]] = c
            /\ billed[c][l] = pieces[l] /\ Settled(l) = 0
        BY <1>2, <2>1, <2>2, <3>2 DEF WholeLines
      <4>2. lineOf[l] # s
        BY <1>1, <4>1, TablesAssumption
      <4>3. QED
        BY <1>2, <1>8, <3>2, <4>1, <4>2
    <3>3. QED
      BY <3>1, <3>2
  <2>3. WholeLines'
    BY <1>1, <1>3, <2>2 DEF WholeLines, lines, settlements
  <2>4. ASSUME NEW r \in Session, NEW l \in Line, sessionStatus'[r] = "CHECKOUT", l \in Owed(r)
        PROVE  billed'[checkoutSale'[r]][l] = pieces[l]
    <3>1. CASE r = s
      BY <1>2, <1>8, <2>4, <3>1
    <3>2. CASE r # s
      <4>1. /\ sessionStatus[r] = "CHECKOUT" /\ checkoutSale'[r] = checkoutSale[r]
            /\ checkoutSale[r] \in Sale \ {b}
        BY <1>2, <1>8, <2>4, <3>2 DEF BillsInv, TablesInv, WaitsForLive
      <4>2. QED
        BY <1>2, <2>1, <2>4, <4>1 DEF WholeSessions
    <3>3. QED
      BY <3>1, <3>2
  <2>5. WholeSessions'
    BY <1>1, <2>4 DEF WholeSessions, Owed, lines
  <2>6. QED
    BY <2>3, <2>5
<1>10. ClosedIsBilled'
  <2>1. ASSUME ~tangled', NEW r \in Session, NEW l \in Line, sessionStatus'[r] = "CLOSED",
               l \in Owed(r)
        PROVE  EverPaid(l) >= pieces[l] \/ Settled(l) = pieces[l]
    BY <1>1, <1>8, <2>1 DEF BillsInv, ClosedIsBilled
  <2>2. QED
    BY <1>1, <1>2, <1>3, <2>1 DEF ClosedIsBilled, Owed, lines
<1>11. QED
  BY <1>4, <1>5, <1>6, <1>7, <1>9, <1>10 DEF BillsInv

\* What a settlement takes is left of its lines, and of no session that was billed.
LEMMA CreateItemSettlementKeepsBills ==
  ASSUME BillsInv, TablesInv', NEW s \in Session, NEW b \in Sale, NEW part \in Part,
         CreateItemSettlement(s, b, part)
  PROVE  BillsInv'
<1>1. /\ Active(s) /\ OpenSale(b, part)
      /\ settlement' = [settlement EXCEPT ![b] = "OPEN"]
      /\ settles' = [settles EXCEPT ![b] = s]
      /\ tangled' = (tangled \/ sessionStatus[s] = "CHECKOUT")
      /\ UNCHANGED <<sessions, lines, effects>>
  BY DEF CreateItemSettlement
<1>2. /\ settlement[b] = "NONE" /\ b \notin Parts
      /\ \A c \in Sale \ {b} : billed'[c] = billed[c] /\ saleStatus'[c] = saleStatus[c]
      /\ billed'[b] = part /\ saleStatus'[b] = "OPEN" /\ saleStatus[b] = "NONE"
      /\ \A l \in Line : EverPaid(l)' = EverPaid(l)
      /\ \A r \in Session : sessionStatus[r] = "CHECKOUT" => checkoutSale[r] # b
  BY <1>1, NewBill
<1>3. /\ settlement'[b] = "OPEN" /\ settles'[b] = s
      /\ \A c \in Sale \ {b} : settlement'[c] = settlement[c] /\ settles'[c] = settles[c]
  BY <1>1 DEF BillsInv, TablesTypeOK
<1>4. \A l \in Line : part[l] \in Nat
  BY TablesAssumption DEF Part
<1>5. \A l \in Line : l \notin Owed(s) => part[l] = 0
  <2>1. \A l \in Line : l \notin Owed(s) => part[l] <= 0
    BY DEF CreateItemSettlement, MaySettle, Remaining
  <2>2. QED
    BY <1>4, <2>1
<1>6. TablesTypeOK'
  <2>1. saleStatus' \in [Sale -> {"NONE", "OPEN", "COMPLETED", "VOIDED", "CANCELLED"}]
        /\ billed' \in [Sale -> Part]
    BY <1>1 DEF OpenSale, BillsInv, TablesTypeOK
  <2>2. /\ settlement' \in [Sale -> {"NONE", "OPEN", "COMPLETED"}]
        /\ settles' \in [Sale -> Session \union {NoSession}]
    BY <1>1 DEF BillsInv, TablesTypeOK
  <2>3. tangled' \in BOOLEAN
    BY <1>1 DEF BillsInv, TablesTypeOK
  <2>4. QED
    BY <1>1, <2>1, <2>2, <2>3 DEF BillsInv, TablesTypeOK, sessions, lines, effects
<1>7. \A l \in Line : Settled(l)' = part[l] + Settled(l)
  <2> SUFFICES ASSUME NEW l \in Line
               PROVE  Settled(l)' = part[l] + Settled(l)
    OBVIOUS
  <2>1. Parts' = Parts \union {b} /\ Parts \in SUBSET Sale
    BY <1>3 DEF Parts
  <2>2. SumFunctionOnSet(BilledOf(l)', Parts) = Settled(l)
    BY <1>1, NewBill
  <2>3. \A c \in Sale : (BilledOf(l)')[c] = billed'[c][l] /\ billed'[c][l] \in Nat
    BY <1>6, TablesAssumption DEF TablesTypeOK, BilledOf, Part
  <2>4. IsFiniteSet(Parts) /\ b \notin Parts
        /\ \A x \in Parts \union {b} : (BilledOf(l)')[x] \in Int
    BY <1>2, <2>1, <2>3, TablesAssumption, FS_Subset
  <2>5. SumFunctionOnSet(BilledOf(l)', Parts \union {b})
          = (BilledOf(l)')[b] + SumFunctionOnSet(BilledOf(l)', Parts)
    BY <2>4, SumAdd
  <2>6. Settled(l)' = SumFunctionOnSet(BilledOf(l)', Parts \union {b})
    BY <2>1 DEF Settled
  <2>7. QED
    BY <1>2, <2>2, <2>3, <2>5, <2>6
<1>8. PartsWithin'
  <2>1. ASSUME NEW l \in Line
        PROVE  part[l] + Settled(l) <= pieces[l]
    <3>1. part[l] <= Remaining(s, l)
      BY DEF CreateItemSettlement, MaySettle
    <3>2. Settled(l) \in Nat /\ pieces[l] \in Nat /\ Settled(l) <= pieces[l]
      BY SettledAddsUp, TablesAssumption DEF BillsInv, TablesTypeOK, PartsWithin
    <3>3. CASE l \in Owed(s)
      BY <1>4, <3>1, <3>2, <3>3 DEF Remaining
    <3>4. CASE l \notin Owed(s)
      BY <1>5, <3>2, <3>4
    <3>5. QED
      BY <3>3, <3>4
  <2>2. QED
    BY <1>1, <1>7, <2>1 DEF PartsWithin, lines
<1>9. PartsOfTheirSession'
  <2>1. \A c \in Sale :
          /\ settlement'[c] = "NONE" <=> settles'[c] = NoSession
          /\ saleStatus'[c] = "NONE" => settlement'[c] = "NONE" /\ billed'[c] = NoPieces
    BY <1>2, <1>3, TablesAssumption DEF BillsInv, PartsOfTheirSession
  <2>2. \A l \in Line : part[l] > 0 => lineOf[l] = s /\ l \notin struck
    BY <1>5 DEF Owed
  <2>3. \A c \in Sale : settlement'[c] # "NONE" =>
          \A l \in Line : billed'[c][l] > 0 => lineOf[l] = settles'[c] /\ l \notin struck
    BY <1>2, <1>3, <2>2 DEF BillsInv, PartsOfTheirSession
  <2>4. NoPieces' = NoPieces
    BY DEF NoPieces
  <2>5. QED
    BY <1>1, <2>1, <2>3, <2>4 DEF PartsOfTheirSession, lines
<1>10. NoCheckoutYet'
  BY <1>1 DEF BillsInv, NoCheckoutYet, sessions
<1>11. ASSUME ~tangled'
       PROVE  WholeLines' /\ WholeSessions'
  <2>1. ~tangled /\ WholeLines /\ WholeSessions /\ sessionStatus[s] = "OPEN" /\ checkoutSale[s] = NoSale
    BY <1>1, <1>11 DEF BillsInv, Active, NoCheckoutYet
  <2>2. ASSUME NEW c \in Sale, NEW l \in Line, saleStatus'[c] \in {"OPEN", "COMPLETED"},
               settlement'[c] = "NONE", billed'[c][l] > 0
        PROVE  /\ lineOf[l] \in Session /\ checkoutSale[lineOf[l]] = c
               /\ billed'[c][l] = pieces[l] /\ Settled(l)' = 0
    <3>1. c # b
      BY <1>3, <2>2
    <3>2. /\ lineOf[l] \in Session /\ checkoutSale[lineOf[l]] = c
          /\ billed'[c][l] = pieces[l] /\ Settled(l) = 0
      BY <1>2, <1>3, <2>1, <2>2, <3>1 DEF WholeLines
    <3>3. lineOf[l] # s
      BY <2>1, <3>2, TablesAssumption
    <3>4. part[l] = 0
      BY <1>5, <3>3 DEF Owed
    <3>5. QED
      BY <1>7, <3>2, <3>4
  <2>3. WholeLines'
    BY <1>1, <2>2 DEF WholeLines, lines, sessions
  <2>4. ASSUME NEW r \in Session, NEW l \in Line, sessionStatus[r] = "CHECKOUT", l \in Owed(r)
        PROVE  billed'[checkoutSale[r]][l] = pieces[l]
    <3>1. checkoutSale[r] \in Sale \ {b}
      BY <1>2, <2>4 DEF BillsInv, TablesInv, WaitsForLive
    <3>2. QED
      BY <1>2, <2>1, <2>4, <3>1 DEF WholeSessions
  <2>5. WholeSessions'
    BY <1>1, <2>4 DEF WholeSessions, Owed, lines, sessions
  <2>6. QED
    BY <2>3, <2>5
<1>12. ClosedIsBilled'
  <2>1. ASSUME ~tangled', NEW r \in Session, NEW l \in Line, sessionStatus[r] = "CLOSED",
               l \in Owed(r)
        PROVE  EverPaid(l) >= pieces[l] \/ Settled(l)' = pieces[l]
    <3>1. EverPaid(l) >= pieces[l] \/ Settled(l) = pieces[l]
      BY <1>1, <2>1 DEF BillsInv, ClosedIsBilled
    <3>2. l \notin Owed(s)
      BY <1>1, <2>1 DEF Owed, Active
    <3>3. Settled(l)' = Settled(l)
      <4>1. Settled(l) \in Nat
        BY SettledAddsUp DEF BillsInv
      <4>2. QED
        BY <1>5, <1>7, <3>2, <4>1
    <3>4. QED
      BY <3>1, <3>3
  <2>2. QED
    BY <1>1, <1>2, <2>1 DEF ClosedIsBilled, Owed, lines, sessions
<1>13. QED
  BY <1>6, <1>8, <1>9, <1>10, <1>11, <1>12 DEF BillsInv

LEMMA AddOrderKeepsBills ==
  ASSUME BillsInv, TablesInv', NEW s \in Session, NEW l \in Line, NEW n \in 1..MaxQuantity,
         AddOrder(s, l, n)
  PROVE  BillsInv'
<1>1. /\ UNCHANGED <<sessions, struck, bills, settlements, effects, tangled>>
      /\ sessionStatus[s] = "OPEN" /\ lineOf[l] = NoSession
      /\ lineOf' = [lineOf EXCEPT ![l] = s] /\ pieces' = [pieces EXCEPT ![l] = n]
  BY DEF AddOrder
<1>2. TablesTypeOK'
  BY <1>1, TablesAssumption DEF BillsInv, TablesTypeOK, sessions, bills, settlements, effects
<1>3. \A k \in Line \ {l} : lineOf'[k] = lineOf[k] /\ pieces'[k] = pieces[k]
  BY <1>1 DEF BillsInv, TablesTypeOK
<1>4. lineOf'[l] = s /\ pieces'[l] = n
  BY <1>1 DEF BillsInv, TablesTypeOK
<1>5. Settled(l) = 0
  <2>1. ASSUME NEW b \in Parts
        PROVE  ~(billed[b][l] > 0)
    BY <1>1, TablesAssumption DEF Parts, BillsInv, PartsOfTheirSession
  <2>2. QED
    BY <2>1, SettledAddsUp DEF BillsInv
<1>6. \A k \in Line : Settled(k) <= pieces'[k]
  BY <1>3, <1>4, <1>5 DEF BillsInv, PartsWithin
<1>7. NoCheckoutYet'
  BY <1>1 DEF BillsInv, NoCheckoutYet, sessions
<1>8. \A r \in Session, k \in Line : sessionStatus[r] \in {"CHECKOUT", "CLOSED"} =>
        /\ lineOf[k] = r => lineOf'[k] = r /\ pieces'[k] = pieces[k]
        /\ k \in Owed(r)' => k \in Owed(r)
  BY <1>1, <1>3, <1>4, TablesAssumption DEF Owed
<1>9. QED
  BY <1>1, <1>2, <1>3, <1>5, <1>6, <1>7, <1>8, BillsStayLined DEF sessions

LEMMA CancelOrderItemKeepsBills ==
  ASSUME BillsInv, TablesInv', NEW l \in Line, CancelOrderItem(l)
  PROVE  BillsInv'
<1>1. /\ UNCHANGED <<sessions, lineOf, pieces, bills, settlements, effects>>
      /\ Settled(l) = 0 /\ struck' = struck \union {l}
      /\ tangled' = (tangled \/ sessionStatus[lineOf[l]] = "CHECKOUT")
  BY DEF CancelOrderItem
<1>2. TablesTypeOK'
  <2>1. tangled' \in BOOLEAN
    BY <1>1 DEF BillsInv, TablesTypeOK
  <2>2. QED
    BY <1>1, <2>1 DEF BillsInv, TablesTypeOK, sessions, bills, settlements, effects
<1>3. NoCheckoutYet'
  BY <1>1 DEF BillsInv, NoCheckoutYet, sessions
<1>4. \A k \in Line : Settled(k) <= pieces[k] /\ (Settled(k) > 0 => k # l)
  BY <1>1 DEF BillsInv, PartsWithin
<1>5. \A r \in Session : Owed(r)' \subseteq Owed(r)
  BY <1>1 DEF Owed
<1>6. QED
  BY <1>1, <1>2, <1>3, <1>4, <1>5, BillsStayLined DEF sessions

LEMMA MergeSessionsKeepsBills ==
  ASSUME BillsInv, TablesInv', NEW from \in Session, NEW into \in Session,
         MergeSessions(from, into)
  PROVE  BillsInv'
<1>1. /\ from # into /\ Active(from) /\ Active(into)
      /\ \A b \in Sale : settles[b] # from
      /\ lineOf' = [l \in Line |-> IF lineOf[l] = from THEN into ELSE lineOf[l]]
      /\ sessionStatus' = [sessionStatus EXCEPT ![from] = "CLOSED"]
      /\ tangled' = (tangled \/ "CHECKOUT" \in {sessionStatus[from], sessionStatus[into]})
      /\ UNCHANGED <<tableOf, checkoutSale, pieces, struck, bills, settlements, effects>>
  BY DEF MergeSessions
<1>2. TablesTypeOK'
  <2>1. tangled' \in BOOLEAN
    BY <1>1 DEF BillsInv, TablesTypeOK
  <2>2. lineOf' \in [Line -> Session \union {NoSession}]
    BY <1>1 DEF BillsInv, TablesTypeOK
  <2>3. sessionStatus' \in [Session -> {"NONE", "OPEN", "CHECKOUT", "CLOSED"}]
    BY <1>1 DEF BillsInv, TablesTypeOK
  <2>4. QED
    BY <1>1, <2>1, <2>2, <2>3 DEF BillsInv, TablesTypeOK, bills, settlements, effects
<1>3. \A r \in Session : sessionStatus'[r] = IF r = from THEN "CLOSED" ELSE sessionStatus[r]
  BY <1>1 DEF BillsInv, TablesTypeOK
<1>4. NoCheckoutYet'
  BY <1>1, <1>3 DEF BillsInv, NoCheckoutYet
<1>5. ASSUME NEW l \in Line, Settled(l) > 0
      PROVE  lineOf'[l] = lineOf[l]
  <2>1. PICK b \in Parts : billed[b][l] > 0
    BY <1>5, SettledAddsUp DEF BillsInv
  <2>2. lineOf[l] = settles[b] /\ b \in Sale
    BY <2>1 DEF Parts, BillsInv, PartsOfTheirSession
  <2>3. QED
    BY <1>1, <2>2
<1>6. ASSUME ~tangled'
      PROVE  sessionStatus[from] = "OPEN" /\ sessionStatus[into] = "OPEN"
  BY <1>1, <1>6 DEF Active
<1>7. \A l \in Line : Settled(l) <= pieces[l]
  BY DEF BillsInv, PartsWithin
<1>8. ~tangled' => \A s \in Session, l \in Line :
        sessionStatus[s] \in {"CHECKOUT", "CLOSED"} /\ lineOf[l] = s => lineOf'[l] = s
  BY <1>1, <1>6
<1>9. ~tangled' => \A s \in Session, l \in Line :
        sessionStatus'[s] \in {"CHECKOUT", "CLOSED"} /\ l \in Owed(s)' =>
          l \in Owed(s) /\ sessionStatus'[s] = sessionStatus[s]
  BY <1>1, <1>3, <1>6 DEF Owed
<1>10. QED
  BY <1>1, <1>2, <1>4, <1>5, <1>7, <1>8, <1>9, BillsStayLined

\* What passes of a line is in no settlement: all of it, or a line of its own.
LEMMA TransferItemsKeepsBills ==
  ASSUME BillsInv, TablesInv', NEW from \in Session, NEW into \in Session,
         NEW l \in Line, NEW new \in Line, NEW n \in 1..MaxQuantity,
         TransferItems(from, into, l, new, n)
  PROVE  BillsInv'
<1>1. /\ UNCHANGED <<sessions, struck, bills, settlements, effects, tangled>>
      /\ sessionStatus[from] = "OPEN" /\ sessionStatus[into] = "OPEN" /\ from # into
  BY DEF TransferItems
<1>2. pieces[l] \in Nat /\ Settled(l) \in Nat /\ n \in Nat /\ n > 0 /\ pieces[l] <= MaxQuantity
  BY SettledAddsUp, TablesAssumption DEF BillsInv, TablesTypeOK
<1>3. l \in Owed(from) /\ n <= pieces[l] - Settled(l)
  <2>1. n <= Remaining(from, l)
    BY DEF TransferItems, MayPass
  <2>2. QED
    BY <1>2, <2>1 DEF Remaining
<1>4. lineOf[l] = from /\ lineOf[l] # NoSession
  BY <1>3, TablesAssumption DEF Owed
<1>5. NoCheckoutYet'
  BY <1>1 DEF BillsInv, NoCheckoutYet, sessions
<1>6. CASE n = pieces[l]
  <2>1. lineOf' = [lineOf EXCEPT ![l] = into] /\ UNCHANGED pieces
    BY <1>6 DEF TransferItems
  <2>2. TablesTypeOK'
    BY <1>1, <2>1 DEF BillsInv, TablesTypeOK, sessions, bills, settlements, effects
  <2>3. lineOf'[l] = into /\ \A k \in Line \ {l} : lineOf'[k] = lineOf[k]
    BY <2>1 DEF BillsInv, TablesTypeOK
  <2>4. Settled(l) = 0 /\ \A k \in Line : Settled(k) <= pieces[k]
    BY <1>2, <1>3, <1>6 DEF BillsInv, PartsWithin
  <2>5. \A r \in Session, k \in Line : sessionStatus[r] \in {"CHECKOUT", "CLOSED"} =>
          /\ lineOf[k] = r => lineOf'[k] = r
          /\ k \in Owed(r)' => k \in Owed(r)
    BY <1>1, <1>4, <2>3 DEF Owed
  <2>6. QED
    BY <1>1, <1>5, <2>1, <2>2, <2>3, <2>4, <2>5, BillsStayLined DEF sessions
<1>7. CASE n # pieces[l]
  <2>1. /\ lineOf[new] = NoSession
        /\ lineOf' = [lineOf EXCEPT ![new] = into]
        /\ pieces' = [pieces EXCEPT ![l] = @ - n, ![new] = n]
    BY <1>7 DEF TransferItems
  <2>2. l # new
    BY <1>4, <2>1
  <2>3. /\ lineOf'[new] = into /\ \A k \in Line \ {new} : lineOf'[k] = lineOf[k]
        /\ pieces'[l] = pieces[l] - n /\ pieces'[new] = n
        /\ \A k \in Line \ {l, new} : pieces'[k] = pieces[k]
    BY <2>1, <2>2 DEF BillsInv, TablesTypeOK
  <2>4. TablesTypeOK'
    <3>1. lineOf' \in [Line -> Session \union {NoSession}]
      BY <2>1 DEF BillsInv, TablesTypeOK
    <3>2. \A k \in Line : pieces'[k] \in 0..MaxQuantity
      BY <1>2, <1>3, <2>3, TablesAssumption DEF BillsInv, TablesTypeOK
    <3>3. pieces' \in [Line -> 0..MaxQuantity]
      BY <2>1, <3>2 DEF BillsInv, TablesTypeOK
    <3>4. QED
      BY <1>1, <3>1, <3>3 DEF BillsInv, TablesTypeOK, sessions, bills, settlements, effects
  <2>5. Settled(new) = 0
    <3>1. ASSUME NEW b \in Parts
          PROVE  ~(billed[b][new] > 0)
      BY <2>1, TablesAssumption DEF Parts, BillsInv, PartsOfTheirSession
    <3>2. QED
      BY <3>1, SettledAddsUp DEF BillsInv
  <2>6. Settled(l) <= pieces[l] - n
    BY <1>2, <1>3
  <2>7. \A k \in Line : Settled(k) <= pieces'[k]
    BY <1>2, <2>3, <2>5, <2>6 DEF BillsInv, PartsWithin
  <2>8. \A r \in Session, k \in Line : sessionStatus[r] \in {"CHECKOUT", "CLOSED"} =>
          /\ lineOf[k] = r => lineOf'[k] = r /\ pieces'[k] = pieces[k]
          /\ k \in Owed(r)' => k \in Owed(r)
    BY <1>1, <1>4, <2>1, <2>3, TablesAssumption DEF Owed
  <2>9. QED
    BY <1>1, <1>5, <2>3, <2>4, <2>5, <2>7, <2>8, BillsStayLined DEF sessions
<1>8. QED
  BY <1>6, <1>7

LEMMA TablesNextKeepsBills ==
  ASSUME BillsInv, [TablesNext]_tableVars
  PROVE  BillsInv'
<1>1. TablesInv'
  BY TablesNextKeepsInv DEF BillsInv
<1>2. CASE UNCHANGED tableVars
  <2>1. UNCHANGED <<sessions, lines, bills, settlements, effects, tangled>>
    BY <1>2 DEF tableVars
  <2>2. TablesTypeOK' /\ NoCheckoutYet'
    BY <2>1 DEF BillsInv, TablesTypeOK, NoCheckoutYet, sessions, lines, bills, settlements, effects
  <2>3. QED
    BY <1>1, <2>1, <2>2, LinesStayBilled DEF sessions, bills, settlements
<1>3. ASSUME NEW s \in Session, SessionStep(s)
      PROVE  BillsInv'
  BY <1>1, <1>3, TablesStepKeepsBills, AddOrderKeepsBills, CheckoutToSaleKeepsBills,
     CreateItemSettlementKeepsBills, MergeSessionsKeepsBills, TransferItemsKeepsBills
  DEF SessionStep
<1>4. ASSUME NEW l \in Line, CancelOrderItem(l)
      PROVE  BillsInv'
  BY <1>1, <1>4, CancelOrderItemKeepsBills
<1>5. ASSUME NEW b \in Sale, SaleStep(b)
      PROVE  BillsInv'
  BY <1>1, <1>5, CompleteSettlementKeepsBills, CounterKeepsBills,
     FinalizeCompletedSaleKeepsBills, ReopenCancelledCheckoutKeepsBills
  DEF SaleStep
<1>6. QED
  BY <1>2, <1>3, <1>4, <1>5 DEF TablesNext

(* Bills are of whole pieces, and every line is of a session or of none.   *)
THEOREM TablesTypeCorrect == TablesSpec => []TablesTypeOK
<1>1. BillsInv => TablesTypeOK
  BY DEF BillsInv
<1>2. QED
  BY <1>1, TablesInitKeepsBills, TablesNextKeepsBills, PTL DEF TablesSpec

(* However many parts, transfers, merges, checkouts and late effects, the  *)
(* sales of a line bill no more than its pieces, unless a settlement, a    *)
(* merge or a cancelled item met a checkout of the same session.           *)
THEOREM BilledStaysWithinOrdered == TablesSpec => []BilledWithinOrdered
<1>1. BillsInv => BilledWithinOrdered
  BY AskedWithin DEF BilledWithinOrdered
<1>2. QED
  BY <1>1, TablesInitKeepsBills, TablesNextKeepsBills, PTL DEF TablesSpec

(* No session is closed with a line that nobody was asked to pay.          *)
THEOREM ClosedStaysBilled == TablesSpec => []ClosedIsBilled
<1>1. BillsInv => ClosedIsBilled
  BY DEF BillsInv
<1>2. QED
  BY <1>1, TablesInitKeepsBills, TablesNextKeepsBills, PTL DEF TablesSpec

-----------------------------------------------------------------------------
(* The kitchen.                                                            *)

\* What is cooked is on a ticket, and once.
CooksOnTickets(o) ==
  o \notin late =>
    /\ CookedOnce(o)
    /\ (\A s \in Station : ticket[o][s] = "NONE") => \A p \in Product : cooks[o][p] = 0

\* Before it is told an order has no tickets, and nobody has prepared it.
TicketsAreTold(o) ==
  /\ source[o] = "NONE" \/ (source[o] = "DELIVERY" /\ orderSale[o] = "NONE") =>
       \A s \in Station : ticket[o][s] = "NONE"
  /\ source[o] = "DELIVERY" /\ orderSale[o] = "NONE" => orderStatus[o] \in {"NEW", "CANCELLED"}
  /\ source[o] = "TABLE" => orderStatus[o] \in InProduction
  /\ source[o] = "TABLE" /\ (\A s \in Station : ticket[o][s] = "NONE") => orderStatus[o] = "NEW"

\* The status of an order is that of its tickets.
StatusFollows(o) == o \notin late /\ source[o] # "COUNTER" => FollowsTickets(o)

Known(o) == CooksOnTickets(o) /\ TicketsAreTold(o) /\ StatusFollows(o)

KitchenInv == KitchenTypeOK /\ \A o \in Order : Known(o)

LEMMA KitchenInitKeepsInv ==
  ASSUME KitchenInit
  PROVE  KitchenInv
<1>1. KitchenTypeOK
  BY KitchenAssumption DEF KitchenInit, KitchenTypeOK, OrderStatus, InProduction, TicketStatus
<1>2. ASSUME NEW o \in Order
      PROVE  Known(o)
  BY <1>2 DEF KitchenInit, Known, CooksOnTickets, CookedOnce, TicketsAreTold, StatusFollows,
              FollowsTickets
<1>3. QED
  BY <1>1, <1>2 DEF KitchenInv

\* What the status says when only the counted tickets are looked at.
LEMMA DerivedFollows ==
  ASSUME NEW statuses, statuses \subseteq TicketStatus, statuses # {}
  PROVE  /\ Derived(statuses) \in InProduction
         /\ Derived(statuses) = "READY" => statuses = {"READY"}
         /\ Derived(statuses) = "NEW" => statuses \subseteq {"NEW", "CANCELLED"}
         /\ statuses = {"READY"} => Derived(statuses) = "READY"
<1>1. CASE statuses = {"READY"}
  BY <1>1 DEF Derived, InProduction
<1>2. CASE statuses # {"READY"} /\ statuses \intersect {"PREPARING", "READY"} # {}
  BY <1>2 DEF Derived, InProduction
<1>3. CASE statuses # {"READY"} /\ statuses \intersect {"PREPARING", "READY"} = {}
  BY <1>3 DEF Derived, InProduction, TicketStatus
<1>4. QED
  BY <1>1, <1>2, <1>3

\* A step of one order leaves what is known of the others.
LEMMA OthersAreKnown ==
  ASSUME NEW q \in Order, Known(q),
         source'[q] = source[q], orderStatus'[q] = orderStatus[q],
         orderSale'[q] = orderSale[q], ticket'[q] = ticket[q], cooks'[q] = cooks[q],
         q \in late' <=> q \in late
  PROVE  Known(q)'
  BY DEF Known, CooksOnTickets, CookedOnce, TicketsAreTold, StatusFollows, FollowsTickets

\* New tickets are for stations that had none; late is who had some already.
LEMMA MakeTicketsTells ==
  ASSUME KitchenTypeOK, NEW o \in Order, NEW products \in SUBSET Product,
         MakeTickets(o, products), CooksOnTickets(o)
  PROVE  /\ ticket' \in [Order -> [Station -> TicketStatus \union {"NONE"}]]
         /\ cooks' \in [Order -> [Product -> Nat]]
         /\ late' \in {late, late \union {o}}
         /\ \A q \in Order \ {o} : ticket'[q] = ticket[q] /\ cooks'[q] = cooks[q]
         /\ \A s \in Station :
              ticket'[o][s] = ticket[o][s] \/ (ticket[o][s] = "NONE" /\ ticket'[o][s] = "NEW")
         /\ (\A s \in Station : ticket[o][s] = "NONE") => late' = late
         /\ o \notin late' =>
              \/ \A s \in Station : ticket[o][s] = "NONE"
              \/ \A s \in Station : ticket'[o][s] = ticket[o][s]
         /\ CooksOnTickets(o)'
         /\ (\A p \in products : route[p] = Direct) =>
              \A s \in Station : ticket'[o][s] = ticket[o][s]
<1> DEFINE new == ToTell(o, products)
<1>1. new \subseteq Station /\ \A s \in new : ticket[o][s] = "NONE"
  BY DEF ToTell
<1>2. ticket' = [ticket EXCEPT ![o] = [s \in Station |-> IF s \in new THEN "NEW" ELSE ticket[o][s]]]
  BY DEF MakeTickets
<1>3. cooks' = [cooks EXCEPT ![o] = [p \in Product |->
                  IF p \in products /\ route[p] \in new THEN cooks[o][p] + 1 ELSE cooks[o][p]]]
  BY DEF MakeTickets
<1>4. ticket' \in [Order -> [Station -> TicketStatus \union {"NONE"}]]
  BY <1>2 DEF KitchenTypeOK, TicketStatus, InProduction
<1>5. cooks' \in [Order -> [Product -> Nat]]
  BY <1>3 DEF KitchenTypeOK
<1>6. \A q \in Order \ {o} : ticket'[q] = ticket[q] /\ cooks'[q] = cooks[q]
  BY <1>2, <1>3 DEF KitchenTypeOK
<1>7. \A s \in Station : ticket'[o][s] = IF s \in new THEN "NEW" ELSE ticket[o][s]
  BY <1>2 DEF KitchenTypeOK
<1>8. \A p \in Product :
        cooks'[o][p] = IF p \in products /\ route[p] \in new THEN cooks[o][p] + 1 ELSE cooks[o][p]
  BY <1>3 DEF KitchenTypeOK
<1>9. late' = IF (\E s \in Station : ticket[o][s] # "NONE")
                 /\ (\E s \in Station : ticket[o][s] = "NONE" /\ ticket'[o][s] # "NONE")
              THEN late \union {o} ELSE late
  BY DEF MakeTickets
<1>10. o \notin late' =>
         \/ \A s \in Station : ticket[o][s] = "NONE"
         \/ new = {}
  BY <1>1, <1>7, <1>9
<1>11. CooksOnTickets(o)'
  <2> SUFFICES ASSUME o \notin late'
               PROVE  /\ \A p \in Product : cooks'[o][p] <= 1
                      /\ (\A s \in Station : ticket'[o][s] = "NONE") =>
                           \A p \in Product : cooks'[o][p] = 0
    BY DEF CooksOnTickets, CookedOnce
  <2>1. o \notin late
    BY <1>9
  <2>2. CASE new = {}
    BY <1>7, <1>8, <2>1, <2>2 DEF CooksOnTickets, CookedOnce
  <2>3. CASE new # {}
    <3>1. \A p \in Product : cooks[o][p] = 0
      BY <1>10, <2>1, <2>3 DEF CooksOnTickets
    <3>2. \E s \in Station : ticket'[o][s] # "NONE"
      BY <1>1, <1>7, <2>3
    <3>3. QED
      BY <1>8, <3>1, <3>2
  <2>4. QED
    BY <2>2, <2>3
<1>12. (\A p \in products : route[p] = Direct) => new = {}
  BY KitchenAssumption DEF ToTell
<1>13. late' \in {late, late \union {o}}
  BY <1>9
<1>14. (\A s \in Station : ticket[o][s] = "NONE") => late' = late
  BY <1>9
<1>15. \A s \in Station :
         ticket'[o][s] = ticket[o][s] \/ (ticket[o][s] = "NONE" /\ ticket'[o][s] = "NEW")
  BY <1>1, <1>7
<1>16. new = {} => \A s \in Station : ticket'[o][s] = ticket[o][s]
  BY <1>7
<1> HIDE DEF new
<1>17. QED
  BY <1>4, <1>5, <1>6, <1>10, <1>11, <1>12, <1>13, <1>14, <1>15, <1>16

LEMMA ConfigureProductRouteKeepsInv ==
  ASSUME KitchenInv, NEW p \in Product, NEW r \in Station \union {Direct, NoRoute},
         ConfigureProductRoute(p, r)
  PROVE  KitchenInv'
<1>1. KitchenTypeOK'
  BY KitchenAssumption DEF ConfigureProductRoute, orders, told, KitchenInv, KitchenTypeOK
<1>2. ASSUME NEW q \in Order
      PROVE  Known(q)'
  BY OthersAreKnown DEF ConfigureProductRoute, orders, told, KitchenInv
<1>3. QED
  BY <1>1, <1>2 DEF KitchenInv

\* The tickets an order is counted by say what its status becomes.
LEMMA UpdateTicketStatusKeepsInv ==
  ASSUME KitchenInv, NEW o \in Order, NEW s \in Station, NEW status \in TicketStatus,
         UpdateTicketStatus(o, s, status)
  PROVE  KitchenInv'
<1> USE DEF KitchenInv
<1>1. ticket' = [ticket EXCEPT ![o][s] = status]
  BY DEF UpdateTicketStatus
<1>2. ticket' \in [Order -> [Station -> TicketStatus \union {"NONE"}]]
  BY <1>1 DEF KitchenTypeOK
<1>3. \A k \in Station : ticket'[o][k] = IF k = s THEN status ELSE ticket[o][k]
  BY <1>1 DEF KitchenTypeOK
<1>4. \A q \in Order \ {o} : ticket'[q] = ticket[q]
  BY <1>1 DEF KitchenTypeOK
<1> DEFINE counted == Counted(o, ticket'[o])
<1>5. counted \subseteq TicketStatus
  BY <1>2 DEF Counted
<1>6. counted # {} => /\ Derived(counted) \in InProduction
                      /\ Derived(counted) = "READY" => counted = {"READY"}
                      /\ Derived(counted) = "NEW" => counted \subseteq {"NEW", "CANCELLED"}
                      /\ counted = {"READY"} => Derived(counted) = "READY"
  BY <1>5, DerivedFollows
<1>7. orderStatus' = [orderStatus EXCEPT ![o] =
        IF orderStatus[o] \in InProduction /\ counted # {} THEN Derived(counted) ELSE orderStatus[o]]
  BY DEF UpdateTicketStatus, Synced
<1>8. orderStatus'[o] =
        IF orderStatus[o] \in InProduction /\ counted # {} THEN Derived(counted) ELSE orderStatus[o]
  BY <1>7 DEF KitchenTypeOK
<1>9. KitchenTypeOK'
  <2>1. orderStatus' \in [Order -> OrderStatus]
    BY <1>6, <1>7 DEF KitchenTypeOK, OrderStatus
  <2>2. QED
    BY <1>2, <2>1 DEF UpdateTicketStatus, KitchenTypeOK
<1>10. ticket[o][s] # "NONE" /\ status # "NONE"
  BY DEF UpdateTicketStatus, TicketStatus, InProduction
<1>11. CooksOnTickets(o)'
  BY <1>3, <1>10 DEF UpdateTicketStatus, Known, CooksOnTickets, CookedOnce
<1>12. TicketsAreTold(o)'
  <2>1. ~(\A k \in Station : ticket[o][k] = "NONE") /\ ~(\A k \in Station : ticket'[o][k] = "NONE")
    BY <1>3, <1>10
  <2>2. orderStatus[o] \in InProduction => orderStatus'[o] \in InProduction
    BY <1>6, <1>8
  <2>3. QED
    BY <2>1, <2>2 DEF UpdateTicketStatus, Known, TicketsAreTold
<1> DEFINE live == {ticket'[o][k] : k \in Station} \ {"NONE", "CANCELLED"}
           before == {ticket[o][k] : k \in Station} \ {"NONE", "CANCELLED"}
<1>13. StatusFollows(o)'
  <2> SUFFICES ASSUME o \notin late', source'[o] # "COUNTER"
               PROVE  /\ orderStatus'[o] = "READY" => live \subseteq {"READY"}
                      /\ orderStatus'[o] = "NEW" => live \subseteq {"NEW"}
                      /\ source'[o] = "DELIVERY" /\ live = {"READY"} =>
                           orderStatus'[o] \notin {"NEW", "PREPARING"}
    BY DEF StatusFollows, FollowsTickets
  <2>1. live \subseteq counted /\ (source[o] # "TABLE" => live = counted)
        /\ counted \subseteq live \union {"CANCELLED"}
    BY DEF Counted
  <2>2. CASE orderStatus[o] \in InProduction /\ counted # {}
    <3>1. orderStatus'[o] = Derived(counted)
      BY <1>8, <2>2
    <3>2. source' = source
      BY DEF UpdateTicketStatus
    <3> HIDE DEF live, counted
    <3>3. "READY" # "NEW" /\ "READY" # "PREPARING"
      OBVIOUS
    <3>4. live \subseteq counted \ {"CANCELLED"}
      <4>1. "CANCELLED" \notin live
        BY DEF live
      <4>2. QED
        BY <4>1, <2>1
    <3>5. QED
      BY <1>6, <2>1, <2>2, <3>1, <3>2, <3>3, <3>4
  <2>3. CASE orderStatus[o] \in InProduction /\ counted = {}
    <3>1. live = {} /\ orderStatus'[o] = orderStatus[o]
      BY <1>8, <2>1, <2>3
    <3>2. QED
      BY <3>1
  <2>4. CASE orderStatus[o] \notin InProduction
    BY <1>8, <2>4 DEF InProduction
  <2>5. QED
    BY <2>2, <2>3, <2>4
<1>14. ASSUME NEW q \in Order
       PROVE  Known(q)'
  <2>1. CASE q = o
    BY <1>11, <1>12, <1>13, <2>1 DEF Known
  <2>2. CASE q # o
    <3>1. orderStatus'[q] = orderStatus[q]
      BY <1>7, <2>2 DEF KitchenTypeOK
    <3>2. QED
      BY <1>4, <2>2, <3>1, OthersAreKnown DEF UpdateTicketStatus
  <2>3. QED
    BY <2>1, <2>2
<1>15. QED
  BY <1>9, <1>14

\* A step of one order that makes no tickets.
LEMMA OrderStepKeepsInv ==
  ASSUME KitchenInv, NEW o \in Order,
         UNCHANGED <<route, routed, cooks, late, changes, crashes>>,
         KitchenTypeOK', Known(o)',
         \A q \in Order \ {o} :
           /\ source'[q] = source[q] /\ orderStatus'[q] = orderStatus[q]
           /\ orderSale'[q] = orderSale[q] /\ ticket'[q] = ticket[q]
  PROVE  KitchenInv'
<1>1. ASSUME NEW q \in Order, q # o
      PROVE  Known(q)'
  BY <1>1, OthersAreKnown DEF KitchenInv
<1>2. QED
  BY <1>1 DEF KitchenInv

\* An order that is new has no tickets, and nothing to be ready.
LEMMA NewOrderIsKnown ==
  ASSUME KitchenInv, NEW o \in Order, NEW origin \in {"TABLE", "DELIVERY"},
         NEW products \in SUBSET Product, NewOrder(o, origin, products),
         UNCHANGED <<route, orderSale, routed, told, changes, crashes>>
  PROVE  KitchenInv'
<1>1. /\ source'[o] = origin /\ orderStatus'[o] = "NEW" /\ UNCHANGED <<ticket, cooks, late>>
      /\ \A s \in Station : ticket[o][s] = "NONE"
  BY DEF NewOrder, told, KitchenInv, KitchenTypeOK, Known, TicketsAreTold
<1>2. \A q \in Order \ {o} : source'[q] = source[q] /\ orderStatus'[q] = orderStatus[q]
  BY DEF NewOrder, KitchenInv, KitchenTypeOK
<1>3. KitchenTypeOK'
  BY DEF NewOrder, told, KitchenInv, KitchenTypeOK, OrderStatus, InProduction
<1>4. Known(o)'
  BY <1>1 DEF KitchenInv, Known, CooksOnTickets, CookedOnce, TicketsAreTold, StatusFollows,
              FollowsTickets, InProduction
<1>5. QED
  BY <1>2, <1>3, <1>4, OrderStepKeepsInv DEF told

\* The routing of a table's order, marked as applied or not.
LEMMA RoutingKeepsInv ==
  ASSUME KitchenInv, NEW o \in Order, RouteIsDue(o), MakeTickets(o, basket[o]),
         UNCHANGED <<route, orders, changes>>, crashes' \in 0..MaxCrashes,
         routed' \in {routed, routed \union {o}}
  PROVE  KitchenInv'
<1> DEFINE tells == /\ ticket' \in [Order -> [Station -> TicketStatus \union {"NONE"}]]
                    /\ cooks' \in [Order -> [Product -> Nat]]
                    /\ late' \in {late, late \union {o}}
<1>1. /\ tells
      /\ \A q \in Order \ {o} : ticket'[q] = ticket[q] /\ cooks'[q] = cooks[q]
      /\ \A s \in Station :
           ticket'[o][s] = ticket[o][s] \/ (ticket[o][s] = "NONE" /\ ticket'[o][s] = "NEW")
      /\ o \notin late' =>
           \/ \A s \in Station : ticket[o][s] = "NONE"
           \/ \A s \in Station : ticket'[o][s] = ticket[o][s]
      /\ CooksOnTickets(o)'
  <2>1. KitchenTypeOK /\ basket[o] \in SUBSET Product /\ CooksOnTickets(o)
    BY DEF KitchenInv, KitchenTypeOK, Known
  <2>2. QED
    BY <2>1, MakeTicketsTells
<1>2. source[o] = "TABLE" /\ UNCHANGED <<source, basket, orderStatus, orderSale>>
  BY DEF RouteIsDue, orders
<1>3. KitchenTypeOK'
  BY <1>1, <1>2 DEF KitchenInv, KitchenTypeOK
<1>4. o \in late => o \in late'
  BY <1>1
<1>5. TicketsAreTold(o)'
  BY <1>1, <1>2 DEF KitchenInv, Known, TicketsAreTold
<1>6. StatusFollows(o)'
  <2> SUFFICES ASSUME o \notin late'
               PROVE  FollowsTickets(o)'
    BY DEF StatusFollows
  <2>1. CASE \A s \in Station : ticket'[o][s] = ticket[o][s]
    BY <1>2, <1>4, <2>1 DEF KitchenInv, Known, StatusFollows, FollowsTickets
  <2>2. CASE \A s \in Station : ticket[o][s] = "NONE"
    <3>1. \A s \in Station : ticket'[o][s] \in {"NONE", "NEW"}
      BY <1>1, <2>2
    <3>2. orderStatus'[o] = "NEW"
      BY <1>2, <2>2 DEF KitchenInv, Known, TicketsAreTold
    <3>3. QED
      BY <1>2, <3>1, <3>2 DEF FollowsTickets
  <2>3. QED
    BY <1>1, <2>1, <2>2
<1>7. ASSUME NEW q \in Order, q # o
      PROVE  Known(q)'
  BY <1>1, <1>2, <1>7, OthersAreKnown DEF KitchenInv
<1>8. QED
  BY <1>1, <1>3, <1>5, <1>6, <1>7 DEF KitchenInv, Known

\* The tickets of a delivery and those of a counter order are made once.
LEMMA FirstTicketsKeepInv ==
  ASSUME KitchenInv, NEW o \in Order, NEW products \in SUBSET Product,
         MakeTickets(o, products), \A s \in Station : ticket[o][s] = "NONE",
         UNCHANGED <<route, routed, changes, crashes>>,
         source' \in [Order -> {"NONE", "TABLE", "DELIVERY", "COUNTER"}],
         basket' \in [Order -> SUBSET Product], orderStatus' \in [Order -> OrderStatus],
         orderSale' \in [Order -> {"NONE", "OPEN", "COMPLETED", "VOIDED"}],
         source'[o] \in {"DELIVERY", "COUNTER"}, orderSale'[o] = "OPEN", source[o] # "TABLE",
         source'[o] = "DELIVERY" => /\ orderStatus[o] \in {"NEW", "CANCELLED"}
                                   /\ \/ orderStatus'[o] = orderStatus[o]
                                      \/ /\ orderStatus'[o] = "READY"
                                         /\ \A p \in products : route[p] = Direct,
         \A q \in Order \ {o} :
           /\ source'[q] = source[q] /\ orderStatus'[q] = orderStatus[q]
           /\ orderSale'[q] = orderSale[q]
  PROVE  KitchenInv'
<1>1. KitchenTypeOK /\ CooksOnTickets(o)
  BY DEF KitchenInv, Known
<1>2. /\ ticket' \in [Order -> [Station -> TicketStatus \union {"NONE"}]]
      /\ cooks' \in [Order -> [Product -> Nat]]
      /\ late' = late
      /\ \A q \in Order \ {o} : ticket'[q] = ticket[q] /\ cooks'[q] = cooks[q]
      /\ \A s \in Station : ticket'[o][s] \in {"NONE", "NEW"}
      /\ CooksOnTickets(o)'
      /\ (\A p \in products : route[p] = Direct) =>
           \A s \in Station : ticket'[o][s] = "NONE"
  <2>1. /\ ticket' \in [Order -> [Station -> TicketStatus \union {"NONE"}]]
        /\ cooks' \in [Order -> [Product -> Nat]]
        /\ \A q \in Order \ {o} : ticket'[q] = ticket[q] /\ cooks'[q] = cooks[q]
        /\ \A s \in Station :
             ticket'[o][s] = ticket[o][s] \/ (ticket[o][s] = "NONE" /\ ticket'[o][s] = "NEW")
        /\ (\A s \in Station : ticket[o][s] = "NONE") => late' = late
        /\ CooksOnTickets(o)'
        /\ (\A p \in products : route[p] = Direct) =>
             \A s \in Station : ticket'[o][s] = ticket[o][s]
    BY <1>1, MakeTicketsTells
  <2>2. \A s \in Station : ticket'[o][s] \in {"NONE", "NEW"}
    BY <2>1
  <2>3. QED
    BY <2>1, <2>2
<1>3. KitchenTypeOK'
  BY <1>1, <1>2 DEF KitchenTypeOK
<1>4. TicketsAreTold(o)'
  BY DEF TicketsAreTold
<1>5. StatusFollows(o)'
  <2> SUFFICES ASSUME source'[o] = "DELIVERY"
               PROVE  FollowsTickets(o)'
    BY DEF StatusFollows
  <2> DEFINE live == {ticket'[o][s] : s \in Station} \ {"NONE", "CANCELLED"}
  <2>1. live \subseteq {"NEW"}
    BY <1>2
  <2> HIDE DEF live
  <2>2. live # {"READY"}
    <3>1. "READY" \notin live
      BY <2>1
    <3>2. QED
      BY <3>1
  <2>3. orderStatus'[o] = "READY" => live = {}
    BY <1>2 DEF live
  <2>4. QED
    BY <2>1, <2>2, <2>3 DEF FollowsTickets, live
<1>6. ASSUME NEW q \in Order, q # o
      PROVE  Known(q)'
  BY <1>2, <1>6, OthersAreKnown DEF KitchenInv
<1>7. QED
  BY <1>2, <1>3, <1>4, <1>5, <1>6 DEF KitchenInv, Known

LEMMA CreateDeliverySaleKeepsInv ==
  ASSUME KitchenInv, NEW o \in Order, NEW submitted \in SUBSET Product,
         CreateDeliverySale(o, submitted)
  PROVE  KitchenInv'
<1> DEFINE products == IF basket[o] = {} THEN submitted ELSE basket[o]
<1>1. products \in SUBSET Product
  BY DEF KitchenInv, KitchenTypeOK
<1>2. source[o] = "DELIVERY" /\ orderSale[o] = "NONE"
  BY DEF CreateDeliverySale
<1>3. (\A s \in Station : ticket[o][s] = "NONE") /\ orderStatus[o] \in {"NEW", "CANCELLED"}
  BY <1>2 DEF KitchenInv, Known, TicketsAreTold
<1>4. /\ basket' = [basket EXCEPT ![o] = products]
      /\ orderSale' = [orderSale EXCEPT ![o] = "OPEN"]
      /\ MakeTickets(o, products)
      /\ orderStatus' = [orderStatus EXCEPT ![o] =
           IF orderStatus[o] = "NEW" /\ \A p \in products : route[p] = Direct
           THEN "READY" ELSE orderStatus[o]]
      /\ UNCHANGED <<route, source, routed, changes, crashes>>
  BY DEF CreateDeliverySale
<1> HIDE DEF products
<1>5. /\ basket' \in [Order -> SUBSET Product]
      /\ orderSale' \in [Order -> {"NONE", "OPEN", "COMPLETED", "VOIDED"}]
      /\ source' \in [Order -> {"NONE", "TABLE", "DELIVERY", "COUNTER"}]
      /\ orderSale'[o] = "OPEN"
  BY <1>1, <1>4 DEF KitchenInv, KitchenTypeOK
<1>6. orderStatus' \in [Order -> OrderStatus]
  BY <1>4 DEF KitchenInv, KitchenTypeOK, OrderStatus, InProduction
<1>7. orderStatus'[o] = orderStatus[o] \/
        (orderStatus'[o] = "READY" /\ \A p \in products : route[p] = Direct)
  BY <1>4 DEF KitchenInv, KitchenTypeOK
<1>8. \A q \in Order \ {o} :
        /\ source'[q] = source[q] /\ orderStatus'[q] = orderStatus[q]
        /\ orderSale'[q] = orderSale[q]
  BY <1>4 DEF KitchenInv, KitchenTypeOK
<1>9. QED
  BY <1>1, <1>2, <1>3, <1>4, <1>5, <1>6, <1>7, <1>8, FirstTicketsKeepInv

LEMMA CreateCounterOrderKeepsInv ==
  ASSUME KitchenInv, NEW o \in Order, NEW products \in SUBSET Product,
         CreateCounterOrder(o, products)
  PROVE  KitchenInv'
<1>1. source[o] = "NONE" /\ \A s \in Station : ticket[o][s] = "NONE"
  BY DEF CreateCounterOrder, NewOrder, KitchenInv, Known, TicketsAreTold
<1>2. /\ basket' \in [Order -> SUBSET Product]
      /\ orderSale' \in [Order -> {"NONE", "OPEN", "COMPLETED", "VOIDED"}]
      /\ source' \in [Order -> {"NONE", "TABLE", "DELIVERY", "COUNTER"}]
      /\ orderStatus' \in [Order -> OrderStatus]
      /\ source'[o] = "COUNTER" /\ orderSale'[o] = "OPEN"
  BY DEF CreateCounterOrder, NewOrder, KitchenInv, KitchenTypeOK, OrderStatus, InProduction
<1>3. \A q \in Order \ {o} :
        /\ source'[q] = source[q] /\ orderStatus'[q] = orderStatus[q]
        /\ orderSale'[q] = orderSale[q]
  BY DEF CreateCounterOrder, NewOrder, KitchenInv, KitchenTypeOK
<1>4. MakeTickets(o, products) /\ UNCHANGED <<route, routed, changes, crashes>>
  BY DEF CreateCounterOrder
<1>5. QED
  BY <1>1, <1>2, <1>3, <1>4, FirstTicketsKeepInv

\* A delivery that leaves is ready, and a cancelled one is neither new nor ready.
LEMMA UpdateDeliveryStatusKeepsInv ==
  ASSUME KitchenInv, NEW o \in Order, NEW status \in OrderStatus,
         UpdateDeliveryStatus(o, status)
  PROVE  KitchenInv'
<1>1. KitchenTypeOK'
  BY DEF UpdateDeliveryStatus, told, KitchenInv, KitchenTypeOK
<1>2. /\ orderStatus'[o] = status /\ \A q \in Order \ {o} : orderStatus'[q] = orderStatus[q]
      /\ status \notin InProduction
      /\ source[o] = "DELIVERY" /\ orderSale[o] = "NONE" => status = "CANCELLED"
  BY DEF UpdateDeliveryStatus, InProduction, KitchenInv, KitchenTypeOK, Known, TicketsAreTold
<1>3. Known(o)'
  BY <1>2 DEF UpdateDeliveryStatus, told, InProduction, KitchenInv, Known, CooksOnTickets,
              CookedOnce, TicketsAreTold, StatusFollows, FollowsTickets
<1>4. QED
  BY <1>1, <1>2, <1>3, OrderStepKeepsInv DEF UpdateDeliveryStatus, told

LEMMA CancelDeliveryKeepsInv ==
  ASSUME KitchenInv, NEW o \in Order, CancelDelivery(o)
  PROVE  KitchenInv'
<1>1. KitchenTypeOK'
  BY DEF CancelDelivery, KitchenInv, KitchenTypeOK, OrderStatus, TicketStatus
<1>2. /\ orderStatus'[o] = "CANCELLED" /\ source[o] = "DELIVERY" /\ source' = source
      /\ UNCHANGED <<cooks, late>>
      /\ orderSale'[o] = "NONE" => orderSale[o] = "NONE"
      /\ \A s \in Station :
           /\ ticket'[o][s] \in {ticket[o][s], "CANCELLED"}
           /\ ticket'[o][s] = "NONE" <=> ticket[o][s] = "NONE"
  BY DEF CancelDelivery, KitchenInv, KitchenTypeOK
<1>3. Known(o)'
  BY <1>2 DEF KitchenInv, Known, CooksOnTickets, CookedOnce, TicketsAreTold, StatusFollows,
              FollowsTickets
<1>4. \A q \in Order \ {o} :
        /\ source'[q] = source[q] /\ orderStatus'[q] = orderStatus[q]
        /\ orderSale'[q] = orderSale[q] /\ ticket'[q] = ticket[q]
  BY DEF CancelDelivery, KitchenInv, KitchenTypeOK
<1>5. QED
  BY <1>1, <1>3, <1>4, OrderStepKeepsInv DEF CancelDelivery

LEMMA PayOrderKeepsInv ==
  ASSUME KitchenInv, NEW o \in Order, PayOrder(o)
  PROVE  KitchenInv'
<1>1. KitchenTypeOK'
  BY DEF PayOrder, told, KitchenInv, KitchenTypeOK
<1>2. orderSale'[o] = "COMPLETED" /\ \A q \in Order \ {o} : orderSale'[q] = orderSale[q]
  BY DEF PayOrder, KitchenInv, KitchenTypeOK
<1>3. Known(o)'
  <2>1. /\ CooksOnTickets(o) /\ TicketsAreTold(o) /\ StatusFollows(o)
        /\ UNCHANGED <<source, basket, orderStatus, routed, ticket, cooks, late>>
    BY DEF PayOrder, told, KitchenInv, Known
  <2>2. CooksOnTickets(o)'
    BY <2>1 DEF CooksOnTickets, CookedOnce
  <2>3. TicketsAreTold(o)'
    BY <1>2, <2>1 DEF TicketsAreTold
  <2>4. StatusFollows(o)'
    BY <2>1 DEF StatusFollows, FollowsTickets
  <2>5. QED
    BY <2>2, <2>3, <2>4 DEF Known
<1>4. QED
  BY <1>1, <1>2, <1>3, OrderStepKeepsInv DEF PayOrder, told

\* The status of a counter order is nobody's but its own.
LEMMA UpdateCounterStatusKeepsInv ==
  ASSUME KitchenInv, NEW o \in Order, NEW status \in OrderStatus,
         UpdateCounterStatus(o, status)
  PROVE  KitchenInv'
<1>1. KitchenTypeOK'
  BY DEF UpdateCounterStatus, told, KitchenInv, KitchenTypeOK
<1>2. \A q \in Order \ {o} : orderStatus'[q] = orderStatus[q]
  BY DEF UpdateCounterStatus, KitchenInv, KitchenTypeOK
<1>3. Known(o)'
  BY DEF UpdateCounterStatus, told, KitchenInv, Known, CooksOnTickets, CookedOnce,
         TicketsAreTold, StatusFollows
<1>4. QED
  BY <1>1, <1>2, <1>3, OrderStepKeepsInv DEF UpdateCounterStatus, told

LEMMA KitchenNextKeepsInv ==
  ASSUME KitchenInv, [KitchenNext]_kitchenVars
  PROVE  KitchenInv'
<1>1. CASE UNCHANGED kitchenVars
  <2>1. KitchenTypeOK'
    BY <1>1 DEF kitchenVars, orders, told, KitchenInv, KitchenTypeOK
  <2>2. ASSUME NEW q \in Order
        PROVE  Known(q)'
    BY <1>1, OthersAreKnown DEF kitchenVars, orders, told, KitchenInv
  <2>3. QED
    BY <2>1, <2>2 DEF KitchenInv
<1>2. ASSUME NEW o \in Order, NEW products \in SUBSET Product,
             AddTableOrder(o, products) \/ CreateDelivery(o, products)
      PROVE  KitchenInv'
  BY <1>2, NewOrderIsKnown DEF AddTableOrder, CreateDelivery
<1>3. ASSUME NEW o \in Order, RouteOrder(o)
      PROVE  KitchenInv'
  BY <1>3, RoutingKeepsInv DEF RouteOrder, KitchenInv, KitchenTypeOK
<1>4. ASSUME NEW o \in Order, CrashInRouteOrder(o)
      PROVE  KitchenInv'
  <2>1. crashes' \in 0..MaxCrashes
    BY <1>4, KitchenAssumption DEF CrashInRouteOrder, KitchenInv, KitchenTypeOK
  <2>2. QED
    BY <1>4, <2>1, RoutingKeepsInv DEF CrashInRouteOrder
<1>5. QED
  BY <1>1, <1>2, <1>3, <1>4, ConfigureProductRouteKeepsInv, UpdateTicketStatusKeepsInv,
     CreateDeliverySaleKeepsInv, CreateCounterOrderKeepsInv, UpdateDeliveryStatusKeepsInv,
     UpdateCounterStatusKeepsInv, CancelDeliveryKeepsInv, PayOrderKeepsInv
  DEF KitchenNext

(* Tickets and statuses are what the handlers know, and only an order of a *)
(* table can be told twice.                                                *)
THEOREM KitchenTypeCorrect == KitchenSpec => []KitchenTypeOK
<1>1. KitchenInv => KitchenTypeOK
  BY DEF KitchenInv
<1>2. QED
  BY <1>1, KitchenInitKeepsInv, KitchenNextKeepsInv, PTL DEF KitchenSpec

(* No dish is cooked twice and no status says more than the stations do,   *)
(* for any number of orders, products, stations, route changes and         *)
(* crashes, except for an order whose routes changed between a run that    *)
(* was cut and its repetition.                                             *)
THEOREM KitchenStaysTold == KitchenSpec => []KitchenIsTold
<1>1. KitchenInv => KitchenIsTold
  BY DEF KitchenInv, Known, CooksOnTickets, StatusFollows, KitchenIsTold
<1>2. QED
  BY <1>1, KitchenInitKeepsInv, KitchenNextKeepsInv, PTL DEF KitchenSpec

=============================================================================
