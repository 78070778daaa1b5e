-------------------------- MODULE SalesOrders_proofs --------------------------
(***************************************************************************)
(* What SalesOrders keeps for every number of orders, sales and crashes.   *)
(***************************************************************************)
EXTENDS SalesOrders, SumTheorems, TLAPS

\* Nothing has been done for an order before it is confirmed.
Untouched(o) ==
  orderStatus[o] \in {"NONE", "QUOTED"} =>
    /\ fulfilled[o] = 0 /\ consumed[o] = 0
    /\ reservation[o] = "NONE" /\ boundSale[o] = NoSale
    /\ orderStatus[o] = "QUOTED" => ordered[o] > 0

\* Counters stay within the order; what is to be served is not done.
Counted(o) ==
  /\ fulfilled[o] <= ordered[o] /\ consumed[o] <= ordered[o]
  /\ Live(o) => fulfilled[o] < ordered[o]

\* A reservation is bound to a sale that is paid.
Bound(o) == boundSale[o] \in Sale => saleStatus[boundSale[o]] = "COMPLETED"

\* A checkout finishes its order, whatever is served beside it.
Checkout(s) ==
  /\ saleStatus[s] = "NONE" =>
       orderOf[s] = NoOrder /\ fulfillment[s] = "NONE"
  /\ saleStatus[s] = "OPEN" /\ orderOf[s] \in Order =>
       /\ orderStatus[orderOf[s]] \notin {"NONE", "QUOTED"}
       /\ ordered[orderOf[s]] <= fulfilled[orderOf[s]] + promised[s]

\* The reservation of a live order covers what is missing, and still will
\* when the sale it is bound to has consumed its part.
Covered(o) ==
  Live(o) =>
    /\ reservation[o] = "ACTIVE"
    /\ consumed[o] <= fulfilled[o]
    /\ boundSale[o] \in Sale \ applied =>
         consumed[o] + quantity[boundSale[o]] <= fulfilled[o]

IInv ==
  /\ TypeOK
  /\ \A o \in Order : Untouched(o) /\ Counted(o) /\ Bound(o)
  /\ \A s \in Sale : Checkout(s)
  /\ applied \subseteq {s \in Sale : saleStatus[s] = "COMPLETED"}
  /\ crashes = 0 => \A o \in Order : Covered(o)

-----------------------------------------------------------------------------
USE SalesOrdersAssumption

LEMMA InitKeepsIInv == Init => IInv
  BY DEF Init, IInv, TypeOK, Untouched, Counted, Bound, Checkout, Covered, Live

-----------------------------------------------------------------------------
(* Each action keeps the invariant.                                        *)

\* A quote has pieces, and nothing is done for it yet.
LEMMA CreateQuoteKeepsIInv ==
  ASSUME IInv, NEW o \in Order, NEW n \in 1..MaxQuantity, CreateQuote(o, n)
  PROVE  IInv'
  BY SMT DEF CreateQuote, IInv, TypeOK, Untouched, Counted, Bound,
         Checkout, Covered, Live, reservations, sales,
         fulfillments, stock

\* What becomes live has its whole reservation, unbound.
LEMMA ConfirmOrderKeepsIInv ==
  ASSUME IInv, NEW o \in Order, ConfirmOrder(o)
  PROVE  IInv'
  BY SMT DEF ConfirmOrder, IInv, TypeOK, Untouched, Counted, Bound,
         Checkout, Covered, Live, sales, fulfillments, stock

\* A cancelled order is not live; its checkout stays.
LEMMA CancelOrderKeepsIInv ==
  ASSUME IInv, NEW o \in Order, CancelOrder(o)
  PROVE  IInv'
  BY SMT DEF CancelOrder, IInv, TypeOK, Untouched, Counted, Bound,
         Checkout, Covered, Live, sales, fulfillments, stock

\* The checkout promises exactly what is missing.
LEMMA PrepareCheckoutKeepsIInv ==
  ASSUME IInv, NEW o \in Order, NEW s \in Sale, PrepareCheckout(o, s)
  PROVE  IInv'
  BY SMT DEF PrepareCheckout, Pending, IInv, TypeOK, Untouched,
         Counted, Bound, Checkout, Covered, Live, orders,
         reservations, stock

\* The part served is counted before it is consumed.
LEMMA FulfillOrderKeepsIInv ==
  ASSUME IInv, NEW o \in Order, NEW s \in Sale, NEW n \in 1..MaxQuantity, FulfillOrder(o, s, n)
  PROVE  IInv'
  BY SMT DEF FulfillOrder, Pending, Bind, Fulfill, Least, IInv,
         TypeOK, Untouched, Counted, Bound, Checkout, Covered,
         Live, stock

LEMMA OpenSaleKeepsIInv ==
  ASSUME IInv, NEW s \in Sale, OpenSale(s)
  PROVE  IInv'
  BY SMT DEF OpenSale, IInv, TypeOK, Untouched, Counted, Bound,
         Checkout, Covered, Live, orders, reservations,
         fulfillments, stock

\* No reservation is bound to a sale that can be edited.
LEMMA ChangeItemKeepsIInv ==
  ASSUME IInv, NEW s \in Sale, NEW n \in 0..MaxQuantity, ChangeItem(s, n)
  PROVE  IInv'
  BY SMT DEF ChangeItem, IInv, TypeOK, Untouched, Counted, Bound,
         Checkout, Covered, Live, orders, reservations,
         fulfillments, stock

\* A checkout leaves its order fulfilled, not live.
LEMMA CompleteSaleKeepsIInv ==
  ASSUME IInv, NEW s \in Sale, CompleteSale(s)
  PROVE  IInv'
  BY SMT DEF CompleteSale, Bind, Fulfill, Least, IInv, TypeOK,
         Untouched, Counted, Bound, Checkout, Covered, Live, stock

LEMMA VoidSaleKeepsIInv ==
  ASSUME IInv, NEW s \in Sale, VoidSale(s)
  PROVE  IInv'
  BY SMT DEF VoidSale, IInv, TypeOK, Untouched, Counted, Bound,
         Checkout, Covered, Live, orders, reservations, stock

\* The part consumed was counted when it was sold.
LEMMA HandleSaleKeepsIInv ==
  ASSUME IInv, NEW s \in Sale, HandleSale(s)
  PROVE  IInv'
  BY SMT DEF HandleSale, IsPending, ApplySaleItems,
         ConsumeSaleReservations, Taken, Least, IInv, TypeOK,
         Untouched, Counted, Bound, Checkout, Covered, Live,
         orders, sales, fulfillments

\* Past a crash nothing is claimed of live orders.
LEMMA CrashInHandlerKeepsIInv ==
  ASSUME IInv, NEW s \in Sale, CrashInHandler(s)
  PROVE  IInv'
  BY SMT DEF CrashInHandler, IsPending, ApplySaleItems,
         ConsumeSaleReservations, Taken, Least, IInv, TypeOK,
         Untouched, Counted, Bound, Checkout, Covered, Live,
         orders, reservations, sales, fulfillments

LEMMA StepKeepsIInv == IInv /\ [Next]_vars => IInv'
<1> SUFFICES ASSUME IInv, [Next]_vars PROVE IInv'
  OBVIOUS
<1>1. ASSUME NEW o \in Order, OrderStep(o) PROVE IInv'
  BY <1>1, CreateQuoteKeepsIInv, ConfirmOrderKeepsIInv, CancelOrderKeepsIInv,
     PrepareCheckoutKeepsIInv, FulfillOrderKeepsIInv DEF OrderStep
<1>2. ASSUME NEW s \in Sale, SaleStep(s) PROVE IInv'
  BY <1>2, OpenSaleKeepsIInv, ChangeItemKeepsIInv, CompleteSaleKeepsIInv,
     VoidSaleKeepsIInv, HandleSaleKeepsIInv, CrashInHandlerKeepsIInv DEF SaleStep
<1>3. CASE UNCHANGED vars
  BY <1>3 DEF IInv, TypeOK, Untouched, Counted, Bound, Checkout, Covered, Live,
              vars, orders, reservations, sales, fulfillments, stock
<1> QED
  BY <1>1, <1>2, <1>3 DEF Next

THEOREM Inductive == Spec => []IInv
  BY InitKeepsIInv, StepKeepsIInv, PTL DEF Spec

-----------------------------------------------------------------------------
(* Rows keep their types, no count of an order leaves it, and the balance  *)
(* is never negative.                                                      *)
THEOREM TypeCorrect == Spec => []TypeOK
<1>1. IInv => TypeOK
  BY DEF IInv
<1> QED
  BY <1>1, Inductive, PTL

(* As long as no effect was cut, an order that is still to be served has   *)
(* an active reservation of at least what is missing (confirmOrder,        *)
(* fulfillOrder, completeSale, consumeSaleReservations).                   *)
THEOREM LiveOrdersKeepTheirReservation == Spec => []LiveOrderKeepsReservation
<1>1. IInv => LiveOrderKeepsReservation
  BY DEF IInv, TypeOK, Covered, LiveOrderKeepsReservation, Pending
<1> QED
  BY <1>1, Inductive, PTL

-----------------------------------------------------------------------------
(* What the sales of orders take of the stock, and fulfil.                 *)

Unmoved == {s \in Sale : saleStatus[s] = "COMPLETED" /\ s \notin moved}
Finished(o) == {s \in Sale : orderOf[s] = o /\ fulfillment[s] = "COMPLETED"}

\* An effect is recorded after its movement, both of a sale that is paid.
EffectsInOrder ==
  applied \subseteq moved /\ moved \subseteq {s \in Sale : saleStatus[s] = "COMPLETED"}

\* A fulfillment is finished with its sale, and not before its order is confirmed.
FinishedInOrder ==
  \A s \in Sale :
    fulfillment[s] = "COMPLETED" =>
      /\ saleStatus[s] = "COMPLETED"
      /\ orderOf[s] \in Order => orderStatus[orderOf[s]] \notin {"NONE", "QUOTED"}

DocumentsInv ==
  IInv /\ EffectsInOrder /\ FinishedInOrder /\ StockCoversPending /\ FulfilledMatchesDocuments

LEMMA CountsAreNat ==
  ASSUME TypeOK
  PROVE  /\ \A s \in Sale : quantity[s] \in Nat /\ promised[s] \in Nat
         /\ \A o \in Order : ordered[o] \in Nat /\ consumed[o] \in Nat /\ fulfilled[o] \in Nat
         /\ balance \in Nat
  BY DEF TypeOK

LEMMA SalesAreFinite ==
  ASSUME NEW S \in SUBSET Sale
  PROVE  IsFiniteSet(S)
  BY SalesOrdersAssumption, FS_Subset

LEMMA UnmovedIsNat ==
  ASSUME TypeOK
  PROVE  SumFunctionOnSet(quantity, Unmoved) \in Nat
<1>1. Unmoved \in SUBSET Sale
  BY DEF Unmoved
<1>2. QED
  BY <1>1, CountsAreNat, SalesAreFinite, SumIsNat

LEMMA FinishedIsNat ==
  ASSUME TypeOK, NEW o \in Order
  PROVE  SumFunctionOnSet(promised, Finished(o)) \in Nat
<1>1. Finished(o) \in SUBSET Sale
  BY DEF Finished
<1>2. QED
  BY <1>1, CountsAreNat, SalesAreFinite, SumIsNat

LEMMA InitKeepsDocuments == Init => DocumentsInv
<1> SUFFICES ASSUME Init
             PROVE  DocumentsInv
  OBVIOUS
<1>1. IInv
  BY InitKeepsIInv
<1>2. Unmoved = {} /\ \A o \in Order : Finished(o) = {}
  BY DEF Init, Unmoved, Finished
<1>3. EffectsInOrder /\ FinishedInOrder
  BY DEF Init, EffectsInOrder, FinishedInOrder
<1>4. StockCoversPending
  BY <1>2, SumEmpty, SalesOrdersAssumption DEF StockCoversPending, Unmoved, Init
<1>5. FulfilledMatchesDocuments
  BY <1>2, SumEmpty DEF FulfilledMatchesDocuments, Finished, Init, Least
<1>6. QED
  BY <1>1, <1>3, <1>4, <1>5 DEF DocumentsInv

\* Steps that complete no sale and move no stock.
LEMMA DocumentsStay ==
  ASSUME DocumentsInv, IInv', UNCHANGED <<balance, moved, applied, fulfilled>>,
         \A s \in Sale :
           /\ saleStatus'[s] = "COMPLETED" <=> saleStatus[s] = "COMPLETED"
           /\ saleStatus[s] = "COMPLETED" => quantity'[s] = quantity[s]
           /\ fulfillment'[s] = "COMPLETED" <=> fulfillment[s] = "COMPLETED"
           /\ fulfillment[s] = "COMPLETED" =>
                orderOf'[s] = orderOf[s] /\ promised'[s] = promised[s],
         \A o \in Order :
           /\ orderStatus[o] \notin {"NONE", "QUOTED"} => orderStatus'[o] \notin {"NONE", "QUOTED"}
           /\ orderStatus[o] = "NONE" \/ ordered'[o] = ordered[o]
  PROVE  DocumentsInv'
<1>1. Unmoved' = Unmoved /\ \A o \in Order : Finished(o)' = Finished(o)
  BY DEF Unmoved, Finished
<1>2. EffectsInOrder' /\ FinishedInOrder'
  BY DEF DocumentsInv, EffectsInOrder, FinishedInOrder
<1>3. StockCoversPending'
  <2>1. IsFiniteSet(Unmoved) /\ \A s \in Unmoved : quantity[s] = quantity'[s]
    BY SalesAreFinite DEF Unmoved
  <2>2. SumFunctionOnSet(quantity, Unmoved) = SumFunctionOnSet(quantity', Unmoved)
    BY <2>1, SumEqual
  <2>3. QED
    BY <1>1, <2>2 DEF DocumentsInv, StockCoversPending, Unmoved
<1>4. ASSUME NEW o \in Order
      PROVE  fulfilled[o] = Least(ordered'[o], SumFunctionOnSet(promised', Finished(o)))
  <2>1. IsFiniteSet(Finished(o)) /\ \A s \in Finished(o) : promised[s] = promised'[s]
    BY SalesAreFinite DEF Finished
  <2>2. SumFunctionOnSet(promised, Finished(o)) = SumFunctionOnSet(promised', Finished(o))
    BY <2>1, SumEqual
  <2>3. fulfilled[o] = Least(ordered[o], SumFunctionOnSet(promised, Finished(o)))
    BY DEF DocumentsInv, FulfilledMatchesDocuments, Finished
  <2>4. CASE orderStatus[o] = "NONE"
    <3>1. Finished(o) = {} /\ fulfilled[o] = 0
      BY <2>4 DEF Finished, DocumentsInv, FinishedInOrder, IInv, Untouched
    <3>2. SumFunctionOnSet(promised', Finished(o)) = 0
      BY <3>1, SumEmpty
    <3>3. ordered'[o] \in Nat
      BY CountsAreNat DEF IInv, TypeOK
    <3>4. QED
      BY <3>1, <3>2, <3>3 DEF Least
  <2>5. QED
    BY <2>2, <2>3, <2>4
<1>5. FulfilledMatchesDocuments'
  BY <1>1, <1>4 DEF FulfilledMatchesDocuments, Finished
<1>6. QED
  BY <1>2, <1>3, <1>5 DEF DocumentsInv

\* What is available covers what completed sales are still to take.
LEMMA SoldIsCovered ==
  ASSUME DocumentsInv, NEW s \in Sale, saleStatus[s] # "COMPLETED", NEW n \in Nat, NEW source,
         IsAvailable(n, source), quantity'[s] = n, balance' = balance,
         Unmoved' = Unmoved \union {s}, \A t \in Unmoved : quantity'[t] = quantity[t]
  PROVE  StockCoversPending'
<1> DEFINE Due == {t \in Sale : saleStatus[t] = "COMPLETED" /\ t \notin applied}
           Others == {o \in Order : reservation[o] = "ACTIVE" /\ o # source}
           Left == [o \in Order |-> ordered[o] - consumed[o]]
<1>1. TypeOK
  BY DEF DocumentsInv, IInv
<1>2. SumFunctionOnSet(quantity, Unmoved) <= Committed /\ Committed \in Nat
  <2>1. Unmoved \in SUBSET Due /\ Due \in SUBSET Sale
    BY DEF Unmoved, DocumentsInv, EffectsInOrder
  <2>2. IsFiniteSet(Due) /\ \A t \in Due : quantity[t] \in Nat
    BY <1>1, <2>1, SalesAreFinite, CountsAreNat
  <2>3. QED
    BY <2>1, <2>2, SumOfPart DEF Committed
<1>3. Reserved(source) \in Nat
  <2>1. IsFiniteSet(Others)
    BY SalesOrdersAssumption, FS_Subset
  <2>2. \A o \in Others : Left[o] \in Nat
    BY <1>1, CountsAreNat DEF DocumentsInv, IInv, Counted
  <2>3. SumFunctionOnSet(Left, Others) \in Nat
    BY <2>1, <2>2, SumIsNat
  <2>4. QED
    BY <2>3 DEF Reserved
<1>4. n <= balance - Reserved(source) - Committed
  BY DEF IsAvailable
<1>5. SumFunctionOnSet(quantity', Unmoved \union {s}) = n + SumFunctionOnSet(quantity, Unmoved)
  <2>1. IsFiniteSet(Unmoved) /\ s \notin Unmoved /\ Unmoved \in SUBSET Sale
    BY SalesAreFinite DEF Unmoved
  <2>2. \A t \in Unmoved : quantity[t] = quantity'[t] /\ quantity[t] \in Nat
    BY <1>1, <2>1, CountsAreNat
  <2>3. \A t \in Unmoved \union {s} : quantity'[t] \in Int
    BY <2>2
  <2>4. SumFunctionOnSet(quantity', Unmoved \union {s})
          = quantity'[s] + SumFunctionOnSet(quantity', Unmoved)
    BY <2>1, <2>3, SumAdd
  <2>5. SumFunctionOnSet(quantity, Unmoved) = SumFunctionOnSet(quantity', Unmoved)
    BY <2>1, <2>2, SumEqual
  <2>6. QED
    BY <2>4, <2>5
<1>6. SumFunctionOnSet(quantity', Unmoved \union {s}) <= balance
  BY <1>1, <1>2, <1>3, <1>4, <1>5, CountsAreNat, UnmovedIsNat
<1>7. QED
  BY <1>6 DEF StockCoversPending, Unmoved

\* A fulfillment that is finished adds what it promised, up to what was ordered.
LEMMA FulfillingIsCounted ==
  ASSUME DocumentsInv, NEW o \in Order, NEW s \in Sale, s \notin Finished(o), NEW n \in Nat,
         Fulfill(o, n), ordered' = ordered, promised'[s] = n,
         Finished(o)' = Finished(o) \union {s},
         \A t \in Finished(o) : promised'[t] = promised[t],
         \A p \in Order \ {o} : Finished(p)' = Finished(p)
           /\ \A t \in Finished(p) : promised'[t] = promised[t]
  PROVE  FulfilledMatchesDocuments'
<1>1. TypeOK
  BY DEF DocumentsInv, IInv
<1>2. /\ fulfilled'[o] = Least(ordered[o], fulfilled[o] + n)
      /\ \A p \in Order \ {o} : fulfilled'[p] = fulfilled[p]
  BY <1>1 DEF Fulfill, TypeOK
<1>3. \A p \in Order : fulfilled[p] = Least(ordered[p], SumFunctionOnSet(promised, Finished(p)))
  BY DEF DocumentsInv, FulfilledMatchesDocuments, Finished
<1>4. ASSUME NEW p \in Order
      PROVE  fulfilled'[p] = Least(ordered[p], SumFunctionOnSet(promised', Finished(p)'))
  <2>1. IsFiniteSet(Finished(p)) /\ Finished(p) \in SUBSET Sale
    BY SalesAreFinite DEF Finished
  <2>2. \A t \in Finished(p) : promised[t] = promised'[t] /\ promised[t] \in Nat
    BY <1>1, <2>1, CountsAreNat
  <2>3. SumFunctionOnSet(promised, Finished(p)) = SumFunctionOnSet(promised', Finished(p))
    BY <2>1, <2>2, SumEqual
  <2>4. CASE p = o
    <3>1. \A t \in Finished(o) \union {s} : promised'[t] \in Int
      BY <2>2, <2>4
    <3>2. SumFunctionOnSet(promised', Finished(o) \union {s})
            = promised'[s] + SumFunctionOnSet(promised', Finished(o))
      BY <2>1, <2>4, <3>1, SumAdd
    <3>3. SumFunctionOnSet(promised', Finished(o)') = n + SumFunctionOnSet(promised, Finished(o))
      BY <2>3, <2>4, <3>2
    <3>4. SumFunctionOnSet(promised, Finished(o)) \in Nat /\ ordered[o] \in Nat
      BY <1>1, FinishedIsNat, CountsAreNat
    <3>5. Least(ordered[o], Least(ordered[o], SumFunctionOnSet(promised, Finished(o))) + n)
            = Least(ordered[o], n + SumFunctionOnSet(promised, Finished(o)))
      BY <3>4 DEF Least
    <3>6. QED
      BY <1>2, <1>3, <2>4, <3>3, <3>5
  <2>5. CASE p # o
    BY <1>2, <1>3, <2>3, <2>5
  <2>6. QED
    BY <2>4, <2>5
<1>5. QED
  BY <1>4 DEF FulfilledMatchesDocuments, Finished

LEMMA FulfillOrderKeepsDocuments ==
  ASSUME DocumentsInv, IInv', NEW o \in Order, NEW s \in Sale, NEW n \in 1..MaxQuantity,
         FulfillOrder(o, s, n)
  PROVE  DocumentsInv'
<1>1. /\ saleStatus[s] = "NONE" /\ IsAvailable(n, o) /\ Fulfill(o, n) /\ n \in Nat
      /\ UNCHANGED <<ordered, reservation, consumed, balance, moved, applied>>
      /\ orderStatus'[o] \in {"PARTIALLY_FULFILLED", "FULFILLED"}
      /\ \A p \in Order \ {o} : orderStatus'[p] = orderStatus[p]
  BY DEF FulfillOrder, Fulfill, stock, DocumentsInv, IInv, TypeOK
<1>2. /\ saleStatus'[s] = "COMPLETED" /\ quantity'[s] = n /\ fulfillment'[s] = "COMPLETED"
      /\ orderOf'[s] = o /\ promised'[s] = n
      /\ \A t \in Sale \ {s} :
           /\ saleStatus'[t] = saleStatus[t] /\ quantity'[t] = quantity[t]
           /\ fulfillment'[t] = fulfillment[t] /\ orderOf'[t] = orderOf[t]
           /\ promised'[t] = promised[t]
  BY DEF FulfillOrder, DocumentsInv, IInv, TypeOK
<1>3. s \notin moved /\ fulfillment[s] # "COMPLETED"
  BY <1>1 DEF DocumentsInv, EffectsInOrder, FinishedInOrder
<1>4. EffectsInOrder' /\ FinishedInOrder'
  BY <1>1, <1>2 DEF DocumentsInv, EffectsInOrder, FinishedInOrder
<1>5. Unmoved' = Unmoved \union {s} /\ \A t \in Unmoved : quantity'[t] = quantity[t]
  BY <1>1, <1>2, <1>3 DEF Unmoved
<1>6. StockCoversPending'
  BY <1>1, <1>2, <1>5, SoldIsCovered
<1>7. /\ s \notin Finished(o) /\ Finished(o)' = Finished(o) \union {s}
      /\ \A p \in Order : \A t \in Finished(p) : promised'[t] = promised[t]
      /\ \A p \in Order \ {o} : Finished(p)' = Finished(p)
  BY <1>2, <1>3 DEF Finished
<1>8. FulfilledMatchesDocuments'
  BY <1>1, <1>2, <1>7, FulfillingIsCounted
<1>9. QED
  BY <1>4, <1>6, <1>8 DEF DocumentsInv

LEMMA CompleteSaleKeepsDocuments ==
  ASSUME DocumentsInv, IInv', NEW s \in Sale, CompleteSale(s)
  PROVE  DocumentsInv'
<1>1. /\ saleStatus[s] = "OPEN" /\ IsAvailable(quantity[s], orderOf[s])
      /\ UNCHANGED <<ordered, reservation, consumed, quantity, orderOf, promised>>
      /\ UNCHANGED <<balance, moved, applied>>
      /\ quantity[s] \in Nat /\ promised[s] \in Nat
  BY CountsAreNat DEF CompleteSale, stock, DocumentsInv, IInv
<1>2. saleStatus'[s] = "COMPLETED" /\ \A t \in Sale \ {s} : saleStatus'[t] = saleStatus[t]
  BY DEF CompleteSale, DocumentsInv, IInv, TypeOK
<1>3. s \notin moved /\ fulfillment[s] # "COMPLETED"
  BY <1>1 DEF DocumentsInv, EffectsInOrder, FinishedInOrder
<1>4. Unmoved' = Unmoved \union {s}
  BY <1>1, <1>2, <1>3 DEF Unmoved
<1>5. StockCoversPending'
  BY <1>1, <1>4, SoldIsCovered
<1>6. EffectsInOrder'
  BY <1>1, <1>2 DEF DocumentsInv, EffectsInOrder
<1>7. CASE orderOf[s] \in Order
  <2> DEFINE o == orderOf[s]
  <2>1. Fulfill(o, promised[s]) /\ fulfillment' = [fulfillment EXCEPT ![s] = "COMPLETED"]
    BY <1>7 DEF CompleteSale
  <2>2. /\ orderStatus'[o] \in {"PARTIALLY_FULFILLED", "FULFILLED"}
        /\ \A p \in Order \ {o} : orderStatus'[p] = orderStatus[p]
    BY <1>7, <2>1 DEF Fulfill, DocumentsInv, IInv, TypeOK
  <2>3. /\ fulfillment'[s] = "COMPLETED"
        /\ \A t \in Sale \ {s} : fulfillment'[t] = fulfillment[t]
    BY <2>1 DEF DocumentsInv, IInv, TypeOK
  <2>4. FinishedInOrder'
    BY <1>1, <1>2, <2>2, <2>3 DEF DocumentsInv, FinishedInOrder
  <2>5. /\ s \notin Finished(o) /\ Finished(o)' = Finished(o) \union {s}
        /\ \A p \in Order \ {o} : Finished(p)' = Finished(p)
    BY <1>1, <1>3, <2>3 DEF Finished
  <2>6. FulfilledMatchesDocuments'
    BY <1>1, <1>7, <2>1, <2>5, FulfillingIsCounted
  <2>7. QED
    BY <1>5, <1>6, <2>4, <2>6 DEF DocumentsInv
<1>8. CASE orderOf[s] \notin Order
  <2>1. UNCHANGED <<boundSale, fulfilled, orderStatus, fulfillment>>
    BY <1>8 DEF CompleteSale
  <2>2. FinishedInOrder' /\ FulfilledMatchesDocuments'
    BY <1>1, <1>2, <2>1 DEF DocumentsInv, FinishedInOrder, FulfilledMatchesDocuments
  <2>3. QED
    BY <1>5, <1>6, <2>2 DEF DocumentsInv
<1>9. QED
  BY <1>7, <1>8

\* The movement takes what the sale was to take, once, recorded as applied or not.
LEMMA EffectKeepsDocuments ==
  ASSUME DocumentsInv, IInv', NEW s \in Sale, HandleSale(s) \/ CrashInHandler(s)
  PROVE  DocumentsInv'
<1>1. /\ saleStatus[s] = "COMPLETED" /\ ApplySaleItems(s)
      /\ applied' \in {applied, applied \union {s}}
      /\ UNCHANGED <<orderStatus, ordered, fulfilled, saleStatus, quantity>>
      /\ UNCHANGED <<fulfillment, orderOf, promised>>
  BY DEF HandleSale, CrashInHandler, IsPending, orders, sales, fulfillments
<1>2. moved' = moved \union {s}
  BY <1>1 DEF ApplySaleItems
<1>3. EffectsInOrder' /\ FinishedInOrder'
  BY <1>1, <1>2 DEF DocumentsInv, EffectsInOrder, FinishedInOrder
<1>4. FulfilledMatchesDocuments'
  BY <1>1 DEF DocumentsInv, FulfilledMatchesDocuments
<1>5. Unmoved' = Unmoved \ {s} /\ Unmoved \in SUBSET Sale
  BY <1>1, <1>2 DEF Unmoved
<1>6. SumFunctionOnSet(quantity, Unmoved) <= balance
  BY DEF DocumentsInv, StockCoversPending, Unmoved
<1>7. SumFunctionOnSet(quantity, Unmoved \ {s}) <= balance'
  <2>1. CASE s \in moved
    <3>1. Unmoved \ {s} = Unmoved /\ balance' = balance
      BY <1>1, <2>1 DEF Unmoved, ApplySaleItems
    <3>2. QED
      BY <1>6, <3>1
  <2>2. CASE s \notin moved
    <3>1. s \in Unmoved /\ balance' = balance - quantity[s]
      BY <1>1, <2>2 DEF Unmoved, ApplySaleItems
    <3>2. IsFiniteSet(Unmoved) /\ \A t \in Unmoved : quantity[t] \in Nat
      BY <1>5, SalesAreFinite, CountsAreNat DEF DocumentsInv, IInv
    <3>3. SumFunctionOnSet(quantity, Unmoved)
            = quantity[s] + SumFunctionOnSet(quantity, Unmoved \ {s})
      BY <3>1, <3>2, SumRemove
    <3>4. IsFiniteSet(Unmoved \ {s}) /\ \A t \in Unmoved \ {s} : quantity[t] \in Nat
      BY <3>2, FS_Subset
    <3>5. SumFunctionOnSet(quantity, Unmoved \ {s}) \in Nat /\ quantity[s] \in Nat /\ balance \in Nat
      BY <3>1, <3>2, <3>4, SumIsNat, CountsAreNat DEF DocumentsInv, IInv
    <3>6. QED
      BY <1>6, <3>1, <3>3, <3>5
  <2>3. QED
    BY <2>1, <2>2
<1>8. StockCoversPending'
  BY <1>1, <1>5, <1>7 DEF StockCoversPending, Unmoved
<1>9. QED
  BY <1>3, <1>4, <1>8 DEF DocumentsInv

LEMMA OrderStepKeepsDocuments ==
  ASSUME DocumentsInv, IInv', NEW o \in Order, OrderStep(o)
  PROVE  DocumentsInv'
<1>1. CASE (\E n \in 1..MaxQuantity : CreateQuote(o, n)) \/ ConfirmOrder(o) \/ CancelOrder(o)
  <2>1. /\ UNCHANGED <<saleStatus, quantity, fulfillment, orderOf, promised, balance, moved>>
        /\ UNCHANGED <<applied, fulfilled>>
    BY <1>1 DEF CreateQuote, ConfirmOrder, CancelOrder, sales, fulfillments, stock
  <2>2. \A p \in Order :
          orderStatus[p] \notin {"NONE", "QUOTED"} => orderStatus'[p] \notin {"NONE", "QUOTED"}
    BY <1>1 DEF CreateQuote, ConfirmOrder, CancelOrder, DocumentsInv, IInv, TypeOK
  <2>3. \A p \in Order : orderStatus[p] = "NONE" \/ ordered'[p] = ordered[p]
    BY <1>1 DEF CreateQuote, ConfirmOrder, CancelOrder, DocumentsInv, IInv, TypeOK
  <2>4. QED
    BY <2>1, <2>2, <2>3, DocumentsStay
<1>2. ASSUME NEW s \in Sale, PrepareCheckout(o, s)
      PROVE  DocumentsInv'
  <2>1. /\ UNCHANGED <<orderStatus, ordered, fulfilled, balance, moved, applied>>
        /\ saleStatus[s] = "NONE"
    BY <1>2 DEF PrepareCheckout, orders, stock
  <2>2. fulfillment[s] # "COMPLETED"
    BY <2>1 DEF DocumentsInv, FinishedInOrder
  <2>3. /\ saleStatus'[s] = "OPEN" /\ fulfillment'[s] = "PENDING"
        /\ \A t \in Sale \ {s} :
             /\ saleStatus'[t] = saleStatus[t] /\ quantity'[t] = quantity[t]
             /\ fulfillment'[t] = fulfillment[t] /\ orderOf'[t] = orderOf[t]
             /\ promised'[t] = promised[t]
    BY <1>2 DEF PrepareCheckout, DocumentsInv, IInv, TypeOK
  <2>4. QED
    BY <2>1, <2>2, <2>3, DocumentsStay
<1>3. QED
  BY <1>1, <1>2, FulfillOrderKeepsDocuments DEF OrderStep

LEMMA SaleStepKeepsDocuments ==
  ASSUME DocumentsInv, IInv', NEW s \in Sale, SaleStep(s)
  PROVE  DocumentsInv'
<1>1. CASE OpenSale(s) \/ (\E n \in 0..MaxQuantity : ChangeItem(s, n)) \/ VoidSale(s)
  <2>1. UNCHANGED <<orderStatus, ordered, fulfilled, orderOf, promised, balance, moved, applied>>
    BY <1>1 DEF OpenSale, ChangeItem, VoidSale, orders, fulfillments, stock
  <2>2. \A t \in Sale : saleStatus'[t] = "COMPLETED" <=> saleStatus[t] = "COMPLETED"
    BY <1>1 DEF OpenSale, ChangeItem, VoidSale, DocumentsInv, IInv, TypeOK
  <2>3. \A t \in Sale : saleStatus[t] = "COMPLETED" => quantity'[t] = quantity[t]
    BY <1>1 DEF OpenSale, ChangeItem, VoidSale, DocumentsInv, IInv, TypeOK
  <2>4. \A t \in Sale : fulfillment'[t] = "COMPLETED" <=> fulfillment[t] = "COMPLETED"
    BY <1>1 DEF OpenSale, ChangeItem, VoidSale, fulfillments, DocumentsInv, IInv, TypeOK
  <2>5. QED
    BY <2>1, <2>2, <2>3, <2>4, DocumentsStay
<1>2. QED
  BY <1>1, CompleteSaleKeepsDocuments, EffectKeepsDocuments DEF SaleStep

LEMMA StepKeepsDocuments == DocumentsInv /\ [Next]_vars => DocumentsInv'
<1> SUFFICES ASSUME DocumentsInv, [Next]_vars
             PROVE  DocumentsInv'
  OBVIOUS
<1>1. IInv'
  BY StepKeepsIInv DEF DocumentsInv
<1>2. CASE UNCHANGED vars
  <2>1. /\ UNCHANGED <<orderStatus, ordered, fulfilled, saleStatus, quantity>>
        /\ UNCHANGED <<fulfillment, orderOf, promised, balance, moved, applied>>
    BY <1>2 DEF vars, orders, sales, fulfillments, stock
  <2>2. QED
    BY <1>1, <2>1, DocumentsStay
<1>3. QED
  BY <1>1, <1>2, OrderStepKeepsDocuments, SaleStepKeepsDocuments DEF Next

(* For any orders, sales and crashes, what completed sales are still to    *)
(* take is in stock: their effects cannot fail for want of it.             *)
THEOREM StockStaysCovered == Spec => []StockCoversPending
<1>1. DocumentsInv => StockCoversPending
  BY DEF DocumentsInv
<1>2. QED
  BY <1>1, InitKeepsDocuments, StepKeepsDocuments, PTL DEF Spec

(* An order is fulfilled by its finished fulfillments and nothing else.    *)
THEOREM FulfilledStaysDocumented == Spec => []FulfilledMatchesDocuments
<1>1. DocumentsInv => FulfilledMatchesDocuments
  BY DEF DocumentsInv
<1>2. QED
  BY <1>1, InitKeepsDocuments, StepKeepsDocuments, PTL DEF Spec

=============================================================================
