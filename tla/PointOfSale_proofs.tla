-------------------------- MODULE PointOfSale_proofs --------------------------
(***************************************************************************)
(* What is proved of PointOfSale for every number of products, terminals,  *)
(* sessions, sales and returns, every basket and payment, and any number   *)
(* of crashes.                                                             *)
(***************************************************************************)
EXTENDS PointOfSale, SumTheorems, TLAPS

USE DEF stockVars, cashVars, documents, delivery

LEMMA EventsOfRows ==
  /\ \A s \in Sale : <<"sale.completed", s>> \in Event /\ <<"sale.cancelled", s>> \in Event
  /\ \A r \in Return : <<"return.completed", r>> \in Event /\ <<"return.cancelled", r>> \in Event
BY DEF Event

LEMMA DocumentOfEvent ==
  ASSUME TypeOK, NEW e \in Event
  PROVE  /\ Document(e) \in SaleRow \union ReturnRow
         /\ Document(e).items \in Items /\ CashOf(e) \in Int
         /\ SessionOf(e) \in Session \union {NoSession}
         /\ Document(e).terminal \in Terminal \union {NoTerminal}
<1>1. CASE OfSale(e)
  <2>1. e[2] \in Sale
    BY <1>1 DEF OfSale, Event
  <2> QED
    BY <1>1, <2>1 DEF Document, CashOf, SessionOf, TypeOK, SaleRow
<1>2. CASE ~OfSale(e)
  <2>1. e[2] \in Return
    BY <1>2 DEF OfSale, Event
  <2> QED
    BY <1>2, <2>1 DEF Document, CashOf, SessionOf, TypeOK, ReturnRow
<1> QED BY <1>1, <1>2

-----------------------------------------------------------------------------
LEMMA TypeInit == Init => TypeOK
BY PointOfSaleAssumption DEF Init, TypeOK, SaleRow, ReturnRow, NewSale, NewReturn,
   Items, NoItems, Stock!InventoryInit, Cash!CashInit

LEMMA SaleStatusSet ==
  ASSUME sale \in [Sale -> SaleRow], NEW s \in Sale,
         NEW v \in {"OPEN", "SUSPENDED", "COMPLETED", "CANCELLED"},
         sale' = [sale EXCEPT ![s].status = v]
  PROVE  sale' \in [Sale -> SaleRow]
<1>1. sale[s] \in SaleRow
  OBVIOUS
<1>2. [sale[s] EXCEPT !.status = v] \in SaleRow
  BY <1>1 DEF SaleRow
<1> QED BY <1>2

LEMMA CashPosts ==
  ASSUME TypeOK, NEW e \in Event, NEW x \in Session, Cash!InsertMovements(x, e, CashOf(e))
  PROVE  /\ \/ posted[<<x, e>>] = 0 /\ posted' = [posted EXCEPT ![<<x, e>>] = 1]
            \/ posted[<<x, e>>] = 1 /\ UNCHANGED <<posted, ledger>>
         /\ \A y \in Session \ {x} : ledger'[y] = ledger[y]
         /\ ledger' \in [Session -> Int]
<1>1. posted[<<x, e>>] \in {0, 1} /\ CashOf(e) \in Int
  BY DocumentOfEvent DEF TypeOK
<1>2. CASE posted[<<x, e>>] = 0
  BY <1>1, <1>2 DEF Cash!InsertMovements, TypeOK
<1>3. CASE posted[<<x, e>>] = 1
  BY <1>3 DEF Cash!InsertMovements, TypeOK
<1> QED BY <1>1, <1>2, <1>3

LEMMA TypeStep == TypeOK /\ [Next]_vars => TypeOK'
<1> SUFFICES ASSUME TypeOK, [Next]_vars PROVE TypeOK'
  OBVIOUS
<1> USE PointOfSaleAssumption
<1>1. ASSUME NEW s \in Sale, SaleStep(s) PROVE TypeOK'
  <2>1. ASSUME NEW t \in Terminal, OpenSale(s, t) PROVE TypeOK'
    <3>1. sale' \in [Sale -> SaleRow]
      <4>1. sale[s] \in SaleRow
        BY DEF TypeOK
      <4>2. [sale[s] EXCEPT !.status = "OPEN", !.terminal = t] \in SaleRow
        BY <4>1 DEF SaleRow
      <4> QED BY <2>1, <4>2 DEF OpenSale, TypeOK
    <3> QED BY <2>1, <3>1 DEF OpenSale, TypeOK
  <2>2. ASSUME NEW p \in Product, NEW quantity \in 0..MaxQuantity,
               ChangeItem(s, p, quantity) PROVE TypeOK'
    <3>1. sale[s] \in SaleRow /\ [sale[s].items EXCEPT ![p] = quantity] \in Items
      BY DEF TypeOK, SaleRow, Items
    <3>2. sale' \in [Sale -> SaleRow]
      BY <2>2, <3>1 DEF ChangeItem, TypeOK, SaleRow
    <3> QED BY <2>2, <3>2 DEF ChangeItem, TypeOK
  <2>3. CASE SuspendSale(s)
    <3>1. sale' \in [Sale -> SaleRow]
      BY <2>3, SaleStatusSet DEF SuspendSale, TypeOK
    <3> QED BY <2>3, <3>1 DEF SuspendSale, TypeOK
  <2>4. CASE ResumeSale(s)
    <3>1. sale' \in [Sale -> SaleRow]
      BY <2>4, SaleStatusSet DEF ResumeSale, TypeOK
    <3> QED BY <2>4, <3>1 DEF ResumeSale, TypeOK
  <2>5. ASSUME NEW x \in Session, NEW pay \in Tender, CompleteSale(s, x, pay)
        PROVE TypeOK'
    <3>1. pay[1] \in Nat /\ pay[2] \in Nat
      OBVIOUS
    <3>2. sale' \in [Sale -> SaleRow]
      <4>1. sale[s] \in SaleRow
        BY DEF TypeOK
      <4>2. [sale[s] EXCEPT !.status = "COMPLETED", !.session = x,
                            !.cash = pay[1], !.other = pay[2]] \in SaleRow
        BY <3>1, <4>1 DEF SaleRow
      <4> QED BY <2>5, <4>2 DEF CompleteSale, TypeOK
    <3> QED BY <2>5, <3>2, EventsOfRows DEF CompleteSale, Emit, TypeOK
  <2>6. CASE VoidSale(s)
    <3>1. sale' \in [Sale -> SaleRow]
      BY <2>6, SaleStatusSet DEF VoidSale, TypeOK
    <3> QED BY <2>6, <3>1 DEF VoidSale, TypeOK
  <2>7. CASE CancelSale(s)
    <3>1. sale' \in [Sale -> SaleRow]
      BY <2>7, SaleStatusSet DEF CancelSale, TypeOK
    <3> QED BY <2>7, <3>1, EventsOfRows DEF CancelSale, Emit, TypeOK
  <2> QED BY <1>1, <2>1, <2>2, <2>3, <2>4, <2>5, <2>6, <2>7 DEF SaleStep
<1>2. ASSUME NEW r \in Return, ReturnStep(r) PROVE TypeOK'
  <2>1. ASSUME NEW s \in Sale, NEW t \in Terminal, NEW x \in Session, NEW items \in Items,
               NEW refund \in Tender, CreateReturn(r, s, t, x, items, refund)
        PROVE TypeOK'
    <3>1. refund[1] \in Nat
      OBVIOUS
    <3> QED BY <2>1, <3>1, EventsOfRows DEF CreateReturn, Emit, TypeOK, ReturnRow
  <2>2. CASE CancelReturn(r)
    <3>1. ret' \in [Return -> ReturnRow]
      <4>1. ret[r] \in ReturnRow
        BY DEF TypeOK
      <4>2. [ret[r] EXCEPT !.status = "CANCELLED"] \in ReturnRow
        BY <4>1 DEF ReturnRow
      <4> QED BY <2>2, <4>2 DEF CancelReturn, TypeOK
    <3> QED BY <2>2, <3>1, EventsOfRows DEF CancelReturn, Emit, TypeOK
  <2> QED BY <1>2, <2>1, <2>2 DEF ReturnStep
<1>3. ASSUME NEW x \in Session, CashStep(x) PROVE TypeOK'
  <2>1. ASSUME NEW t \in Terminal, NEW initial \in Float,
               Cash!OpenSession(x, t, initial) PROVE TypeOK'
    BY <1>3, <2>1 DEF CashStep, Cash!OpenSession, TypeOK
  <2>2. ASSUME NEW amount \in Int, Cash!MoveManually(x, amount) PROVE TypeOK'
    BY <1>3, <2>2 DEF CashStep, Cash!MoveManually, TypeOK
  <2>3. CASE Cash!CloseSession(x)
    BY <1>3, <2>3 DEF CashStep, Cash!CloseSession, TypeOK
  <2>4. ASSUME NEW amount \in Float \ {0}, Cash!AddSupply(x, amount) PROVE TypeOK'
    BY <2>2, <2>4 DEF Cash!AddSupply
  <2>5. ASSUME NEW amount \in Float \ {0}, Cash!Withdraw(x, amount) PROVE TypeOK'
    BY <2>2, <2>5 DEF Cash!Withdraw
  <2> QED BY <1>3, <2>1, <2>3, <2>4, <2>5 DEF CashStep
<1>4. CASE StockStep
  <2>1. PICK p \in Product, delta \in {-1, 1} : Stock!Adjust(p, delta)
    BY <1>4 DEF StockStep
  <2>2. balance' \in [Product -> Nat]
    BY <2>1 DEF Stock!Adjust, TypeOK
  <2>3. added' \in [Product -> Nat] /\ removed' \in [Product -> Nat]
    <3>1. CASE delta = -1
      BY <2>1, <3>1 DEF Stock!Adjust, TypeOK
    <3>2. CASE delta = 1
      BY <2>1, <3>2 DEF Stock!Adjust, TypeOK
    <3> QED BY <3>1, <3>2
  <2>4. adjustments' \in Nat /\ UNCHANGED stockRows
    BY <2>1 DEF Stock!Adjust, TypeOK
  <2> QED BY <1>4, <2>2, <2>3, <2>4 DEF StockStep, TypeOK
<1>5. CASE DeliveryStep
  <2>1. ASSUME NEW e \in Event, ApplyStock(e) PROVE TypeOK'
    <3>1. PICK sign \in {-1, 1} : Stock!MoveItems(e, Document(e).items, sign)
      BY <2>1 DEF ApplyStock, Stock!ApplySaleItems, Stock!ApplyReturnItems
    <3>2. Document(e).items \in [Product -> Int]
      BY DocumentOfEvent DEF Items
    <3>3. balance' \in [Product -> Nat] /\ stockRows' \in [Event -> {0, 1}]
      BY <3>1, <3>2 DEF Stock!MoveItems, TypeOK
    <3>4. UNCHANGED <<documents, cashVars, added, removed, adjustments,
                      emitted, dispatched, applied, crashes>>
      BY <2>1, <3>1 DEF ApplyStock, Stock!MoveItems, Returning
    <3>5. inFlight' = <<e, "stock">>
      BY <2>1 DEF ApplyStock, Returning
    <3> QED BY <3>3, <3>4, <3>5 DEF TypeOK, Effect
  <2>2. ASSUME NEW e \in Event, NEW x \in Session, ApplyCash(e, x) PROVE TypeOK'
    <3>2. posted' \in [Session \X Event -> {0, 1}] /\ ledger' \in [Session -> Int]
      <4>1. Cash!InsertMovements(x, e, CashOf(e))
        BY <2>2 DEF ApplyCash, Cash!Record
      <4> QED BY <4>1, CashPosts DEF TypeOK
    <3>3. expected' \in [Session -> Int]
      BY <2>2, <3>2 DEF ApplyCash, Cash!Record, Cash!RecalculateClosed, TypeOK
    <3>4. inFlight' \in Event \X Effect
      BY <2>2 DEF ApplyCash, Returning, Effect
    <3> QED BY <2>2, <3>2, <3>3, <3>4 DEF ApplyCash, Returning, Cash!Record, TypeOK
  <2>3. ASSUME NEW e \in Event, Dispatch(e) PROVE TypeOK'
    BY <2>3 DEF Dispatch, TypeOK
  <2>4. CASE MarkApplied
    BY <2>4 DEF MarkApplied, TypeOK
  <2> QED BY <1>5, <2>1, <2>2, <2>3, <2>4 DEF DeliveryStep
<1>6. CASE CrashStep
  <2>1. CASE Crash
    BY <2>1 DEF Crash, TypeOK
  <2>2. ASSUME NEW e \in Event, NEW x \in Session, CrashInCash(e, x) PROVE TypeOK'
    <3>2. posted' \in [Session \X Event -> {0, 1}] /\ ledger' \in [Session -> Int]
      <4>1. Cash!InsertMovements(x, e, CashOf(e))
        BY <2>2 DEF CrashInCash, Cash!RecordHalf
      <4> QED BY <4>1, CashPosts DEF TypeOK
    <3> QED BY <2>2, <3>2 DEF CrashInCash, Cash!RecordHalf, TypeOK
  <2> QED BY <1>6, <2>1, <2>2 DEF CrashStep
<1>7. CASE UNCHANGED vars
  BY <1>7 DEF vars, TypeOK
<1> QED BY <1>1, <1>2, <1>3, <1>4, <1>5, <1>6, <1>7 DEF Next

(* TypeOK holds always: no balance is ever negative, and no event has its  *)
(* stock or its cash movements written twice, whatever the effects'        *)
(* retries and the crashes between them.                                   *)
THEOREM TypeCorrect == Spec => []TypeOK
BY TypeInit, TypeStep, PTL DEF Spec

-----------------------------------------------------------------------------
(***************************************************************************)
(* How each step on the documents changes them, row by row.                *)
(***************************************************************************)
Others(s) == \A t \in Sale \ {s} : sale'[t] = sale[t]

LEMMA SaleStatusOnly ==
  ASSUME sale \in [Sale -> SaleRow], NEW s \in Sale, NEW v,
         sale' = [sale EXCEPT ![s].status = v]
  PROVE  /\ Others(s)
         /\ sale'[s].status = v /\ sale'[s].session = sale[s].session
         /\ sale'[s].terminal = sale[s].terminal
         /\ sale'[s].items = sale[s].items /\ sale'[s].cash = sale[s].cash
<1>1. sale[s] \in SaleRow
  OBVIOUS
<1>2. sale'[s] = [sale[s] EXCEPT !.status = v]
  OBVIOUS
<1>3. sale'[s].status = v /\ sale'[s].session = sale[s].session
      /\ sale'[s].terminal = sale[s].terminal
      /\ sale'[s].items = sale[s].items /\ sale'[s].cash = sale[s].cash
  BY <1>1, <1>2 DEF SaleRow
<1> QED BY <1>3 DEF Others

LEMMA CompletedRow ==
  ASSUME TypeOK, NEW s \in Sale, NEW x \in Session, NEW pay \in Tender,
         CompleteSale(s, x, pay)
  PROVE  /\ Others(s)
         /\ sale'[s].status = "COMPLETED" /\ sale'[s].session = x
         /\ sale'[s].terminal = sale[s].terminal /\ sale'[s].items = sale[s].items
<1>1. sale[s] \in SaleRow
  BY DEF TypeOK
<1>2. sale'[s] = [sale[s] EXCEPT !.status = "COMPLETED", !.session = x,
                                 !.cash = pay[1], !.other = pay[2]]
  BY DEF CompleteSale, TypeOK
<1>3. sale'[s].status = "COMPLETED" /\ sale'[s].session = x
      /\ sale'[s].terminal = sale[s].terminal /\ sale'[s].items = sale[s].items
  BY <1>1, <1>2 DEF SaleRow
<1> QED BY <1>3 DEF Others, CompleteSale, TypeOK

LEMMA CancelledRow ==
  ASSUME TypeOK, NEW r \in Return, CancelReturn(r)
  PROVE  /\ \A q \in Return \ {r} : ret'[q] = ret[q]
         /\ ret'[r].status = "CANCELLED" /\ ret'[r].session = ret[r].session
         /\ ret'[r].terminal = ret[r].terminal
         /\ ret'[r].items = ret[r].items /\ ret'[r].cash = ret[r].cash
<1>1. ret[r] \in ReturnRow
  BY DEF TypeOK
<1>2. ret'[r] = [ret[r] EXCEPT !.status = "CANCELLED"]
  BY DEF CancelReturn, TypeOK
<1>3. ret'[r].status = "CANCELLED" /\ ret'[r].session = ret[r].session
      /\ ret'[r].terminal = ret[r].terminal
      /\ ret'[r].items = ret[r].items /\ ret'[r].cash = ret[r].cash
  BY <1>1, <1>2 DEF ReturnRow
<1> QED BY <1>3 DEF CancelReturn, TypeOK

\* A step on sale s: it is drafted, completed or cancelled.
Draft == {"NONE", "OPEN", "SUSPENDED"}

Drafted(s) ==
  /\ sale[s].status \in Draft
  /\ sale'[s].status \in {"OPEN", "SUSPENDED", "CANCELLED"}
  /\ UNCHANGED emitted

Completed(s) ==
  \E x \in Session :
    /\ sale[s].status = "OPEN" /\ Cash!IsOpenOn(x, sale[s].terminal)
    /\ sale'[s].status = "COMPLETED" /\ sale'[s].session = x
    /\ sale'[s].terminal = sale[s].terminal
    /\ sale'[s].items = sale[s].items /\ IsAvailable(s)
    /\ emitted' = emitted \union {<<"sale.completed", s>>}

Cancelled(s) ==
  /\ sale[s].status = "COMPLETED" /\ sale'[s].status = "CANCELLED"
  /\ sale'[s].session = sale[s].session /\ sale'[s].terminal = sale[s].terminal
  /\ sale'[s].items = sale[s].items /\ sale'[s].cash = sale[s].cash
  /\ emitted' = emitted \union {<<"sale.cancelled", s>>}

LEMMA SaleStepChanges ==
  ASSUME TypeOK, NEW s \in Sale, SaleStep(s)
  PROVE  /\ Others(s) /\ UNCHANGED <<ret, stockVars, cashVars, dispatched, applied, inFlight>>
         /\ Drafted(s) \/ Completed(s) \/ Cancelled(s)
<1> DEFINE Goal == /\ Others(s)
                   /\ UNCHANGED <<ret, stockVars, cashVars, dispatched, applied, inFlight>>
                   /\ Drafted(s) \/ Completed(s) \/ Cancelled(s)
<1>0. sale \in [Sale -> SaleRow] /\ sale[s] \in SaleRow
  BY DEF TypeOK
<1>1. ASSUME NEW t \in Terminal, OpenSale(s, t) PROVE Goal
  <2>1. sale'[s] = [sale[s] EXCEPT !.status = "OPEN", !.terminal = t]
    BY <1>0, <1>1 DEF OpenSale
  <2>2. sale'[s].status = "OPEN"
    BY <1>0, <2>1 DEF SaleRow
  <2>3. Others(s)
    BY <1>0, <1>1 DEF OpenSale, Others
  <2> QED BY <1>1, <2>2, <2>3 DEF OpenSale, Drafted, Draft
<1>2. ASSUME NEW p \in Product, NEW quantity \in 0..MaxQuantity,
             ChangeItem(s, p, quantity) PROVE Goal
  <2>1. sale'[s] = [sale[s] EXCEPT !.items = [@ EXCEPT ![p] = quantity]]
    BY <1>0, <1>2 DEF ChangeItem
  <2>2. sale'[s].status = sale[s].status
    BY <1>0, <2>1 DEF SaleRow
  <2>3. Others(s)
    BY <1>0, <1>2 DEF ChangeItem, Others
  <2> QED BY <1>2, <2>2, <2>3 DEF ChangeItem, Drafted, Draft
<1>3. CASE SuspendSale(s)
  BY <1>0, <1>3, SaleStatusOnly DEF SuspendSale, Drafted, Draft
<1>4. CASE ResumeSale(s)
  BY <1>0, <1>4, SaleStatusOnly DEF ResumeSale, Drafted, Draft
<1>5. ASSUME NEW x \in Session, NEW pay \in Tender, CompleteSale(s, x, pay) PROVE Goal
  BY <1>5, CompletedRow DEF CompleteSale, Emit, Completed
<1>6. CASE VoidSale(s)
  BY <1>0, <1>6, SaleStatusOnly DEF VoidSale, Drafted, Draft
<1>7. CASE CancelSale(s)
  BY <1>0, <1>7, SaleStatusOnly DEF CancelSale, Emit, Cancelled
<1> QED BY <1>1, <1>2, <1>3, <1>4, <1>5, <1>6, <1>7 DEF SaleStep

\* A step on return r: it is made or cancelled.
Made(r) ==
  \E x \in Session :
    /\ ret[r].status = "NONE" /\ Cash!IsOpenOn(x, ret'[r].terminal)
    /\ ret'[r].status = "COMPLETED" /\ ret'[r].session = x
    /\ emitted' = emitted \union {<<"return.completed", r>>}

Unmade(r) ==
  /\ ret[r].status = "COMPLETED" /\ ret'[r].status = "CANCELLED"
  /\ ret'[r].session = ret[r].session /\ ret'[r].terminal = ret[r].terminal
  /\ ret'[r].items = ret[r].items /\ ret'[r].cash = ret[r].cash
  /\ emitted' = emitted \union {<<"return.cancelled", r>>}

LEMMA ReturnStepChanges ==
  ASSUME TypeOK, NEW r \in Return, ReturnStep(r)
  PROVE  /\ \A q \in Return \ {r} : ret'[q] = ret[q]
         /\ UNCHANGED <<sale, stockVars, cashVars, dispatched, applied, inFlight>>
         /\ Made(r) \/ Unmade(r)
<1>1. ASSUME NEW s \in Sale, NEW t \in Terminal, NEW x \in Session, NEW items \in Items,
             NEW refund \in Tender, CreateReturn(r, s, t, x, items, refund)
      PROVE  /\ \A q \in Return \ {r} : ret'[q] = ret[q]
             /\ UNCHANGED <<sale, stockVars, cashVars, dispatched, applied, inFlight>>
             /\ Made(r)
  BY <1>1 DEF CreateReturn, Emit, Made, TypeOK
<1>2. CASE CancelReturn(r)
  BY <1>2, CancelledRow DEF CancelReturn, Emit, Unmade
<1> QED BY <1>1, <1>2 DEF ReturnStep

-----------------------------------------------------------------------------
(***************************************************************************)
(* Which events the rows may have left, and which sessions they are of.    *)
(***************************************************************************)
Housed(d) ==
  d.session \in Session /\ status[d.session] # "NONE" /\ holder[d.session] = d.terminal

SalesAndEvents ==
  \A s \in Sale :
    /\ sale[s].status \in Draft => <<"sale.completed", s>> \notin emitted
    /\ sale[s].status # "CANCELLED" => <<"sale.cancelled", s>> \notin emitted
    /\ sale[s].status \in Draft => <<"sale.cancelled", s>> \notin emitted
    /\ sale[s].status = "COMPLETED" => Housed(sale[s])

ReturnsAndEvents ==
  \A r \in Return :
    /\ ret[r].status = "NONE" => <<"return.completed", r>> \notin emitted
    /\ ret[r].status # "CANCELLED" => <<"return.cancelled", r>> \notin emitted
    /\ ret[r].status = "COMPLETED" => Housed(ret[r])

EventsHoused == \A e \in emitted : Housed(Document(e))

Rows == SalesAndEvents /\ ReturnsAndEvents /\ EventsHoused

\* A session, once there, stays and stays on its terminal.
LEMMA SessionsStay ==
  ASSUME TypeOK, [Next]_vars, NEW x \in Session, status[x] # "NONE"
  PROVE  status'[x] # "NONE" /\ holder'[x] = holder[x]
<1>1. ASSUME NEW y \in Session, CashStep(y)
      PROVE  status'[x] # "NONE" /\ holder'[x] = holder[x]
  <2>1. ASSUME NEW t \in Terminal, NEW initial \in Float, Cash!OpenSession(y, t, initial)
        PROVE  status'[x] # "NONE" /\ holder'[x] = holder[x]
    BY <2>1 DEF Cash!OpenSession, TypeOK
  <2>2. ASSUME NEW amount, Cash!MoveManually(y, amount)
        PROVE  status'[x] # "NONE" /\ holder'[x] = holder[x]
    BY <2>2 DEF Cash!MoveManually
  <2>3. CASE Cash!CloseSession(y)
    BY <2>3 DEF Cash!CloseSession, TypeOK
  <2> QED BY <1>1, <2>1, <2>2, <2>3 DEF CashStep, Cash!AddSupply, Cash!Withdraw
<1>2. ASSUME UNCHANGED <<status, holder>>
      PROVE  status'[x] # "NONE" /\ holder'[x] = holder[x]
  BY <1>2
<1>3. ASSUME NEW s \in Sale, SaleStep(s) PROVE UNCHANGED <<status, holder>>
  BY <1>3, SaleStepChanges
<1>4. ASSUME NEW r \in Return, ReturnStep(r) PROVE UNCHANGED <<status, holder>>
  BY <1>4, ReturnStepChanges
<1>5. StockStep => UNCHANGED <<status, holder>>
  BY DEF StockStep
<1>6. DeliveryStep => UNCHANGED <<status, holder>>
  BY DEF DeliveryStep, ApplyStock, ApplyCash, Cash!Record, Dispatch, MarkApplied
<1>7. CrashStep => UNCHANGED <<status, holder>>
  BY DEF CrashStep, Crash, CrashInCash, Cash!RecordHalf
<1>8. UNCHANGED vars => UNCHANGED <<status, holder>>
  BY DEF vars
<1> QED BY <1>1, <1>2, <1>3, <1>4, <1>5, <1>6, <1>7, <1>8 DEF Next

-----------------------------------------------------------------------------
(***************************************************************************)
(* What the effects wrote, against the marks that say so.                  *)
(***************************************************************************)
Finished == applied \union {inFlight}

\* Only events in the outbox write, and their cash goes where they say.
Written ==
  /\ \A e \in Event : stockRows[e] = 1 => e \in emitted
  /\ \A e \in Event, x \in Session :
       posted[<<x, e>>] = 1 => e \in emitted /\ SessionOf(e) = x

\* An effect whose handler returned has written.
Marked ==
  \A e \in Event :
    /\ <<e, "stock">> \in Finished => e \in emitted /\ stockRows[e] = 1
    /\ <<e, "cash">> \in Finished => e \in emitted /\ posted[<<SessionOf(e), e>>] = 1

DispatchedMarked == \A e \in dispatched : \A f \in Effect : <<e, f>> \in applied

\* A closed session expects its ledger, unless the effect of an event that
\* wrote in it has still to be run again.
Current ==
  \A x \in Session :
    status[x] = "CLOSED" =>
      \/ expected[x] = ledger[x]
      \/ \E e \in Event : posted[<<x, e>>] = 1 /\ <<e, "cash">> \notin Finished

IInv == TypeOK /\ Rows /\ Written /\ Marked /\ DispatchedMarked /\ Current

-----------------------------------------------------------------------------
LEMMA HousedStays ==
  ASSUME TypeOK, [Next]_vars, NEW d, Housed(d), NEW n,
         n.session = d.session, n.terminal = d.terminal
  PROVE  /\ n.session \in Session
         /\ status'[n.session] # "NONE" /\ holder'[n.session] = n.terminal
BY SessionsStay DEF Housed

LEMMA NextKinds ==
  ASSUME TypeOK, [Next]_vars
  PROVE  \/ \E s \in Sale : SaleStep(s)
         \/ \E r \in Return : ReturnStep(r)
         \/ UNCHANGED <<sale, ret, emitted>>
<1>1. \A x \in Session : CashStep(x) => UNCHANGED <<sale, ret, emitted>>
  BY DEF CashStep
<1>2. StockStep => UNCHANGED <<sale, ret, emitted>>
  BY DEF StockStep
<1>3. DeliveryStep => UNCHANGED <<sale, ret, emitted>>
  BY DEF DeliveryStep, ApplyStock, ApplyCash, Returning, Dispatch, MarkApplied
<1>4. CrashStep => UNCHANGED <<sale, ret, emitted>>
  BY DEF CrashStep, Crash, CrashInCash
<1>5. UNCHANGED vars => UNCHANGED <<sale, ret, emitted>>
  BY DEF vars
<1> QED BY <1>1, <1>2, <1>3, <1>4, <1>5 DEF Next

LEMMA RowsInit == Init => Rows
BY DEF Init, Rows, SalesAndEvents, ReturnsAndEvents, EventsHoused, NewSale, NewReturn

\* The event of a sale that is not a draft, of a return that was made.
LEMMA EventRow ==
  ASSUME TypeOK, Rows, NEW e \in emitted
  PROVE  \/ /\ e[2] \in Sale /\ OfSale(e) /\ sale[e[2]].status \notin Draft
            /\ e[1] = "sale.cancelled" => sale[e[2]].status = "CANCELLED"
         \/ /\ e[2] \in Return /\ ~OfSale(e) /\ ret[e[2]].status # "NONE"
            /\ e[1] = "return.cancelled" => ret[e[2]].status = "CANCELLED"
<1>1. e \in Event
  BY DEF TypeOK
<1>2. ASSUME NEW s \in Sale, e = <<"sale.completed", s>> \/ e = <<"sale.cancelled", s>>
      PROVE  /\ e[2] \in Sale /\ OfSale(e) /\ sale[e[2]].status \notin Draft
             /\ e[1] = "sale.cancelled" => sale[e[2]].status = "CANCELLED"
  <2>1. e[2] = s /\ OfSale(e)
    BY <1>2 DEF OfSale
  <2>2. CASE e = <<"sale.completed", s>>
    <3>1. e[1] # "sale.cancelled" /\ <<"sale.completed", s>> \in emitted
      BY <2>2
    <3>2. sale[s].status \notin Draft
      BY <3>1 DEF Rows, SalesAndEvents
    <3> QED BY <2>1, <3>1, <3>2
  <2>3. CASE e = <<"sale.cancelled", s>>
    BY <2>1, <2>3 DEF Rows, SalesAndEvents
  <2> QED BY <1>2, <2>2, <2>3
<1>3. ASSUME NEW r \in Return,
             e = <<"return.completed", r>> \/ e = <<"return.cancelled", r>>
      PROVE  /\ e[2] \in Return /\ ~OfSale(e) /\ ret[e[2]].status # "NONE"
             /\ e[1] = "return.cancelled" => ret[e[2]].status = "CANCELLED"
  <2>1. e[2] = r /\ ~OfSale(e)
    BY <1>3 DEF OfSale
  <2>2. CASE e = <<"return.completed", r>>
    <3>1. e[1] # "return.cancelled" /\ <<"return.completed", r>> \in emitted
      BY <2>2
    <3>2. ret[r].status # "NONE"
      BY <3>1 DEF Rows, ReturnsAndEvents
    <3> QED BY <2>1, <3>1, <3>2
  <2>3. CASE e = <<"return.cancelled", r>>
    <3>1. <<"return.cancelled", r>> \in emitted
      BY <2>3
    <3>2. ret[r].status = "CANCELLED"
      BY <3>1 DEF Rows, ReturnsAndEvents
    <3> QED BY <2>1, <3>2
  <2> QED BY <1>3, <2>2, <2>3
<1>4. \/ \E s \in Sale : e = <<"sale.completed", s>> \/ e = <<"sale.cancelled", s>>
      \/ \E r \in Return : e = <<"return.completed", r>> \/ e = <<"return.cancelled", r>>
  BY <1>1 DEF Event
<1> QED BY <1>2, <1>3, <1>4

\* What an emitted event says never changes.
SamePayload(e) ==
  /\ Document(e)'.session = Document(e).session
  /\ Document(e)'.terminal = Document(e).terminal
  /\ Document(e)'.items = Document(e).items
  /\ Document(e)'.cash = Document(e).cash

LEMMA PayloadStays ==
  ASSUME TypeOK, Rows, [Next]_vars, NEW e \in emitted
  PROVE  SamePayload(e)
<1>1. ASSUME NEW s \in Sale, SaleStep(s)
      PROVE  SamePayload(e)
  <2>1. /\ Others(s) /\ UNCHANGED ret
        /\ Drafted(s) \/ Completed(s) \/ Cancelled(s)
    BY <1>1, SaleStepChanges
  <2>2. CASE ~OfSale(e) \/ e[2] # s
    BY <2>1, <2>2, EventRow DEF Document, Others, OfSale, SamePayload
  <2>3. CASE OfSale(e) /\ e[2] = s
    <3>1. sale[s].status \notin Draft
      BY <2>3, EventRow
    <3>2. Cancelled(s)
      BY <2>1, <3>1 DEF Drafted, Completed, Draft
    <3> QED BY <2>3, <3>2 DEF Document, OfSale, Cancelled, SamePayload
  <2> QED BY <2>2, <2>3
<1>2. ASSUME NEW r \in Return, ReturnStep(r)
      PROVE  SamePayload(e)
  <2>1. /\ \A q \in Return \ {r} : ret'[q] = ret[q]
        /\ UNCHANGED sale
        /\ Made(r) \/ Unmade(r)
    BY <1>2, ReturnStepChanges
  <2>2. CASE OfSale(e) \/ e[2] # r
    BY <2>1, <2>2, EventRow DEF Document, OfSale, SamePayload
  <2>3. CASE ~OfSale(e) /\ e[2] = r
    <3>1. ret[r].status # "NONE"
      BY <2>3, EventRow
    <3>2. Unmade(r)
      BY <2>1, <3>1 DEF Made
    <3> QED BY <2>3, <3>2 DEF Document, OfSale, Unmade, SamePayload
  <2> QED BY <2>2, <2>3
<1>3. CASE UNCHANGED <<sale, ret, emitted>>
  BY <1>3 DEF Document, OfSale, SamePayload
<1> QED BY <1>1, <1>2, <1>3, NextKinds

LEMMA OldEventsStayHoused ==
  ASSUME TypeOK, Rows, [Next]_vars, NEW e \in emitted
  PROVE  Housed(Document(e))'
<1>1. Housed(Document(e))
  BY DEF Rows, EventsHoused
<1> QED BY <1>1, PayloadStays, HousedStays DEF Housed, SamePayload

LEMMA RowsAfterSaleStep ==
  ASSUME TypeOK, Rows, [Next]_vars, NEW s \in Sale, SaleStep(s)
  PROVE  Rows'
<1>1. /\ Others(s) /\ UNCHANGED <<ret, status, holder>>
      /\ Drafted(s) \/ Completed(s) \/ Cancelled(s)
  BY SaleStepChanges
<1>2. emitted' \subseteq emitted \union {<<"sale.completed", s>>, <<"sale.cancelled", s>>}
  BY <1>1 DEF Drafted, Completed, Cancelled
<1>3. ReturnsAndEvents'
  <2>1. \A r \in Return : /\ <<"return.completed", r>> \in emitted' => <<"return.completed", r>> \in emitted
                          /\ <<"return.cancelled", r>> \in emitted' => <<"return.cancelled", r>> \in emitted
    BY <1>2
  <2> QED BY <1>1, <2>1 DEF Rows, ReturnsAndEvents, Housed
<1>4. ASSUME NEW t \in Sale \ {s}
      PROVE  /\ sale'[t].status \in Draft => <<"sale.completed", t>> \notin emitted'
             /\ sale'[t].status # "CANCELLED" => <<"sale.cancelled", t>> \notin emitted'
             /\ sale'[t].status \in Draft => <<"sale.cancelled", t>> \notin emitted'
             /\ sale'[t].status = "COMPLETED" => Housed(sale[t])'
  <2>1. sale'[t] = sale[t]
    BY <1>1 DEF Others
  <2>2. /\ <<"sale.completed", t>> \in emitted' => <<"sale.completed", t>> \in emitted
        /\ <<"sale.cancelled", t>> \in emitted' => <<"sale.cancelled", t>> \in emitted
    BY <1>2
  <2> QED BY <1>1, <2>1, <2>2 DEF Rows, SalesAndEvents, Housed
<1>5. /\ sale'[s].status \in Draft => <<"sale.completed", s>> \notin emitted'
      /\ sale'[s].status # "CANCELLED" => <<"sale.cancelled", s>> \notin emitted'
      /\ sale'[s].status \in Draft => <<"sale.cancelled", s>> \notin emitted'
      /\ sale'[s].status = "COMPLETED" => Housed(sale[s])'
  <2>1. CASE Drafted(s)
    BY <2>1 DEF Rows, SalesAndEvents, Drafted, Draft
  <2>2. CASE Completed(s)
    <3>1. Housed(sale[s])'
      BY <1>1, <2>2 DEF Completed, Housed, Cash!IsOpenOn
    <3>2. <<"sale.cancelled", s>> \notin emitted'
      BY <2>2 DEF Completed, Rows, SalesAndEvents, Draft
    <3>3. sale'[s].status \notin Draft
      BY <2>2 DEF Completed, Draft
    <3> QED BY <3>1, <3>2, <3>3
  <2>3. CASE Cancelled(s)
    BY <2>3 DEF Cancelled, Draft
  <2> QED BY <1>1, <2>1, <2>2, <2>3
<1>6. SalesAndEvents'
  BY <1>4, <1>5 DEF SalesAndEvents
<1>7. ASSUME NEW e \in emitted' \ emitted PROVE Housed(Document(e))'
  <2>1. (e = <<"sale.completed", s>> /\ Completed(s)) \/ (e = <<"sale.cancelled", s>> /\ Cancelled(s))
    BY <1>1 DEF Drafted, Completed, Cancelled
  <2>2. Document(e)' = sale'[s]
    BY <2>1 DEF Document, OfSale
  <2>3. CASE Completed(s)
    BY <1>1, <2>2, <2>3 DEF Completed, Housed, Cash!IsOpenOn
  <2>4. CASE Cancelled(s)
    <3>1. Housed(sale[s])
      BY <2>4 DEF Cancelled, Rows, SalesAndEvents
    <3> QED BY <1>1, <2>2, <2>4, <3>1 DEF Cancelled, Housed
  <2> QED BY <2>1, <2>3, <2>4
<1>8. EventsHoused'
  BY <1>7, OldEventsStayHoused DEF EventsHoused
<1> QED BY <1>3, <1>6, <1>8 DEF Rows

LEMMA RowsAfterReturnStep ==
  ASSUME TypeOK, Rows, [Next]_vars, NEW r \in Return, ReturnStep(r)
  PROVE  Rows'
<1>1. /\ \A q \in Return \ {r} : ret'[q] = ret[q]
      /\ UNCHANGED <<sale, status, holder>>
      /\ Made(r) \/ Unmade(r)
  BY ReturnStepChanges
<1>2. emitted' \subseteq emitted \union {<<"return.completed", r>>, <<"return.cancelled", r>>}
  BY <1>1 DEF Made, Unmade
<1>3. SalesAndEvents'
  <2>1. \A s \in Sale : /\ <<"sale.completed", s>> \in emitted' => <<"sale.completed", s>> \in emitted
                        /\ <<"sale.cancelled", s>> \in emitted' => <<"sale.cancelled", s>> \in emitted
    BY <1>2
  <2> QED BY <1>1, <2>1 DEF Rows, SalesAndEvents, Housed
<1>4. ASSUME NEW q \in Return \ {r}
      PROVE  /\ ret'[q].status = "NONE" => <<"return.completed", q>> \notin emitted'
             /\ ret'[q].status # "CANCELLED" => <<"return.cancelled", q>> \notin emitted'
             /\ ret'[q].status = "COMPLETED" => Housed(ret[q])'
  <2>1. /\ <<"return.completed", q>> \in emitted' => <<"return.completed", q>> \in emitted
        /\ <<"return.cancelled", q>> \in emitted' => <<"return.cancelled", q>> \in emitted
    BY <1>2
  <2> QED BY <1>1, <2>1 DEF Rows, ReturnsAndEvents, Housed
<1>5. /\ ret'[r].status = "NONE" => <<"return.completed", r>> \notin emitted'
      /\ ret'[r].status # "CANCELLED" => <<"return.cancelled", r>> \notin emitted'
      /\ ret'[r].status = "COMPLETED" => Housed(ret[r])'
  <2>1. CASE Made(r)
    <3>1. Housed(ret[r])'
      BY <1>1, <2>1 DEF Made, Housed, Cash!IsOpenOn
    <3>2. <<"return.cancelled", r>> \notin emitted'
      BY <2>1 DEF Made, Rows, ReturnsAndEvents
    <3> QED BY <2>1, <3>1, <3>2 DEF Made
  <2>2. CASE Unmade(r)
    BY <2>2 DEF Unmade
  <2> QED BY <1>1, <2>1, <2>2
<1>6. ReturnsAndEvents'
  BY <1>4, <1>5 DEF ReturnsAndEvents
<1>7. ASSUME NEW e \in emitted' \ emitted PROVE Housed(Document(e))'
  <2>1. \/ e = <<"return.completed", r>> /\ Made(r)
        \/ e = <<"return.cancelled", r>> /\ Unmade(r)
    BY <1>1 DEF Made, Unmade
  <2>2. Document(e)' = ret'[r]
    BY <2>1 DEF Document, OfSale
  <2>3. CASE Made(r)
    BY <1>1, <2>2, <2>3 DEF Made, Housed, Cash!IsOpenOn
  <2>4. CASE Unmade(r)
    <3>1. Housed(ret[r])
      BY <2>4 DEF Unmade, Rows, ReturnsAndEvents
    <3> QED BY <1>1, <2>2, <2>4, <3>1 DEF Unmade, Housed
  <2> QED BY <2>1, <2>3, <2>4
<1>8. EventsHoused'
  BY <1>7, OldEventsStayHoused DEF EventsHoused
<1> QED BY <1>3, <1>6, <1>8 DEF Rows

LEMMA RowsStep == TypeOK /\ Rows /\ [Next]_vars => Rows'
<1> SUFFICES ASSUME TypeOK, Rows, [Next]_vars PROVE Rows'
  OBVIOUS
<1>1. CASE UNCHANGED <<sale, ret, emitted>>
  <2>1. SalesAndEvents'
    BY <1>1, HousedStays DEF Rows, SalesAndEvents, Housed
  <2>2. ReturnsAndEvents'
    BY <1>1, HousedStays DEF Rows, ReturnsAndEvents, Housed
  <2>3. EventsHoused'
    BY <1>1, OldEventsStayHoused DEF EventsHoused
  <2> QED BY <2>1, <2>2, <2>3 DEF Rows
<1> QED BY <1>1, NextKinds, RowsAfterSaleStep, RowsAfterReturnStep

-----------------------------------------------------------------------------
(***************************************************************************)
(* How each step changes what the effects wrote and the marks.             *)
(***************************************************************************)
StockWritten(e) ==
  /\ MayRun(e, "stock") /\ inFlight' = <<e, "stock">>
  /\ stockRows' = [stockRows EXCEPT ![e] = 1]
  /\ UNCHANGED <<sale, ret, cashVars, emitted, dispatched, applied>>

CashWritten(e, x) ==
  /\ MayRun(e, "cash") /\ x = SessionOf(e)
  /\ \/ posted[<<x, e>>] = 0 /\ posted' = [posted EXCEPT ![<<x, e>>] = 1]
     \/ posted[<<x, e>>] = 1 /\ UNCHANGED <<posted, ledger>>
  /\ \A y \in Session \ {x} : ledger'[y] = ledger[y] /\ expected'[y] = expected[y]
  /\ UNCHANGED <<sale, ret, stockRows, status, emitted, dispatched, applied>>

Settled(e, x) ==
  /\ CashWritten(e, x) /\ inFlight' = <<e, "cash">>
  /\ status[x] = "CLOSED" => expected'[x] = ledger'[x]

HalfWritten(e, x) == CashWritten(e, x) /\ UNCHANGED <<expected, inFlight>>

LEMMA ApplyStockWrites ==
  ASSUME TypeOK, NEW e \in Event, ApplyStock(e) PROVE StockWritten(e)
<1>1. PICK sign \in {-1, 1} : Stock!MoveItems(e, Document(e).items, sign)
  BY DEF ApplyStock, Stock!ApplySaleItems, Stock!ApplyReturnItems
<1>2. stockRows' = [stockRows EXCEPT ![e] = 1]
  <2>1. CASE stockRows[e] = 0
    BY <1>1, <2>1 DEF Stock!MoveItems
  <2>2. CASE stockRows[e] = 1
    BY <1>1, <2>2 DEF Stock!MoveItems, TypeOK
  <2> QED BY <2>1, <2>2 DEF TypeOK
<1> QED BY <1>2 DEF ApplyStock, Returning, StockWritten

LEMMA ApplyCashWrites ==
  ASSUME TypeOK, NEW e \in Event, NEW x \in Session, ApplyCash(e, x)
  PROVE  Settled(e, x)
<1>1. Cash!InsertMovements(x, e, CashOf(e)) /\ Cash!RecalculateClosed(x)
  BY DEF ApplyCash, Cash!Record
<1>2. \A y \in Session \ {x} : expected'[y] = expected[y]
  BY <1>1 DEF Cash!RecalculateClosed, TypeOK
<1>3. status[x] = "CLOSED" => expected'[x] = ledger'[x]
  BY <1>1, CashPosts DEF Cash!RecalculateClosed, TypeOK
<1>4. UNCHANGED <<sale, ret, stockRows, status, emitted, dispatched, applied>>
      /\ MayRun(e, "cash") /\ inFlight' = <<e, "cash">> /\ x = SessionOf(e)
  BY DEF ApplyCash, Cash!Record, Returning, EffectSession
<1> QED BY <1>1, <1>2, <1>3, <1>4, CashPosts DEF Settled, CashWritten

LEMMA CrashInCashWrites ==
  ASSUME TypeOK, NEW e \in Event, NEW x \in Session, CrashInCash(e, x)
  PROVE  HalfWritten(e, x)
<1>1. Cash!InsertMovements(x, e, CashOf(e))
  BY DEF CrashInCash, Cash!RecordHalf
<1> QED BY <1>1, CashPosts
        DEF CrashInCash, Cash!RecordHalf, HalfWritten, CashWritten, EffectSession

\* No step but those of the effects touches what they wrote and marked.
Elsewhere == UNCHANGED <<stockRows, posted, applied, inFlight, dispatched>>

LEMMA EffectKinds ==
  ASSUME TypeOK, [Next]_vars
  PROVE  /\ emitted \subseteq emitted'
         /\ \/ \E e \in Event : StockWritten(e) \/ Dispatch(e)
            \/ \E e \in Event, x \in Session : Settled(e, x) \/ HalfWritten(e, x)
            \/ MarkApplied \/ Crash
            \/ Elsewhere
<1>1. ASSUME NEW s \in Sale, SaleStep(s) PROVE emitted \subseteq emitted' /\ Elsewhere
  <2>1. UNCHANGED <<ret, stockVars, cashVars, dispatched, applied, inFlight>>
        /\ (Drafted(s) \/ Completed(s) \/ Cancelled(s))
    BY <1>1, SaleStepChanges
  <2> QED BY <2>1 DEF Elsewhere, Drafted, Completed, Cancelled
<1>2. ASSUME NEW r \in Return, ReturnStep(r) PROVE emitted \subseteq emitted' /\ Elsewhere
  <2>1. UNCHANGED <<sale, stockVars, cashVars, dispatched, applied, inFlight>>
        /\ (Made(r) \/ Unmade(r))
    BY <1>2, ReturnStepChanges
  <2> QED BY <2>1 DEF Elsewhere, Made, Unmade
<1>3. ASSUME NEW x \in Session, CashStep(x) PROVE emitted \subseteq emitted' /\ Elsewhere
  BY <1>3 DEF CashStep, Elsewhere, Cash!OpenSession, Cash!AddSupply, Cash!Withdraw,
              Cash!MoveManually, Cash!CloseSession
<1>4. StockStep => emitted \subseteq emitted' /\ Elsewhere
  BY DEF StockStep, Elsewhere, Stock!Adjust
<1>5. ASSUME NEW e \in Event, ApplyStock(e) PROVE emitted \subseteq emitted' /\ StockWritten(e)
  BY <1>5, ApplyStockWrites DEF StockWritten
<1>6. ASSUME NEW e \in Event, NEW x \in Session, ApplyCash(e, x)
      PROVE  emitted \subseteq emitted' /\ Settled(e, x)
  BY <1>6, ApplyCashWrites DEF Settled, CashWritten
<1>7. ASSUME NEW e \in Event, NEW x \in Session, CrashInCash(e, x)
      PROVE  emitted \subseteq emitted' /\ HalfWritten(e, x)
  BY <1>7, CrashInCashWrites DEF HalfWritten, CashWritten
<1>8. \A e \in Event : Dispatch(e) => emitted \subseteq emitted'
  BY DEF Dispatch
<1>9. (MarkApplied \/ Crash) => emitted \subseteq emitted'
  BY DEF MarkApplied, Crash
<1>10. UNCHANGED vars => emitted \subseteq emitted' /\ Elsewhere
  BY DEF vars, Elsewhere
<1> QED BY <1>1, <1>2, <1>3, <1>4, <1>5, <1>6, <1>7, <1>8, <1>9, <1>10
        DEF Next, DeliveryStep, CrashStep

LEMMA WrittenStep ==
  ASSUME TypeOK, Rows, Written, [Next]_vars PROVE Written'
<1>0. /\ emitted \subseteq emitted'
      /\ \A e \in emitted : SessionOf(e)' = SessionOf(e)
  BY EffectKinds, PayloadStays DEF SessionOf, SamePayload
<1>1. CASE UNCHANGED <<stockRows, posted>>
  BY <1>0, <1>1 DEF Written
<1>2. ASSUME NEW e \in Event, StockWritten(e) PROVE Written'
  BY <1>0, <1>2 DEF StockWritten, MayRun, Written, TypeOK
<1>3. ASSUME NEW e \in Event, NEW x \in Session, CashWritten(e, x) PROVE Written'
  <2>1. e \in emitted
    BY <1>3 DEF CashWritten, MayRun
  <2>2. ASSUME NEW k \in Event, NEW y \in Session, posted'[<<y, k>>] = 1
        PROVE  k \in emitted' /\ SessionOf(k)' = y
    <3>1. CASE k = e /\ y = x
      BY <1>0, <1>3, <2>1, <3>1 DEF CashWritten
    <3>2. CASE ~(k = e /\ y = x)
      <4>1. posted'[<<y, k>>] = posted[<<y, k>>]
        BY <1>3, <3>2 DEF CashWritten, TypeOK
      <4> QED BY <1>0, <2>2, <4>1 DEF Written
    <3> QED BY <3>1, <3>2
  <2> QED BY <1>0, <1>3, <2>2 DEF CashWritten, Written
<1>4. (MarkApplied \/ Crash \/ Elsewhere) => UNCHANGED <<stockRows, posted>>
  BY DEF MarkApplied, Crash, Elsewhere
<1>5. \A e \in Event : Dispatch(e) => UNCHANGED <<stockRows, posted>>
  BY DEF Dispatch
<1> QED BY <1>1, <1>2, <1>3, <1>4, <1>5, EffectKinds DEF Settled, HalfWritten

LEMMA MarkedStep ==
  ASSUME TypeOK, Rows, Written, Marked, [Next]_vars PROVE Marked'
<1>0. /\ emitted \subseteq emitted'
      /\ \A e \in emitted : SessionOf(e)' = SessionOf(e)
  BY EffectKinds, PayloadStays DEF SessionOf, SamePayload
<1>1. ASSUME UNCHANGED <<stockRows, posted>>,
             Finished' \subseteq Finished \union {NoHandler}
      PROVE  Marked'
  <2>1. \A e \in Event, f \in Effect : <<e, f>> # NoHandler
    BY PointOfSaleAssumption
  <2> QED BY <1>0, <1>1, <2>1 DEF Marked, Effect
<1>2. ASSUME NEW e \in Event, StockWritten(e) PROVE Marked'
  <2>1. /\ e \in emitted /\ UNCHANGED <<sale, ret, emitted, posted, applied>>
        /\ stockRows' = [stockRows EXCEPT ![e] = 1]
        /\ inFlight' = <<e, "stock">>
    BY <1>2 DEF StockWritten, MayRun
  <2>2. ASSUME NEW k \in Event, <<k, "stock">> \in Finished'
        PROVE  k \in emitted' /\ stockRows'[k] = 1
    BY <2>1, <2>2 DEF Finished, Marked, TypeOK
  <2>3. ASSUME NEW k \in Event, <<k, "cash">> \in Finished'
        PROVE  k \in emitted' /\ posted'[<<SessionOf(k)', k>>] = 1
    <3>1. <<k, "cash">> \in Finished
      BY <2>1, <2>3 DEF Finished
    <3> QED BY <1>0, <2>1, <3>1 DEF Marked
  <2> QED BY <2>2, <2>3 DEF Marked
<1>3. ASSUME NEW e \in Event, NEW x \in Session, CashWritten(e, x),
             inFlight' \in {inFlight, <<e, "cash">>} PROVE Marked'
  <2>1. /\ e \in emitted /\ UNCHANGED <<sale, ret, emitted, stockRows, applied>>
        /\ x = SessionOf(e)
    BY <1>3 DEF CashWritten, MayRun
  <2>2. posted'[<<x, e>>] = 1
    BY <1>3 DEF CashWritten, TypeOK
  <2>3. ASSUME NEW k \in Event, <<k, "stock">> \in Finished'
        PROVE  k \in emitted' /\ stockRows'[k] = 1
    <3>1. <<k, "stock">> \in Finished
      BY <1>3, <2>1, <2>3 DEF Finished
    <3> QED BY <2>1, <3>1 DEF Marked
  <2>4. ASSUME NEW k \in Event, <<k, "cash">> \in Finished'
        PROVE  k \in emitted' /\ posted'[<<SessionOf(k)', k>>] = 1
    <3>1. CASE k = e
      BY <1>0, <2>1, <2>2, <3>1
    <3>2. CASE k # e
      <4>1. <<k, "cash">> \in Finished
        BY <1>3, <2>1, <2>4, <3>2 DEF Finished
      <4>2. k \in emitted /\ posted[<<SessionOf(k), k>>] = 1
        BY <4>1 DEF Marked
      <4>3. SessionOf(k) \in Session
        BY <4>2 DEF Rows, EventsHoused, Housed, SessionOf
      <4>4. posted'[<<SessionOf(k), k>>] = posted[<<SessionOf(k), k>>]
        BY <1>3, <3>2, <4>3 DEF CashWritten, TypeOK
      <4> QED BY <1>0, <4>2, <4>4
    <3> QED BY <3>1, <3>2
  <2> QED BY <2>3, <2>4 DEF Marked
<1>4. MarkApplied \/ Crash \/ Elsewhere =>
        UNCHANGED <<stockRows, posted>> /\ Finished' \subseteq Finished \union {NoHandler}
  BY DEF MarkApplied, Crash, Elsewhere, Finished
<1>5. \A e \in Event : Dispatch(e) =>
        UNCHANGED <<stockRows, posted>> /\ Finished' \subseteq Finished \union {NoHandler}
  BY DEF Dispatch, Finished
<1> QED BY <1>1, <1>2, <1>3, <1>4, <1>5, EffectKinds DEF Settled, HalfWritten

LEMMA DispatchedMarkedStep ==
  ASSUME TypeOK, DispatchedMarked, [Next]_vars PROVE DispatchedMarked'
<1>1. CASE UNCHANGED <<dispatched, applied>>
  BY <1>1 DEF DispatchedMarked
<1>2. ASSUME NEW e \in Event, Dispatch(e) PROVE DispatchedMarked'
  BY <1>2 DEF Dispatch, DispatchedMarked
<1>3. CASE MarkApplied
  BY <1>3 DEF MarkApplied, DispatchedMarked
<1>4. Crash \/ Elsewhere => UNCHANGED <<dispatched, applied>>
  BY DEF Crash, Elsewhere
<1>5. \A e \in Event : StockWritten(e) => UNCHANGED <<dispatched, applied>>
  BY DEF StockWritten
<1>6. \A e \in Event, x \in Session : CashWritten(e, x) => UNCHANGED <<dispatched, applied>>
  BY DEF CashWritten
<1> QED BY <1>1, <1>2, <1>3, <1>4, <1>5, <1>6, EffectKinds DEF Settled, HalfWritten

LEMMA CurrentStep ==
  ASSUME TypeOK, Rows, Written, Current, [Next]_vars PROVE Current'
<1>1. ASSUME UNCHANGED <<status, ledger, expected, posted>>,
             \A k \in Event : <<k, "cash">> \in Finished' => <<k, "cash">> \in Finished
      PROVE  Current'
  BY <1>1 DEF Current
<1>2. ASSUME NEW y \in Session, CashStep(y) PROVE Current'
  <2>1. UNCHANGED <<posted, applied, inFlight>>
    BY <1>2 DEF CashStep, Cash!OpenSession, Cash!AddSupply, Cash!Withdraw,
                Cash!MoveManually, Cash!CloseSession
  <2>2. \A x \in Session \ {y} :
          status'[x] = status[x] /\ expected'[x] = expected[x] /\ ledger'[x] = ledger[x]
    BY <1>2 DEF CashStep, Cash!OpenSession, Cash!AddSupply, Cash!Withdraw,
                Cash!MoveManually, Cash!CloseSession, TypeOK
  <2>3. status'[y] = "CLOSED" => expected'[y] = ledger'[y]
    BY <1>2 DEF CashStep, Cash!OpenSession, Cash!AddSupply, Cash!Withdraw,
                Cash!MoveManually, Cash!CloseSession, TypeOK
  <2> QED BY <2>1, <2>2, <2>3 DEF Current, Finished
<1>3. ASSUME NEW e \in Event, NEW x \in Session, Settled(e, x) PROVE Current'
  <2>1. UNCHANGED <<status, applied>> /\ inFlight' = <<e, "cash">> /\ x = SessionOf(e)
    BY <1>3 DEF Settled, CashWritten
  <2>2. status'[x] = "CLOSED" => expected'[x] = ledger'[x]
    BY <1>3, <2>1 DEF Settled
  <2>3. ASSUME NEW y \in Session \ {x}, status'[y] = "CLOSED", expected'[y] # ledger'[y]
        PROVE  \E k \in Event : posted'[<<y, k>>] = 1 /\ <<k, "cash">> \notin Finished'
    <3>1. ledger'[y] = ledger[y] /\ expected'[y] = expected[y]
      BY <1>3 DEF Settled, CashWritten
    <3>2. PICK k \in Event : posted[<<y, k>>] = 1 /\ <<k, "cash">> \notin Finished
      BY <2>1, <2>3, <3>1 DEF Current
    <3>3. k # e
      BY <2>1, <3>2 DEF Written
    <3>4. posted'[<<y, k>>] = 1
      BY <1>3, <3>2 DEF Settled, CashWritten, TypeOK
    <3>5. <<k, "cash">> \notin Finished'
      BY <2>1, <3>2, <3>3 DEF Finished
    <3> QED BY <3>4, <3>5
  <2> QED BY <2>2, <2>3 DEF Current
<1>4. ASSUME NEW e \in Event, NEW x \in Session, HalfWritten(e, x) PROVE Current'
  <2>1. UNCHANGED <<status, expected, applied, inFlight>> /\ MayRun(e, "cash")
    BY <1>4 DEF HalfWritten, CashWritten
  <2>2. CASE posted[<<x, e>>] = 1
    <3>1. UNCHANGED <<posted, ledger>>
      BY <1>4, <2>2 DEF HalfWritten, CashWritten
    <3> QED BY <1>1, <2>1, <3>1 DEF Finished
  <2>3. CASE posted[<<x, e>>] = 0
    <3>1. posted' = [posted EXCEPT ![<<x, e>>] = 1]
      BY <1>4, <2>3 DEF HalfWritten, CashWritten
    <3>2. posted'[<<x, e>>] = 1 /\ <<e, "cash">> \notin Finished'
      <4>1. posted'[<<x, e>>] = 1
        BY <3>1 DEF TypeOK
      <4>2. <<e, "cash">> # NoHandler
        BY PointOfSaleAssumption DEF Effect
      <4> QED BY <2>1, <4>1, <4>2 DEF MayRun, Finished
    <3>3. \A y \in Session \ {x} : ledger'[y] = ledger[y]
      BY <1>4 DEF HalfWritten, CashWritten
    <3>4. \A y \in Session, k \in Event : posted[<<y, k>>] = 1 => posted'[<<y, k>>] = 1
      BY <3>1 DEF TypeOK
    <3> QED BY <2>1, <3>2, <3>3, <3>4 DEF Current, Finished
  <2> QED BY <2>2, <2>3 DEF TypeOK
<1>5. ASSUME NEW e \in Event, ApplyStock(e) PROVE Current'
  <2>1. UNCHANGED <<cashVars, applied>> /\ inFlight' = <<e, "stock">>
    BY <1>5 DEF ApplyStock, Returning
  <2> QED BY <1>1, <2>1 DEF Finished
<1>6. CASE MarkApplied
  <2>1. \A k \in Event : <<k, "cash">> # NoHandler
    BY PointOfSaleAssumption DEF Effect
  <2> QED BY <1>1, <1>6, <2>1 DEF MarkApplied, Finished
<1>7. CASE Crash
  <2>1. \A k \in Event : <<k, "cash">> # NoHandler
    BY PointOfSaleAssumption DEF Effect
  <2> QED BY <1>1, <1>7, <2>1 DEF Crash, Finished
<1>8. ASSUME UNCHANGED <<cashVars, applied, inFlight>> PROVE Current'
  BY <1>1, <1>8 DEF Finished
<1>9. ASSUME NEW s \in Sale, SaleStep(s) PROVE Current'
  BY <1>8, <1>9, SaleStepChanges
<1>10. ASSUME NEW r \in Return, ReturnStep(r) PROVE Current'
  BY <1>8, <1>10, ReturnStepChanges
<1>11. CASE StockStep
  BY <1>8, <1>11 DEF StockStep
<1>12. ASSUME NEW e \in Event, Dispatch(e) PROVE Current'
  BY <1>8, <1>12 DEF Dispatch
<1>13. CASE UNCHANGED vars
  BY <1>8, <1>13 DEF vars
<1>14. ASSUME NEW e \in Event, NEW x \in Session, ApplyCash(e, x) PROVE Current'
  BY <1>3, <1>14, ApplyCashWrites
<1>15. ASSUME NEW e \in Event, NEW x \in Session, CrashInCash(e, x) PROVE Current'
  BY <1>4, <1>15, CrashInCashWrites
<1> QED BY <1>2, <1>5, <1>6, <1>7, <1>9, <1>10, <1>11, <1>12, <1>13, <1>14, <1>15
        DEF Next, DeliveryStep, CrashStep

-----------------------------------------------------------------------------
LEMMA IInvInit == Init => IInv
<1> SUFFICES ASSUME Init PROVE IInv
  OBVIOUS
<1>1. TypeOK /\ Rows
  BY TypeInit, RowsInit
<1>2. Written /\ DispatchedMarked
  BY DEF Init, Written, DispatchedMarked, Stock!InventoryInit, Cash!CashInit
<1>3. Marked
  BY PointOfSaleAssumption DEF Init, Marked, Finished, Effect
<1>4. Current
  BY DEF Init, Current, Cash!CashInit
<1> QED BY <1>1, <1>2, <1>3, <1>4 DEF IInv

LEMMA IInvStep == IInv /\ [Next]_vars => IInv'
BY TypeStep, RowsStep, WrittenStep, MarkedStep, DispatchedMarkedStep, CurrentStep DEF IInv

LEMMA Inductive == Spec => []IInv
BY IInvInit, IInvStep, PTL DEF Spec

(* SessionsFitEvents holds always: the cash effect of an event is never    *)
(* refused its session, however late it comes and whatever session is open *)
(* on the terminal by then.                                                *)
THEOREM EventsKeepTheirSession == Spec => []SessionsFitEvents
<1>1. IInv => SessionsFitEvents
  BY DEF IInv, Rows, EventsHoused, Housed, SessionsFitEvents, EffectSession, SessionOf
<1> QED BY <1>1, Inductive, PTL

(* ClosedExpectationIsCurrent holds always: late payments, cancellations   *)
(* and refunds, and crashes half way through them, leave a closed session  *)
(* expecting its ledger once their effects are through.                    *)
THEOREM ClosedSessionsAreCurrent == Spec => []ClosedExpectationIsCurrent
<1>1. IInv => ClosedExpectationIsCurrent
  BY DEF IInv, Current, ClosedExpectationIsCurrent, Finished
<1> QED BY <1>1, Inductive, PTL

-----------------------------------------------------------------------------
\* For an event that is out, its cash counts where its document says; for
\* another nothing does.
PerformedOf ==
  \A e \in Event :
    /\ Performed[<<e, "stock">>] = stockRows[e]
    /\ e \in emitted => Performed[<<e, "cash">>] = posted[<<SessionOf(e), e>>]
    /\ e \notin emitted => Performed[<<e, "cash">>] = 0

LEMMA PerformedIs == IInv => PerformedOf
<1> SUFFICES ASSUME IInv, NEW e \in Event
             PROVE  /\ Performed[<<e, "stock">>] = stockRows[e]
                    /\ e \in emitted => Performed[<<e, "cash">>] = posted[<<SessionOf(e), e>>]
                    /\ e \notin emitted => Performed[<<e, "cash">>] = 0
  BY DEF PerformedOf
<1>0. <<e, "stock">> \in Event \X Effect /\ <<e, "cash">> \in Event \X Effect
  BY DEF Effect
<1>1. Performed[<<e, "stock">>] = stockRows[e]
  BY <1>0 DEF Performed
<1>2. Performed[<<e, "cash">>] =
        IF SessionOf(e) = NoSession THEN 0 ELSE posted[<<SessionOf(e), e>>]
  BY <1>0 DEF Performed
<1>3. e \in emitted => SessionOf(e) \in Session
  BY DEF IInv, Rows, EventsHoused, Housed, SessionOf
<1>4. e \in emitted => SessionOf(e) # NoSession
  BY <1>3, PointOfSaleAssumption
<1>5. ASSUME e \notin emitted, SessionOf(e) # NoSession
      PROVE  posted[<<SessionOf(e), e>>] = 0
  <2>1. SessionOf(e) \in Session
    BY <1>5, DocumentOfEvent DEF IInv
  <2> QED BY <1>5, <2>1 DEF IInv, Written, TypeOK
<1> QED BY <1>1, <1>2, <1>4, <1>5

LEMMA PerformedWillBe == IInv' => PerformedOf'
BY PerformedIs, PTL

LEMMA PerformedSame ==
  ASSUME IInv, IInv', [Next]_vars, UNCHANGED <<stockRows, posted>>
  PROVE  Performed' = Performed
<1>0. PerformedOf /\ PerformedOf'
  BY PerformedIs, PerformedWillBe
<1>1. ASSUME NEW e \in Event
      PROVE  /\ Performed'[<<e, "stock">>] = Performed[<<e, "stock">>]
             /\ Performed'[<<e, "cash">>] = Performed[<<e, "cash">>]
  <2>1. Performed'[<<e, "stock">>] = Performed[<<e, "stock">>]
    BY <1>0 DEF PerformedOf
  <2>2. CASE e \in emitted
    <3>1. SessionOf(e)' = SessionOf(e) /\ e \in emitted'
      BY <2>2, PayloadStays, EffectKinds DEF IInv, SessionOf, SamePayload
    <3>2. Performed'[<<e, "cash">>] = posted'[<<SessionOf(e)', e>>]
      BY <1>0, <3>1 DEF PerformedOf
    <3>3. Performed[<<e, "cash">>] = posted[<<SessionOf(e), e>>]
      BY <1>0, <2>2 DEF PerformedOf
    <3> QED BY <2>1, <3>1, <3>2, <3>3
  <2>3. CASE e \notin emitted
    <3>1. CASE e \in emitted'
      <4>1. SessionOf(e)' \in Session
        BY <3>1 DEF IInv, Rows, EventsHoused, Housed, SessionOf
      <4>2. posted[<<SessionOf(e)', e>>] = 0
        BY <2>3, <4>1 DEF IInv, Written, TypeOK
      <4> QED BY <2>1, <2>3, <3>1, <4>2, <1>0 DEF PerformedOf
    <3>2. CASE e \notin emitted'
      BY <2>1, <2>3, <3>2, <1>0 DEF PerformedOf
    <3> QED BY <3>1, <3>2
  <2> QED BY <2>2, <2>3
<1>2. \A ef \in Event \X Effect : Performed'[ef] = Performed[ef]
  <2> SUFFICES ASSUME NEW ef \in Event \X Effect PROVE Performed'[ef] = Performed[ef]
    OBVIOUS
  <2>1. PICK e \in Event, f \in Effect : ef = <<e, f>>
    OBVIOUS
  <2>2. CASE f = "stock"
    BY <1>1, <2>1, <2>2
  <2>3. CASE f = "cash"
    BY <1>1, <2>1, <2>3
  <2> QED BY <2>2, <2>3 DEF Effect
<1> QED BY <1>2 DEF Performed

\* A step on a document adds at most an event that was not there.
LEMMA NewEvent ==
  ASSUME TypeOK, Rows,
         \/ \E s \in Sale : SaleStep(s)
         \/ \E r \in Return : ReturnStep(r)
  PROVE  /\ UNCHANGED <<stockRows, posted, dispatched>>
         /\ \/ UNCHANGED emitted
            \/ \E e \in Event : e \notin emitted /\ emitted' = emitted \union {e}
<1>1. ASSUME NEW s \in Sale, SaleStep(s)
      PROVE  \/ UNCHANGED emitted
             \/ \E e \in Event : e \notin emitted /\ emitted' = emitted \union {e}
  <2>1. CASE Drafted(s)
    BY <2>1 DEF Drafted
  <2>2. CASE Completed(s)
    BY <2>2, EventsOfRows DEF Completed, Rows, SalesAndEvents, Draft
  <2>3. CASE Cancelled(s)
    BY <2>3, EventsOfRows DEF Cancelled, Rows, SalesAndEvents
  <2> QED BY <1>1, <2>1, <2>2, <2>3, SaleStepChanges
<1>2. ASSUME NEW r \in Return, ReturnStep(r)
      PROVE  \E e \in Event : e \notin emitted /\ emitted' = emitted \union {e}
  <2>1. CASE Made(r)
    BY <2>1, EventsOfRows DEF Made, Rows, ReturnsAndEvents
  <2>2. CASE Unmade(r)
    BY <2>2, EventsOfRows DEF Unmade, Rows, ReturnsAndEvents
  <2> QED BY <1>2, <2>1, <2>2, ReturnStepChanges
<1>3. \A s \in Sale : SaleStep(s) => UNCHANGED <<stockRows, posted, dispatched>>
  BY SaleStepChanges
<1>4. \A r \in Return : ReturnStep(r) => UNCHANGED <<stockRows, posted, dispatched>>
  BY ReturnStepChanges
<1> QED BY <1>1, <1>2, <1>3, <1>4

\* The first writing of an effect, and a repetition, as the outbox sees them.
LEMMA PerformStep ==
  ASSUME IInv, IInv', [Next]_vars, NEW e \in emitted \ dispatched, NEW f \in Effect,
         UNCHANGED <<emitted, dispatched>>,
         Performed'[<<e, f>>] = 1,
         \A ef \in Event \X Effect : ef # <<e, f>> => Performed'[ef] = Performed[ef]
  PROVE  [Delivery!Next]_Delivery!vars
<1>0. e \in Event /\ <<e, f>> \in Event \X Effect
  BY DEF IInv, TypeOK
<1>1. Performed[<<e, f>>] \in {0, 1}
  <2>1. CASE f = "stock"
    <3>1. Performed[<<e, f>>] = stockRows[e]
      BY <1>0, <2>1, PerformedIs DEF PerformedOf
    <3> QED BY <1>0, <3>1 DEF IInv, TypeOK
  <2>2. CASE f = "cash"
    <3>1. Performed[<<e, f>>] = posted[<<SessionOf(e), e>>]
      BY <1>0, <2>2, PerformedIs DEF PerformedOf
    <3>2. SessionOf(e) \in Session
      BY DEF IInv, Rows, EventsHoused, Housed, SessionOf
    <3> QED BY <1>0, <3>1, <3>2 DEF IInv, TypeOK
  <2> QED BY <2>1, <2>2 DEF Effect
<1>2. CASE Performed[<<e, f>>] = 1
  <2>1. \A ef \in Event \X Effect : Performed'[ef] = Performed[ef]
    BY <1>2
  <2>2. Performed' = Performed
    BY <2>1 DEF Performed
  <2> QED BY <2>2 DEF Delivery!vars
<1>3. CASE Performed[<<e, f>>] = 0
  <2>1. Performed' = [Performed EXCEPT ![<<e, f>>] = 1]
    <3>1. Performed' = [ef \in Event \X Effect |-> Performed'[ef]]
      BY DEF Performed
    <3>2. Performed = [ef \in Event \X Effect |-> Performed[ef]]
      BY DEF Performed
    <3>3. \A ef \in Event \X Effect :
            Performed'[ef] = [Performed EXCEPT ![<<e, f>>] = 1][ef]
      BY <1>0, <3>2
    <3> QED BY <1>0, <3>1, <3>2, <3>3
  <2> QED BY <1>0, <1>3, <2>1 DEF Delivery!Perform, Delivery!Next
<1> QED BY <1>1, <1>2, <1>3

LEMMA ImplementsStep ==
  ASSUME IInv, IInv', [Next]_vars PROVE [Delivery!Next]_Delivery!vars
<1>0. /\ TypeOK /\ Rows /\ PerformedOf /\ PerformedOf'
      /\ emitted \subseteq emitted'
  BY PerformedIs, PerformedWillBe, EffectKinds DEF IInv
<1>1. CASE (\E s \in Sale : SaleStep(s)) \/ (\E r \in Return : ReturnStep(r))
  <2>1. /\ UNCHANGED <<stockRows, posted, dispatched>>
        /\ \/ UNCHANGED emitted
           \/ \E e \in Event : e \notin emitted /\ emitted' = emitted \union {e}
    BY <1>0, <1>1, NewEvent
  <2>2. Performed' = Performed
    BY <2>1, PerformedSame
  <2> QED BY <2>1, <2>2 DEF Delivery!vars, Delivery!Next, Delivery!Emit
<1>2. CASE UNCHANGED <<sale, ret, emitted>>
  <2>0. \A e \in Event : SessionOf(e)' = SessionOf(e)
    BY <1>2 DEF SessionOf, Document, OfSale
  <2>1. ASSUME UNCHANGED <<stockRows, posted, dispatched>>
        PROVE  [Delivery!Next]_Delivery!vars
    <3>1. Performed' = Performed
      BY <2>1, PerformedSame
    <3> QED BY <1>2, <2>1, <3>1 DEF Delivery!vars
  <2>2. ASSUME NEW e \in Event, StockWritten(e) PROVE [Delivery!Next]_Delivery!vars
    <3>1. e \in emitted \ dispatched /\ UNCHANGED <<dispatched, posted>>
      BY <2>2 DEF StockWritten, MayRun
    <3>2. stockRows'[e] = 1 /\ \A k \in Event : k # e => stockRows'[k] = stockRows[k]
      BY <1>0, <2>2 DEF StockWritten, TypeOK
    <3>3. Performed'[<<e, "stock">>] = 1
      BY <1>0, <3>2 DEF PerformedOf
    <3>4. ASSUME NEW k \in Event, NEW f \in Effect, <<k, f>> # <<e, "stock">>
          PROVE  Performed'[<<k, f>>] = Performed[<<k, f>>]
      <4>1. CASE f = "stock"
        BY <1>0, <3>2, <3>4, <4>1 DEF PerformedOf
      <4>2. CASE f = "cash"
        <5>1. CASE k \in emitted
          <6>1. Performed[<<k, "cash">>] = posted[<<SessionOf(k), k>>]
            BY <1>0, <5>1 DEF PerformedOf
          <6>2. Performed'[<<k, "cash">>] = posted'[<<SessionOf(k), k>>]
            BY <1>0, <1>2, <2>0, <5>1 DEF PerformedOf
          <6> QED BY <3>1, <4>2, <6>1, <6>2
        <5>2. CASE k \notin emitted
          BY <1>0, <1>2, <4>2, <5>2 DEF PerformedOf
        <5> QED BY <5>1, <5>2
      <4> QED BY <4>1, <4>2 DEF Effect
    <3>5. \A ef \in Event \X Effect : ef # <<e, "stock">> => Performed'[ef] = Performed[ef]
      BY <3>4
    <3> QED BY <1>2, <3>1, <3>3, <3>5, PerformStep DEF Effect
  <2>3. ASSUME NEW e \in Event, NEW x \in Session, CashWritten(e, x)
        PROVE  [Delivery!Next]_Delivery!vars
    <3>1. e \in emitted \ dispatched /\ UNCHANGED <<dispatched, stockRows>>
          /\ x = SessionOf(e)
      BY <2>3 DEF CashWritten, MayRun
    <3>2. posted'[<<x, e>>] = 1
      BY <1>0, <2>3 DEF CashWritten, TypeOK
    <3>3. Performed'[<<e, "cash">>] = 1
      BY <1>0, <1>2, <2>0, <3>1, <3>2 DEF PerformedOf
    <3>4. ASSUME NEW k \in Event, NEW f \in Effect, <<k, f>> # <<e, "cash">>
          PROVE  Performed'[<<k, f>>] = Performed[<<k, f>>]
      <4>1. CASE f = "stock"
        BY <1>0, <3>1, <4>1 DEF PerformedOf
      <4>2. CASE f = "cash" /\ k \in emitted
        <5>1. k # e /\ SessionOf(k) \in Session
          BY <3>4, <4>2 DEF IInv, Rows, EventsHoused, Housed, SessionOf
        <5>2. posted'[<<SessionOf(k), k>>] = posted[<<SessionOf(k), k>>]
          BY <1>0, <2>3, <5>1 DEF CashWritten, TypeOK
        <5>3. Performed[<<k, "cash">>] = posted[<<SessionOf(k), k>>]
          BY <1>0, <4>2 DEF PerformedOf
        <5>4. Performed'[<<k, "cash">>] = posted'[<<SessionOf(k), k>>]
          BY <1>0, <1>2, <2>0, <4>2 DEF PerformedOf
        <5> QED BY <4>2, <5>2, <5>3, <5>4
      <4>3. CASE f = "cash" /\ k \notin emitted
        BY <1>0, <1>2, <4>3 DEF PerformedOf
      <4> QED BY <4>1, <4>2, <4>3 DEF Effect
    <3>5. \A ef \in Event \X Effect : ef # <<e, "cash">> => Performed'[ef] = Performed[ef]
      BY <3>4
    <3> QED BY <1>2, <3>1, <3>3, <3>5, PerformStep DEF Effect
  <2>4. ASSUME NEW e \in Event, Dispatch(e) PROVE [Delivery!Next]_Delivery!vars
    <3>1. UNCHANGED <<stockRows, posted, emitted>> /\ e \in emitted \ dispatched
          /\ dispatched' = dispatched \union {e}
          /\ <<e, "stock">> \in applied /\ <<e, "cash">> \in applied
      BY <2>4 DEF Dispatch, Effect
    <3>2. Performed' = Performed
      BY <3>1, PerformedSame
    <3>3. Performed[<<e, "stock">>] = 1 /\ Performed[<<e, "cash">>] = 1
      <4>1. stockRows[e] = 1 /\ posted[<<SessionOf(e), e>>] = 1
        BY <3>1 DEF IInv, Marked, Finished
      <4> QED BY <1>0, <3>1, <4>1 DEF PerformedOf
    <3>4. \A f \in Effect : Performed[<<e, f>>] = 1
      BY <3>3 DEF Effect
    <3>5. Delivery!Dispatch(e)
      BY <3>1, <3>2, <3>4 DEF Delivery!Dispatch
    <3> QED BY <3>5 DEF Delivery!Next
  <2>5. (MarkApplied \/ Crash \/ Elsewhere) => UNCHANGED <<stockRows, posted, dispatched>>
    BY DEF MarkApplied, Crash, Elsewhere
  <2> QED BY <1>0, <2>1, <2>2, <2>3, <2>4, <2>5, EffectKinds DEF Settled, HalfWritten
<1> QED BY <1>0, <1>1, <1>2, NextKinds

(* Sales and returns keep the promise of the outbox: in any interleaving,  *)
(* with any number of crashes, every event moves the stock and the cash of *)
(* its own session once, and counts as dispatched only after both.         *)
THEOREM EffectsHappenOnce == Spec => ImplementsDelivery
<1>1. Init => Delivery!Init
  <2> SUFFICES ASSUME Init PROVE Delivery!Init
    OBVIOUS
  <2>1. \A e \in Event : SessionOf(e) = NoSession /\ stockRows[e] = 0
    <3>1. TypeOK
      BY TypeInit
    <3>2. ASSUME NEW e \in Event PROVE SessionOf(e) = NoSession
      <4>1. CASE OfSale(e)
        BY <4>1 DEF SessionOf, Document, Init, NewSale, Event, OfSale
      <4>2. CASE ~OfSale(e)
        BY <4>2 DEF SessionOf, Document, Init, NewReturn, Event, OfSale
      <4> QED BY <4>1, <4>2
    <3> QED BY <3>2 DEF Init, Stock!InventoryInit
  <2>2. Performed = [ef \in Event \X Effect |-> 0]
    BY <2>1 DEF Performed
  <2> QED BY <2>2 DEF Init, Delivery!Init
<1>2. IInv /\ IInv' /\ [Next]_vars => [Delivery!Next]_Delivery!vars
  BY ImplementsStep
<1> QED BY <1>1, <1>2, Inductive, PTL DEF Spec, ImplementsDelivery, Delivery!Spec

-----------------------------------------------------------------------------
(***************************************************************************)
(* What a set of events amounts to: what its sales bring, less what their  *)
(* cancellations and its returns give back, with the cancelled returns.    *)
(***************************************************************************)
SalesIn(W, kind) == {s \in Sale : <<kind, s>> \in W}
ReturnsIn(W, kind) == {r \in Return : <<kind, r>> \in W}

Takings(F, G, W) ==
  SumFunctionOnSet(F, SalesIn(W, "sale.completed"))
    - SumFunctionOnSet(F, SalesIn(W, "sale.cancelled"))
    - SumFunctionOnSet(G, ReturnsIn(W, "return.completed"))
    + SumFunctionOnSet(G, ReturnsIn(W, "return.cancelled"))

Share(F, G, e) ==
  CASE e[1] = "sale.completed" -> F[e[2]]
    [] e[1] = "sale.cancelled" -> -F[e[2]]
    [] e[1] = "return.completed" -> -G[e[2]]
    [] e[1] = "return.cancelled" -> G[e[2]]

LEMMA RowsAreFinite ==
  ASSUME NEW W, NEW kind
  PROVE  IsFiniteSet(SalesIn(W, kind)) /\ IsFiniteSet(ReturnsIn(W, kind))
<1>1. SalesIn(W, kind) \subseteq Sale /\ ReturnsIn(W, kind) \subseteq Return
  BY DEF SalesIn, ReturnsIn
<1> QED BY <1>1, FS_Subset, PointOfSaleAssumption

LEMMA TakingsAreInt ==
  ASSUME NEW F \in [Sale -> Int], NEW G \in [Return -> Int], NEW W
  PROVE  /\ \A kind : SumFunctionOnSet(F, SalesIn(W, kind)) \in Int
         /\ \A kind : SumFunctionOnSet(G, ReturnsIn(W, kind)) \in Int
         /\ Takings(F, G, W) \in Int
<1>1. ASSUME NEW kind
      PROVE  /\ SumFunctionOnSet(F, SalesIn(W, kind)) \in Int
             /\ SumFunctionOnSet(G, ReturnsIn(W, kind)) \in Int
  <2>1. /\ \A s \in SalesIn(W, kind) : F[s] \in Int
        /\ \A r \in ReturnsIn(W, kind) : G[r] \in Int
    BY DEF SalesIn, ReturnsIn
  <2> QED BY <2>1, RowsAreFinite, SumIsInt
<1> QED BY <1>1 DEF Takings

\* They depend on the rows of their events only.
LEMMA TakingsStay ==
  ASSUME NEW F, NEW G, NEW F2, NEW G2, NEW W,
         \A s \in Sale : <<"sale.completed", s>> \in W \/ <<"sale.cancelled", s>> \in W
                           => F2[s] = F[s],
         \A r \in Return : <<"return.completed", r>> \in W \/ <<"return.cancelled", r>> \in W
                             => G2[r] = G[r]
  PROVE  Takings(F2, G2, W) = Takings(F, G, W)
<1>1. /\ \A s \in SalesIn(W, "sale.completed") : F2[s] = F[s]
      /\ \A s \in SalesIn(W, "sale.cancelled") : F2[s] = F[s]
      /\ \A r \in ReturnsIn(W, "return.completed") : G2[r] = G[r]
      /\ \A r \in ReturnsIn(W, "return.cancelled") : G2[r] = G[r]
  BY DEF SalesIn, ReturnsIn
<1>2. /\ SumFunctionOnSet(F2, SalesIn(W, "sale.completed")) =
           SumFunctionOnSet(F, SalesIn(W, "sale.completed"))
      /\ SumFunctionOnSet(F2, SalesIn(W, "sale.cancelled")) =
           SumFunctionOnSet(F, SalesIn(W, "sale.cancelled"))
  BY <1>1, RowsAreFinite, SumEqual
<1>3. /\ SumFunctionOnSet(G2, ReturnsIn(W, "return.completed")) =
           SumFunctionOnSet(G, ReturnsIn(W, "return.completed"))
      /\ SumFunctionOnSet(G2, ReturnsIn(W, "return.cancelled")) =
           SumFunctionOnSet(G, ReturnsIn(W, "return.cancelled"))
  BY <1>1, RowsAreFinite, SumEqual
<1> QED BY <1>2, <1>3 DEF Takings

\* One event more adds its share.
LEMMA SetsGrow ==
  ASSUME NEW W, NEW kind, NEW d
  PROVE  /\ d \in Sale => SalesIn(W \union {<<kind, d>>}, kind) = SalesIn(W, kind) \union {d}
         /\ d \in Return => ReturnsIn(W \union {<<kind, d>>}, kind) = ReturnsIn(W, kind) \union {d}
         /\ \A other : other # kind =>
              /\ SalesIn(W \union {<<kind, d>>}, other) = SalesIn(W, other)
              /\ ReturnsIn(W \union {<<kind, d>>}, other) = ReturnsIn(W, other)
BY DEF SalesIn, ReturnsIn

LEMMA TakingsGrow ==
  ASSUME NEW F \in [Sale -> Int], NEW G \in [Return -> Int], NEW W, NEW e \in Event, e \notin W
  PROVE  Takings(F, G, W \union {e}) = Takings(F, G, W) + Share(F, G, e)
<1>0. /\ \A kind : SumFunctionOnSet(F, SalesIn(W, kind)) \in Int
      /\ \A kind : SumFunctionOnSet(G, ReturnsIn(W, kind)) \in Int
  BY TakingsAreInt
<1>1. ASSUME NEW s \in Sale, NEW kind, e = <<kind, s>>
      PROVE  SumFunctionOnSet(F, SalesIn(W \union {e}, kind)) =
               F[s] + SumFunctionOnSet(F, SalesIn(W, kind))
  <2>1. s \notin SalesIn(W, kind) /\ SalesIn(W \union {e}, kind) = SalesIn(W, kind) \union {s}
    BY <1>1, SetsGrow DEF SalesIn
  <2>2. \A x \in SalesIn(W, kind) \union {s} : F[x] \in Int
    BY DEF SalesIn
  <2> QED BY <2>1, <2>2, RowsAreFinite, SumAdd
<1>2. ASSUME NEW r \in Return, NEW kind, e = <<kind, r>>
      PROVE  SumFunctionOnSet(G, ReturnsIn(W \union {e}, kind)) =
               G[r] + SumFunctionOnSet(G, ReturnsIn(W, kind))
  <2>1. r \notin ReturnsIn(W, kind) /\ ReturnsIn(W \union {e}, kind) = ReturnsIn(W, kind) \union {r}
    BY <1>2, SetsGrow DEF ReturnsIn
  <2>2. \A x \in ReturnsIn(W, kind) \union {r} : G[x] \in Int
    BY DEF ReturnsIn
  <2> QED BY <2>1, <2>2, RowsAreFinite, SumAdd
<1>3. CASE \E s \in Sale : e = <<"sale.completed", s>>
  <2>1. PICK s \in Sale : e = <<"sale.completed", s>>
    BY <1>3
  <2>2. /\ SalesIn(W \union {e}, "sale.cancelled") = SalesIn(W, "sale.cancelled")
        /\ ReturnsIn(W \union {e}, "return.completed") = ReturnsIn(W, "return.completed")
        /\ ReturnsIn(W \union {e}, "return.cancelled") = ReturnsIn(W, "return.cancelled")
    BY <2>1 DEF SalesIn, ReturnsIn
  <2>3. Share(F, G, e) = F[s] /\ F[s] \in Int
    BY <2>1 DEF Share
  <2>4. SumFunctionOnSet(F, SalesIn(W \union {e}, "sale.completed")) =
          F[s] + SumFunctionOnSet(F, SalesIn(W, "sale.completed"))
    BY <1>1, <2>1
  <2> QED BY <1>0, <2>2, <2>3, <2>4 DEF Takings
<1>4. CASE \E s \in Sale : e = <<"sale.cancelled", s>>
  <2>1. PICK s \in Sale : e = <<"sale.cancelled", s>>
    BY <1>4
  <2>2. /\ SalesIn(W \union {e}, "sale.completed") = SalesIn(W, "sale.completed")
        /\ ReturnsIn(W \union {e}, "return.completed") = ReturnsIn(W, "return.completed")
        /\ ReturnsIn(W \union {e}, "return.cancelled") = ReturnsIn(W, "return.cancelled")
    BY <2>1 DEF SalesIn, ReturnsIn
  <2>3. Share(F, G, e) = -F[s] /\ F[s] \in Int
    BY <2>1 DEF Share
  <2>4. SumFunctionOnSet(F, SalesIn(W \union {e}, "sale.cancelled")) =
          F[s] + SumFunctionOnSet(F, SalesIn(W, "sale.cancelled"))
    BY <1>1, <2>1
  <2> QED BY <1>0, <2>2, <2>3, <2>4 DEF Takings
<1>5. CASE \E r \in Return : e = <<"return.completed", r>>
  <2>1. PICK r \in Return : e = <<"return.completed", r>>
    BY <1>5
  <2>2. /\ SalesIn(W \union {e}, "sale.completed") = SalesIn(W, "sale.completed")
        /\ SalesIn(W \union {e}, "sale.cancelled") = SalesIn(W, "sale.cancelled")
        /\ ReturnsIn(W \union {e}, "return.cancelled") = ReturnsIn(W, "return.cancelled")
    BY <2>1 DEF SalesIn, ReturnsIn
  <2>3. Share(F, G, e) = -G[r] /\ G[r] \in Int
    BY <2>1 DEF Share
  <2>4. SumFunctionOnSet(G, ReturnsIn(W \union {e}, "return.completed")) =
          G[r] + SumFunctionOnSet(G, ReturnsIn(W, "return.completed"))
    BY <1>2, <2>1
  <2> QED BY <1>0, <2>2, <2>3, <2>4 DEF Takings
<1>6. CASE \E r \in Return : e = <<"return.cancelled", r>>
  <2>1. PICK r \in Return : e = <<"return.cancelled", r>>
    BY <1>6
  <2>2. /\ SalesIn(W \union {e}, "sale.completed") = SalesIn(W, "sale.completed")
        /\ SalesIn(W \union {e}, "sale.cancelled") = SalesIn(W, "sale.cancelled")
        /\ ReturnsIn(W \union {e}, "return.completed") = ReturnsIn(W, "return.completed")
    BY <2>1 DEF SalesIn, ReturnsIn
  <2>3. Share(F, G, e) = G[r] /\ G[r] \in Int
    BY <2>1 DEF Share
  <2>4. SumFunctionOnSet(G, ReturnsIn(W \union {e}, "return.cancelled")) =
          G[r] + SumFunctionOnSet(G, ReturnsIn(W, "return.cancelled"))
    BY <1>2, <2>1
  <2> QED BY <1>0, <2>2, <2>3, <2>4 DEF Takings
<1> QED BY <1>3, <1>4, <1>5, <1>6 DEF Event

\* What is left of them: sales not cancelled, less returns not cancelled.
LEMMA TakingsNet ==
  ASSUME NEW F \in [Sale -> Int], NEW G \in [Return -> Int], NEW W,
         \A s \in Sale : <<"sale.cancelled", s>> \in W => <<"sale.completed", s>> \in W,
         \A r \in Return : <<"return.cancelled", r>> \in W => <<"return.completed", r>> \in W
  PROVE  Takings(F, G, W) =
           SumFunctionOnSet(F, SalesIn(W, "sale.completed") \ SalesIn(W, "sale.cancelled"))
             - SumFunctionOnSet(G, ReturnsIn(W, "return.completed") \ ReturnsIn(W, "return.cancelled"))
<1>1. /\ SalesIn(W, "sale.cancelled") \in SUBSET SalesIn(W, "sale.completed")
      /\ ReturnsIn(W, "return.cancelled") \in SUBSET ReturnsIn(W, "return.completed")
      /\ \A s \in SalesIn(W, "sale.completed") : F[s] \in Int
      /\ \A r \in ReturnsIn(W, "return.completed") : G[r] \in Int
  BY DEF SalesIn, ReturnsIn
<1>2. SumFunctionOnSet(F, SalesIn(W, "sale.completed") \ SalesIn(W, "sale.cancelled")) =
        SumFunctionOnSet(F, SalesIn(W, "sale.completed"))
          - SumFunctionOnSet(F, SalesIn(W, "sale.cancelled"))
  BY <1>1, RowsAreFinite, SumOfDifference
<1>3. SumFunctionOnSet(G, ReturnsIn(W, "return.completed") \ ReturnsIn(W, "return.cancelled")) =
        SumFunctionOnSet(G, ReturnsIn(W, "return.completed"))
          - SumFunctionOnSet(G, ReturnsIn(W, "return.cancelled"))
  BY <1>1, RowsAreFinite, SumOfDifference
<1> QED BY <1>2, <1>3, TakingsAreInt DEF Takings

-----------------------------------------------------------------------------
(***************************************************************************)
(* The balances and the ledgers against the events that were written.      *)
(***************************************************************************)
\* The events of a document say what became of it.
Documented ==
  /\ \A s \in Sale :
       /\ sale[s].status = "COMPLETED" <=>
            <<"sale.completed", s>> \in emitted /\ <<"sale.cancelled", s>> \notin emitted
       /\ <<"sale.cancelled", s>> \in emitted => <<"sale.completed", s>> \in emitted
  /\ \A r \in Return :
       /\ ret[r].status = "COMPLETED" <=>
            <<"return.completed", r>> \in emitted /\ <<"return.cancelled", r>> \notin emitted
       /\ <<"return.cancelled", r>> \in emitted => <<"return.completed", r>> \in emitted

Moved == {e \in Event : stockRows[e] = 1}
Posted(x) == {e \in Event : posted[<<x, e>>] = 1}

StockKept ==
  \A p \in Product :
    balance[p] = Opening[p] + added[p] - removed[p] - Takings(Sold(p), Back(p), Moved)

CashKept ==
  \A x \in Session : ledger[x] = float[x] + Takings(Paid, Refunded, Posted(x))

BooksInv == IInv /\ Documented /\ StockKept /\ CashKept /\ CommittedStockCovered

LEMMA RowsAreFunctions ==
  ASSUME TypeOK
  PROVE  /\ \A p \in Product : Sold(p) \in [Sale -> Nat] /\ Back(p) \in [Return -> Nat]
         /\ Paid \in [Sale -> Nat] /\ Refunded \in [Return -> Nat]
<1>1. ASSUME NEW p \in Product, NEW s \in Sale PROVE sale[s].items[p] \in Nat
  <2>1. sale[s].items \in Items
    BY DEF TypeOK, SaleRow
  <2> QED BY <2>1, PointOfSaleAssumption DEF Items
<1>2. ASSUME NEW p \in Product, NEW r \in Return PROVE ret[r].items[p] \in Nat
  <2>1. ret[r].items \in Items
    BY DEF TypeOK, ReturnRow
  <2> QED BY <2>1, PointOfSaleAssumption DEF Items
<1>3. (\A s \in Sale : sale[s].cash \in Nat) /\ (\A r \in Return : ret[r].cash \in Nat)
  BY DEF TypeOK, SaleRow, ReturnRow
<1> QED BY <1>1, <1>2, <1>3 DEF Sold, Back, Paid, Refunded

LEMMA DocumentedInit == Init => Documented
BY DEF Init, Documented, NewSale, NewReturn

LEMMA DocumentedStep ==
  ASSUME TypeOK, Rows, Documented, [Next]_vars PROVE Documented'
<1>1. CASE UNCHANGED <<sale, ret, emitted>>
  BY <1>1 DEF Documented
<1>2. ASSUME NEW s \in Sale, SaleStep(s) PROVE Documented'
  <2>1. /\ Others(s) /\ UNCHANGED ret
        /\ Drafted(s) \/ Completed(s) \/ Cancelled(s)
    BY <1>2, SaleStepChanges
  <2>2. emitted' \subseteq emitted \union {<<"sale.completed", s>>, <<"sale.cancelled", s>>}
        /\ emitted \subseteq emitted'
    BY <2>1 DEF Drafted, Completed, Cancelled
  <2>3. ASSUME NEW t \in Sale \ {s}
        PROVE  /\ sale'[t].status = "COMPLETED" <=>
                    <<"sale.completed", t>> \in emitted' /\ <<"sale.cancelled", t>> \notin emitted'
               /\ <<"sale.cancelled", t>> \in emitted' => <<"sale.completed", t>> \in emitted'
    <3>1. sale'[t] = sale[t]
      BY <2>1 DEF Others
    <3>2. /\ <<"sale.completed", t>> \in emitted' <=> <<"sale.completed", t>> \in emitted
          /\ <<"sale.cancelled", t>> \in emitted' <=> <<"sale.cancelled", t>> \in emitted
      BY <2>2
    <3> QED BY <3>1, <3>2 DEF Documented
  <2>4. /\ sale'[s].status = "COMPLETED" <=>
             <<"sale.completed", s>> \in emitted' /\ <<"sale.cancelled", s>> \notin emitted'
        /\ <<"sale.cancelled", s>> \in emitted' => <<"sale.completed", s>> \in emitted'
    <3>1. CASE Drafted(s)
      BY <3>1 DEF Drafted, Draft, Rows, SalesAndEvents, Documented
    <3>2. CASE Completed(s)
      BY <3>2 DEF Completed, Draft, Rows, SalesAndEvents, Documented
    <3>3. CASE Cancelled(s)
      BY <3>3 DEF Cancelled, Documented
    <3> QED BY <2>1, <3>1, <3>2, <3>3
  <2>5. ASSUME NEW r \in Return
        PROVE  /\ ret'[r].status = "COMPLETED" <=>
                    <<"return.completed", r>> \in emitted' /\ <<"return.cancelled", r>> \notin emitted'
               /\ <<"return.cancelled", r>> \in emitted' => <<"return.completed", r>> \in emitted'
    <3>1. /\ <<"return.completed", r>> \in emitted' <=> <<"return.completed", r>> \in emitted
          /\ <<"return.cancelled", r>> \in emitted' <=> <<"return.cancelled", r>> \in emitted
      BY <2>2
    <3> QED BY <2>1, <3>1 DEF Documented
  <2> QED BY <2>3, <2>4, <2>5 DEF Documented
<1>3. ASSUME NEW r \in Return, ReturnStep(r) PROVE Documented'
  <2>1. /\ \A q \in Return \ {r} : ret'[q] = ret[q]
        /\ UNCHANGED sale
        /\ Made(r) \/ Unmade(r)
    BY <1>3, ReturnStepChanges
  <2>2. emitted' \subseteq emitted \union {<<"return.completed", r>>, <<"return.cancelled", r>>}
        /\ emitted \subseteq emitted'
    BY <2>1 DEF Made, Unmade
  <2>3. ASSUME NEW q \in Return \ {r}
        PROVE  /\ ret'[q].status = "COMPLETED" <=>
                    <<"return.completed", q>> \in emitted' /\ <<"return.cancelled", q>> \notin emitted'
               /\ <<"return.cancelled", q>> \in emitted' => <<"return.completed", q>> \in emitted'
    <3>1. ret'[q] = ret[q]
      BY <2>1
    <3>2. /\ <<"return.completed", q>> \in emitted' <=> <<"return.completed", q>> \in emitted
          /\ <<"return.cancelled", q>> \in emitted' <=> <<"return.cancelled", q>> \in emitted
      BY <2>2
    <3> QED BY <3>1, <3>2 DEF Documented
  <2>4. /\ ret'[r].status = "COMPLETED" <=>
             <<"return.completed", r>> \in emitted' /\ <<"return.cancelled", r>> \notin emitted'
        /\ <<"return.cancelled", r>> \in emitted' => <<"return.completed", r>> \in emitted'
    <3>1. CASE Made(r)
      BY <3>1 DEF Made, Rows, ReturnsAndEvents
    <3>2. CASE Unmade(r)
      BY <3>2 DEF Unmade, Documented
    <3> QED BY <2>1, <3>1, <3>2
  <2>5. ASSUME NEW s \in Sale
        PROVE  /\ sale'[s].status = "COMPLETED" <=>
                    <<"sale.completed", s>> \in emitted' /\ <<"sale.cancelled", s>> \notin emitted'
               /\ <<"sale.cancelled", s>> \in emitted' => <<"sale.completed", s>> \in emitted'
    <3>1. /\ <<"sale.completed", s>> \in emitted' <=> <<"sale.completed", s>> \in emitted
          /\ <<"sale.cancelled", s>> \in emitted' <=> <<"sale.cancelled", s>> \in emitted
      BY <2>2
    <3> QED BY <2>1, <3>1 DEF Documented
  <2> QED BY <2>3, <2>4, <2>5 DEF Documented
<1> QED BY <1>1, <1>2, <1>3, NextKinds

\* The pieces and the cash of a document with an event stay what they are.
LEMMA WrittenRowsStay ==
  ASSUME IInv, [Next]_vars
  PROVE  /\ \A s \in Sale :
              <<"sale.completed", s>> \in emitted \/ <<"sale.cancelled", s>> \in emitted =>
                sale'[s].items = sale[s].items /\ sale'[s].cash = sale[s].cash
         /\ \A r \in Return :
              <<"return.completed", r>> \in emitted \/ <<"return.cancelled", r>> \in emitted =>
                ret'[r].items = ret[r].items /\ ret'[r].cash = ret[r].cash
<1>1. ASSUME NEW s \in Sale, NEW e \in emitted,
             e = <<"sale.completed", s>> \/ e = <<"sale.cancelled", s>>
      PROVE  sale'[s].items = sale[s].items /\ sale'[s].cash = sale[s].cash
  <2>1. OfSale(e) /\ e[2] = s
    BY <1>1 DEF OfSale
  <2>2. SamePayload(e)
    BY PayloadStays DEF IInv
  <2> QED BY <2>1, <2>2 DEF SamePayload, Document, OfSale
<1>2. ASSUME NEW r \in Return, NEW e \in emitted,
             e = <<"return.completed", r>> \/ e = <<"return.cancelled", r>>
      PROVE  ret'[r].items = ret[r].items /\ ret'[r].cash = ret[r].cash
  <2>1. ~OfSale(e) /\ e[2] = r
    BY <1>2 DEF OfSale
  <2>2. SamePayload(e)
    BY PayloadStays DEF IInv
  <2> QED BY <2>1, <2>2 DEF SamePayload, Document, OfSale
<1> QED BY <1>1, <1>2

LEMMA TakingsOfWrittenStay ==
  ASSUME IInv, [Next]_vars, NEW W, W \subseteq emitted
  PROVE  /\ \A p \in Product : Takings(Sold(p)', Back(p)', W) = Takings(Sold(p), Back(p), W)
         /\ Takings(Paid', Refunded', W) = Takings(Paid, Refunded, W)
<1>1. /\ \A s \in Sale : <<"sale.completed", s>> \in W \/ <<"sale.cancelled", s>> \in W =>
           sale'[s].items = sale[s].items /\ sale'[s].cash = sale[s].cash
      /\ \A r \in Return : <<"return.completed", r>> \in W \/ <<"return.cancelled", r>> \in W =>
           ret'[r].items = ret[r].items /\ ret'[r].cash = ret[r].cash
  BY WrittenRowsStay
<1>2. ASSUME NEW p \in Product
      PROVE  Takings(Sold(p)', Back(p)', W) = Takings(Sold(p), Back(p), W)
  <2>1. /\ \A s \in Sale : <<"sale.completed", s>> \in W \/ <<"sale.cancelled", s>> \in W =>
             Sold(p)'[s] = Sold(p)[s]
        /\ \A r \in Return : <<"return.completed", r>> \in W \/ <<"return.cancelled", r>> \in W =>
             Back(p)'[r] = Back(p)[r]
    BY <1>1 DEF Sold, Back
  <2> QED BY <2>1, TakingsStay
<1>3. Takings(Paid', Refunded', W) = Takings(Paid, Refunded, W)
  <2>1. /\ \A s \in Sale : <<"sale.completed", s>> \in W \/ <<"sale.cancelled", s>> \in W =>
             Paid'[s] = Paid[s]
        /\ \A r \in Return : <<"return.completed", r>> \in W \/ <<"return.cancelled", r>> \in W =>
             Refunded'[r] = Refunded[r]
    BY <1>1 DEF Paid, Refunded
  <2> QED BY <2>1, TakingsStay
<1> QED BY <1>2, <1>3

\* The movements of an event are its share, taken from the balance.
LEMMA StockMoves ==
  ASSUME TypeOK, NEW e \in Event, ApplyStock(e)
  PROVE  /\ UNCHANGED <<sale, ret, added, removed, emitted>> /\ e \in emitted
         /\ \/ UNCHANGED <<balance, stockRows>>
            \/ /\ stockRows[e] = 0 /\ stockRows' = [stockRows EXCEPT ![e] = 1]
               /\ \A p \in Product : balance'[p] = balance[p] - Share(Sold(p), Back(p), e)
<1>1. PICK sign \in {-1, 1} :
        /\ Stock!MoveItems(e, Document(e).items, sign)
        /\ e[1] \in {"sale.completed", "return.cancelled"} => sign = -1
        /\ e[1] \in {"sale.cancelled", "return.completed"} => sign = 1
  BY DEF ApplyStock, Stock!ApplySaleItems, Stock!ApplyReturnItems
<1>2. UNCHANGED <<sale, ret, added, removed, emitted>> /\ e \in emitted
  BY <1>1 DEF ApplyStock, Returning, MayRun, Stock!MoveItems
<1>3. CASE stockRows[e] # 0
  BY <1>1, <1>2, <1>3 DEF Stock!MoveItems
<1>4. CASE stockRows[e] = 0
  <2>1. /\ stockRows' = [stockRows EXCEPT ![e] = 1]
        /\ \A p \in Product : balance'[p] = balance[p] + sign * Document(e).items[p]
    BY <1>1, <1>4 DEF Stock!MoveItems
  <2>2. ASSUME NEW p \in Product
        PROVE  balance'[p] = balance[p] - Share(Sold(p), Back(p), e)
    <3>0. balance[p] \in Int
      BY DEF TypeOK
    <3>1. CASE \E s \in Sale : e = <<"sale.completed", s>>
      <4>1. PICK s \in Sale : e = <<"sale.completed", s>>
        BY <3>1
      <4>2. Document(e) = sale[s] /\ sign = -1
        BY <1>1, <4>1 DEF Document, OfSale
      <4>3. Share(Sold(p), Back(p), e) = sale[s].items[p] /\ sale[s].items[p] \in Int
        BY <4>1, RowsAreFunctions DEF Share, Sold
      <4> QED BY <2>1, <3>0, <4>2, <4>3
    <3>2. CASE \E s \in Sale : e = <<"sale.cancelled", s>>
      <4>1. PICK s \in Sale : e = <<"sale.cancelled", s>>
        BY <3>2
      <4>2. Document(e) = sale[s] /\ sign = 1
        BY <1>1, <4>1 DEF Document, OfSale
      <4>3. Share(Sold(p), Back(p), e) = -sale[s].items[p] /\ sale[s].items[p] \in Int
        BY <4>1, RowsAreFunctions DEF Share, Sold
      <4> QED BY <2>1, <3>0, <4>2, <4>3
    <3>3. CASE \E r \in Return : e = <<"return.completed", r>>
      <4>1. PICK r \in Return : e = <<"return.completed", r>>
        BY <3>3
      <4>2. Document(e) = ret[r] /\ sign = 1
        BY <1>1, <4>1 DEF Document, OfSale
      <4>3. Share(Sold(p), Back(p), e) = -ret[r].items[p] /\ ret[r].items[p] \in Int
        BY <4>1, RowsAreFunctions DEF Share, Back
      <4> QED BY <2>1, <3>0, <4>2, <4>3
    <3>4. CASE \E r \in Return : e = <<"return.cancelled", r>>
      <4>1. PICK r \in Return : e = <<"return.cancelled", r>>
        BY <3>4
      <4>2. Document(e) = ret[r] /\ sign = -1
        BY <1>1, <4>1 DEF Document, OfSale
      <4>3. Share(Sold(p), Back(p), e) = ret[r].items[p] /\ ret[r].items[p] \in Int
        BY <4>1, RowsAreFunctions DEF Share, Back
      <4> QED BY <2>1, <3>0, <4>2, <4>3
    <3> QED BY <3>1, <3>2, <3>3, <3>4 DEF Event
  <2> QED BY <1>2, <1>4, <2>1, <2>2
<1> QED BY <1>3, <1>4

LEMMA ShareIsInt ==
  ASSUME NEW F \in [Sale -> Int], NEW G \in [Return -> Int], NEW e \in Event
  PROVE  Share(F, G, e) \in Int
<1>1. \A s \in Sale : F[s] \in Int /\ -F[s] \in Int
  OBVIOUS
<1>2. \A r \in Return : G[r] \in Int /\ -G[r] \in Int
  OBVIOUS
<1> QED BY <1>1, <1>2 DEF Share, Event

\* Sales still to take their pieces, cancelled returns that took theirs.
Awaited == {s \in Sale : <<"sale.completed", s>> \in emitted
                           /\ stockRows[<<"sale.completed", s>>] = 0}
TakenAway == {r \in Return : stockRows[<<"return.cancelled", r>>] = 1}

\* Stock and ledgers move in few steps.
LEMMA StockKinds ==
  ASSUME TypeOK, [Next]_vars
  PROVE  UNCHANGED stockVars \/ StockStep \/ \E e \in Event : ApplyStock(e)
<1>1. \A s \in Sale : SaleStep(s) => UNCHANGED stockVars
  BY SaleStepChanges
<1>2. \A r \in Return : ReturnStep(r) => UNCHANGED stockVars
  BY ReturnStepChanges
<1>3. \A x \in Session : CashStep(x) => UNCHANGED stockVars
  BY DEF CashStep
<1>4. DeliveryStep => UNCHANGED stockVars \/ \E e \in Event : ApplyStock(e)
  BY DEF DeliveryStep, ApplyCash, Dispatch, MarkApplied
<1>5. CrashStep => UNCHANGED stockVars
  BY DEF CrashStep, Crash, CrashInCash
<1>6. UNCHANGED vars => UNCHANGED stockVars
  BY DEF vars
<1> QED BY <1>1, <1>2, <1>3, <1>4, <1>5, <1>6 DEF Next

Posts(e, x) ==
  /\ x = SessionOf(e) /\ UNCHANGED <<sale, ret, float, emitted>>
  /\ Cash!InsertMovements(x, e, CashOf(e))

LEMMA CashKinds ==
  ASSUME TypeOK, [Next]_vars
  PROVE  \/ UNCHANGED <<posted, ledger, float>>
         \/ \E x \in Session : CashStep(x)
         \/ \E e \in Event, x \in Session : Posts(e, x)
<1>1. \A s \in Sale : SaleStep(s) => UNCHANGED <<posted, ledger, float>>
  BY SaleStepChanges
<1>2. \A r \in Return : ReturnStep(r) => UNCHANGED <<posted, ledger, float>>
  BY ReturnStepChanges
<1>3. StockStep => UNCHANGED <<posted, ledger, float>>
  BY DEF StockStep
<1>4. ASSUME NEW e \in Event, NEW x \in Session, ApplyCash(e, x) PROVE Posts(e, x)
  BY <1>4 DEF ApplyCash, EffectSession, Cash!Record, Returning, Posts
<1>5. ASSUME NEW e \in Event, NEW x \in Session, CrashInCash(e, x) PROVE Posts(e, x)
  BY <1>5 DEF CrashInCash, EffectSession, Cash!RecordHalf, Posts
<1>6. DeliveryStep => \/ UNCHANGED <<posted, ledger, float>>
                      \/ \E e \in Event, x \in Session : Posts(e, x)
  BY <1>4 DEF DeliveryStep, ApplyStock, Dispatch, MarkApplied
<1>7. CrashStep => \/ UNCHANGED <<posted, ledger, float>>
                   \/ \E e \in Event, x \in Session : Posts(e, x)
  BY <1>5 DEF CrashStep, Crash
<1>8. UNCHANGED vars => UNCHANGED <<posted, ledger, float>>
  BY DEF vars
<1> QED BY <1>1, <1>2, <1>3, <1>6, <1>7, <1>8 DEF Next

\* Nothing was written yet.
LEMMA NoTakings ==
  ASSUME NEW F, NEW G PROVE Takings(F, G, {}) = 0
<1>1. \A kind : SalesIn({}, kind) = {} /\ ReturnsIn({}, kind) = {}
  BY DEF SalesIn, ReturnsIn
<1>2. SumFunctionOnSet(F, {}) = 0 /\ SumFunctionOnSet(G, {}) = 0
  BY SumEmpty
<1> QED BY <1>1, <1>2 DEF Takings

LEMMA BooksInit == Init => Documented /\ StockKept /\ CashKept /\ CommittedStockCovered
<1> SUFFICES ASSUME Init
             PROVE  Documented /\ StockKept /\ CashKept /\ CommittedStockCovered
  OBVIOUS
<1>1. Moved = {} /\ \A x \in Session : Posted(x) = {}
  BY DEF Init, Moved, Posted, Stock!InventoryInit, Cash!CashInit
<1>2. StockKept
  <2>1. \A p \in Product : balance[p] = Opening[p] /\ added[p] = 0 /\ removed[p] = 0
                            /\ Opening[p] \in Nat
    BY PointOfSaleAssumption DEF Init, Stock!InventoryInit
  <2>2. \A p \in Product : Takings(Sold(p), Back(p), Moved) = 0
    BY <1>1, NoTakings
  <2> QED BY <2>1, <2>2 DEF StockKept
<1>3. CashKept
  <2>1. \A x \in Session : ledger[x] = 0 /\ float[x] = 0
    BY DEF Init, Cash!CashInit
  <2>2. \A x \in Session : Takings(Paid, Refunded, Posted(x)) = 0
    BY <1>1, NoTakings
  <2> QED BY <2>1, <2>2 DEF CashKept
<1>4. CommittedStockCovered
  <2> SUFFICES ASSUME NEW p \in Product
               PROVE  SumFunctionOnSet(Sold(p), Awaited)
                        <= balance[p] + removed[p] + SumFunctionOnSet(Back(p), TakenAway)
    BY DEF CommittedStockCovered, Awaited, TakenAway
  <2>1. emitted = {} /\ \A e \in Event : stockRows[e] = 0
    BY DEF Init, Stock!InventoryInit
  <2>2. Awaited = {} /\ TakenAway = {}
    <3>1. \A r \in Return : stockRows[<<"return.cancelled", r>>] = 0
      BY <2>1, EventsOfRows
    <3>2. Awaited = {}
      BY <2>1 DEF Awaited
    <3>3. TakenAway = {}
      BY <3>1 DEF TakenAway
    <3> QED BY <3>2, <3>3
  <2>3. balance[p] \in Nat /\ removed[p] = 0
    BY PointOfSaleAssumption DEF Init, Stock!InventoryInit
  <2>4. SumFunctionOnSet(Sold(p), {}) = 0 /\ SumFunctionOnSet(Back(p), {}) = 0
    BY SumEmpty
  <2> QED BY <2>2, <2>3, <2>4
<1> QED BY <1>2, <1>3, <1>4, DocumentedInit

LEMMA StockKeptStep ==
  ASSUME IInv, StockKept, [Next]_vars PROVE StockKept'
<1>0. /\ TypeOK /\ Moved \subseteq emitted
      /\ \A p \in Product : /\ balance[p] \in Int /\ added[p] \in Int /\ removed[p] \in Int
                            /\ Opening[p] \in Int
                            /\ Takings(Sold(p), Back(p), Moved) \in Int
  <2>1. TypeOK /\ Moved \subseteq emitted
    BY DEF IInv, Written, Moved
  <2>2. \A p \in Product : Sold(p) \in [Sale -> Int] /\ Back(p) \in [Return -> Int]
    BY <2>1, RowsAreFunctions
  <2>3. \A p \in Product : Takings(Sold(p), Back(p), Moved) \in Int
    BY <2>2, TakingsAreInt
  <2> QED BY <2>1, <2>3, PointOfSaleAssumption DEF TypeOK
<1>1. CASE UNCHANGED stockVars
  <2>1. Moved' = Moved
    BY <1>1 DEF Moved
  <2>2. \A p \in Product : Takings(Sold(p)', Back(p)', Moved) = Takings(Sold(p), Back(p), Moved)
    BY <1>0, TakingsOfWrittenStay
  <2> QED BY <1>1, <2>1, <2>2 DEF StockKept
<1>2. CASE StockStep
  <2>1. PICK p \in Product, delta \in {-1, 1} : Stock!Adjust(p, delta)
    BY <1>2 DEF StockStep
  <2>2. UNCHANGED <<sale, ret, stockRows>>
    BY <1>2, <2>1 DEF StockStep, Stock!Adjust
  <2>3. /\ \A q \in Product : Takings(Sold(q)', Back(q)', Moved') = Takings(Sold(q), Back(q), Moved)
    BY <2>2 DEF Sold, Back, Moved
  <2>4. ASSUME NEW q \in Product
        PROVE  balance'[q] - added'[q] + removed'[q] = balance[q] - added[q] + removed[q]
    <3>1. CASE q # p
      BY <1>0, <2>1, <3>1 DEF Stock!Adjust, TypeOK
    <3>2. CASE q = p /\ delta = -1
      <4>1. balance'[q] = balance[q] - 1 /\ added'[q] = added[q] /\ removed'[q] = removed[q] + 1
        BY <1>0, <2>1, <3>2 DEF Stock!Adjust, TypeOK
      <4> QED BY <1>0, <4>1
    <3>3. CASE q = p /\ delta = 1
      <4>1. balance'[q] = balance[q] + 1 /\ added'[q] = added[q] + 1 /\ removed'[q] = removed[q]
        BY <1>0, <2>1, <3>3 DEF Stock!Adjust, TypeOK
      <4> QED BY <1>0, <4>1
    <3> QED BY <3>1, <3>2, <3>3
  <2>5. \A q \in Product : balance'[q] \in Int /\ added'[q] \in Int /\ removed'[q] \in Int
    <3>1. TypeOK'
      BY <1>0, TypeStep
    <3> QED BY <3>1 DEF TypeOK
  <2>6. ASSUME NEW q \in Product
        PROVE  balance'[q] = Opening[q] + added'[q] - removed'[q]
                               - Takings(Sold(q)', Back(q)', Moved')
    <3>1. balance[q] = Opening[q] + added[q] - removed[q] - Takings(Sold(q), Back(q), Moved)
      BY DEF StockKept
    <3> QED BY <1>0, <2>3, <2>4, <2>5, <3>1
  <2> QED BY <2>6 DEF StockKept
<1>3. ASSUME NEW e \in Event, ApplyStock(e) PROVE StockKept'
  <2>1. /\ UNCHANGED <<sale, ret, added, removed, emitted>>
        /\ \/ UNCHANGED <<balance, stockRows>>
           \/ /\ stockRows[e] = 0 /\ stockRows' = [stockRows EXCEPT ![e] = 1]
              /\ \A p \in Product : balance'[p] = balance[p] - Share(Sold(p), Back(p), e)
    BY <1>0, <1>3, StockMoves
  <2>2. \A p \in Product : Sold(p)' = Sold(p) /\ Back(p)' = Back(p)
    BY <2>1 DEF Sold, Back
  <2>3. CASE UNCHANGED <<balance, stockRows>>
    BY <2>1, <2>2, <2>3 DEF StockKept, Moved
  <2>4. ASSUME stockRows[e] = 0, stockRows' = [stockRows EXCEPT ![e] = 1],
               \A p \in Product : balance'[p] = balance[p] - Share(Sold(p), Back(p), e)
        PROVE  StockKept'
    <3>1. e \notin Moved /\ Moved' = Moved \union {e}
      BY <1>0, <2>4 DEF Moved, TypeOK
    <3>2. ASSUME NEW p \in Product
          PROVE  balance'[p] = Opening[p] + added'[p] - removed'[p]
                                 - Takings(Sold(p)', Back(p)', Moved')
      <4>1. Sold(p) \in [Sale -> Int] /\ Back(p) \in [Return -> Int]
        BY <1>0, RowsAreFunctions
      <4>2. Takings(Sold(p), Back(p), Moved \union {e}) =
              Takings(Sold(p), Back(p), Moved) + Share(Sold(p), Back(p), e)
        BY <3>1, <4>1, TakingsGrow
      <4>3. Share(Sold(p), Back(p), e) \in Int
        BY <4>1, ShareIsInt
      <4>4. Takings(Sold(p)', Back(p)', Moved') =
              Takings(Sold(p), Back(p), Moved) + Share(Sold(p), Back(p), e)
        BY <2>2, <3>1, <4>2
      <4>5. balance[p] = Opening[p] + added[p] - removed[p] - Takings(Sold(p), Back(p), Moved)
        BY DEF StockKept
      <4>6. balance'[p] = balance[p] - Share(Sold(p), Back(p), e)
            /\ added'[p] = added[p] /\ removed'[p] = removed[p]
        BY <2>1, <2>4
      <4> QED BY <1>0, <4>3, <4>4, <4>5, <4>6
    <3> QED BY <3>2 DEF StockKept
  <2> QED BY <2>1, <2>3, <2>4
<1> QED BY <1>0, <1>1, <1>2, <1>3, StockKinds

\* An event that posts, posts its share in its own session, once.
LEMMA CashMoves ==
  ASSUME TypeOK, NEW e \in Event, NEW x \in Session, Posts(e, x)
  PROVE  \/ UNCHANGED <<posted, ledger>>
         \/ /\ posted[<<x, e>>] = 0 /\ posted' = [posted EXCEPT ![<<x, e>>] = 1]
            /\ ledger'[x] = ledger[x] + Share(Paid, Refunded, e)
            /\ \A y \in Session \ {x} : ledger'[y] = ledger[y]
<1>1. CASE posted[<<x, e>>] # 0
  BY <1>1 DEF Posts, Cash!InsertMovements
<1>2. CASE posted[<<x, e>>] = 0
  <2>1. /\ posted' = [posted EXCEPT ![<<x, e>>] = 1]
        /\ ledger' = [ledger EXCEPT ![x] = @ + CashOf(e)]
    BY <1>2 DEF Posts, Cash!InsertMovements
  <2>2. CashOf(e) = Share(Paid, Refunded, e)
    <3>1. CASE \E s \in Sale : e = <<"sale.completed", s>>
      BY <3>1 DEF CashOf, Document, OfSale, Share, Paid
    <3>2. CASE \E s \in Sale : e = <<"sale.cancelled", s>>
      BY <3>2 DEF CashOf, Document, OfSale, Share, Paid
    <3>3. CASE \E r \in Return : e = <<"return.completed", r>>
      BY <3>3 DEF CashOf, Document, OfSale, Share, Refunded
    <3>4. CASE \E r \in Return : e = <<"return.cancelled", r>>
      BY <3>4 DEF CashOf, Document, OfSale, Share, Refunded
    <3> QED BY <3>1, <3>2, <3>3, <3>4 DEF Event
  <2>3. ledger'[x] = ledger[x] + CashOf(e)
        /\ \A y \in Session \ {x} : ledger'[y] = ledger[y]
    BY <2>1 DEF TypeOK
  <2> QED BY <1>2, <2>1, <2>2, <2>3
<1> QED BY <1>1, <1>2

\* Events post in a session that is there.
LEMMA NothingBeforeOpening ==
  ASSUME IInv, NEW x \in Session, status[x] = "NONE" PROVE Posted(x) = {}
BY DEF IInv, Written, Rows, EventsHoused, Housed, SessionOf, Posted

LEMMA CashKeptStep ==
  ASSUME IInv, CashKept, [Next]_vars PROVE CashKept'
<1>0. /\ TypeOK /\ \A x \in Session : Posted(x) \subseteq emitted
      /\ Paid \in [Sale -> Int] /\ Refunded \in [Return -> Int]
      /\ \A x \in Session : /\ ledger[x] \in Int /\ float[x] \in Int
                            /\ Takings(Paid, Refunded, Posted(x)) \in Int
  <2>1. TypeOK /\ \A x \in Session : Posted(x) \subseteq emitted
    BY DEF IInv, Written, Posted
  <2>2. Paid \in [Sale -> Int] /\ Refunded \in [Return -> Int]
    BY <2>1, RowsAreFunctions
  <2>3. \A x \in Session : Takings(Paid, Refunded, Posted(x)) \in Int
    BY <2>2, TakingsAreInt
  <2> QED BY <2>1, <2>2, <2>3 DEF TypeOK
<1>1. ASSUME NEW x \in Session, Posted(x)' = Posted(x),
             ledger'[x] - float'[x] = ledger[x] - float[x],
             ledger'[x] \in Int, float'[x] \in Int
      PROVE  ledger'[x] = float'[x] + Takings(Paid', Refunded', Posted(x)')
  <2>1. Takings(Paid', Refunded', Posted(x)) = Takings(Paid, Refunded, Posted(x))
    BY <1>0, TakingsOfWrittenStay
  <2>2. Takings(Paid', Refunded', Posted(x)') = Takings(Paid, Refunded, Posted(x))
    BY <1>1, <2>1
  <2>3. ledger[x] = float[x] + Takings(Paid, Refunded, Posted(x))
    BY DEF CashKept
  <2> QED BY <1>0, <1>1, <2>2, <2>3
<1>2. CASE UNCHANGED <<posted, ledger, float>>
  <2>1. \A x \in Session : /\ Posted(x)' = Posted(x)
                           /\ ledger'[x] - float'[x] = ledger[x] - float[x]
                           /\ ledger'[x] \in Int /\ float'[x] \in Int
    BY <1>0, <1>2 DEF Posted
  <2> QED BY <1>1, <2>1 DEF CashKept
<1>3. ASSUME NEW y \in Session, CashStep(y) PROVE CashKept'
  <2>1. UNCHANGED <<sale, ret, posted>>
    BY <1>3 DEF CashStep, Cash!OpenSession, Cash!AddSupply, Cash!Withdraw,
                Cash!MoveManually, Cash!CloseSession
  <2>2. \A x \in Session : Posted(x)' = Posted(x)
    BY <2>1 DEF Posted
  <2>3. ledger' \in [Session -> Int] /\ float' \in [Session -> Int]
    <3>1. TypeOK'
      BY <1>0, TypeStep
    <3> QED BY <3>1 DEF TypeOK
  <2>4. ASSUME NEW t \in Terminal, NEW initial \in Float, Cash!OpenSession(y, t, initial)
        PROVE  CashKept'
    <3>1. /\ ledger'[y] = initial /\ float'[y] = initial /\ status[y] = "NONE"
          /\ \A x \in Session \ {y} : ledger'[x] = ledger[x] /\ float'[x] = float[x]
      BY <2>4 DEF Cash!OpenSession, TypeOK, IInv
    <3>2. ledger'[y] = float'[y] + Takings(Paid', Refunded', Posted(y)')
      <4>1. Takings(Paid', Refunded', Posted(y)') = 0
        BY <2>2, <3>1, NothingBeforeOpening, NoTakings
      <4> QED BY <2>3, <3>1, <4>1
    <3>3. \A x \in Session \ {y} : ledger'[x] = float'[x] + Takings(Paid', Refunded', Posted(x)')
      BY <1>0, <1>1, <2>2, <2>3, <3>1
    <3> QED BY <3>2, <3>3 DEF CashKept
  <2>5. ASSUME NEW amount \in Int, Cash!MoveManually(y, amount) PROVE CashKept'
    <3>1. /\ ledger'[y] = ledger[y] + amount /\ float'[y] = float[y] + amount
          /\ \A x \in Session \ {y} : ledger'[x] = ledger[x] /\ float'[x] = float[x]
      BY <2>5 DEF Cash!MoveManually, TypeOK, IInv
    <3>2. \A x \in Session : ledger'[x] - float'[x] = ledger[x] - float[x]
      BY <1>0, <3>1
    <3> QED BY <1>1, <2>2, <2>3, <3>2 DEF CashKept
  <2>6. CASE Cash!CloseSession(y)
    <3>1. UNCHANGED <<ledger, float>>
      BY <2>6 DEF Cash!CloseSession
    <3> QED BY <1>2, <2>1, <3>1
  <2>7. ASSUME NEW amount \in Float \ {0}, Cash!AddSupply(y, amount) PROVE CashKept'
    BY <2>5, <2>7, PointOfSaleAssumption DEF Cash!AddSupply
  <2>8. ASSUME NEW amount \in Float \ {0}, Cash!Withdraw(y, amount) PROVE CashKept'
    <3>1. -amount \in Int
      BY PointOfSaleAssumption
    <3> QED BY <2>5, <2>8, <3>1 DEF Cash!Withdraw
  <2> QED BY <1>3, <2>4, <2>6, <2>7, <2>8 DEF CashStep
<1>4. ASSUME NEW e \in Event, NEW x \in Session, Posts(e, x) PROVE CashKept'
  <2>1. Paid' = Paid /\ Refunded' = Refunded /\ UNCHANGED float
    BY <1>4 DEF Posts, Paid, Refunded
  <2>2. CASE UNCHANGED <<posted, ledger>>
    BY <1>2, <2>1, <2>2
  <2>3. ASSUME posted[<<x, e>>] = 0, posted' = [posted EXCEPT ![<<x, e>>] = 1],
               ledger'[x] = ledger[x] + Share(Paid, Refunded, e),
               \A y \in Session \ {x} : ledger'[y] = ledger[y]
        PROVE  CashKept'
    <3>1. /\ e \notin Posted(x) /\ Posted(x)' = Posted(x) \union {e}
          /\ \A y \in Session \ {x} : Posted(y)' = Posted(y)
      BY <1>0, <2>3 DEF Posted, TypeOK
    <3>2. ledger'[x] = float'[x] + Takings(Paid', Refunded', Posted(x)')
      <4>1. Takings(Paid, Refunded, Posted(x) \union {e}) =
              Takings(Paid, Refunded, Posted(x)) + Share(Paid, Refunded, e)
        BY <1>0, <3>1, TakingsGrow
      <4>2. Share(Paid, Refunded, e) \in Int
        BY <1>0, ShareIsInt
      <4>3. Takings(Paid', Refunded', Posted(x)') =
              Takings(Paid, Refunded, Posted(x)) + Share(Paid, Refunded, e)
        BY <2>1, <3>1, <4>1
      <4>4. ledger[x] = float[x] + Takings(Paid, Refunded, Posted(x))
        BY DEF CashKept
      <4>5. float'[x] = float[x]
        BY <2>1
      <4> QED BY <1>0, <2>3, <4>2, <4>3, <4>4, <4>5
    <3>3. ASSUME NEW y \in Session \ {x}
          PROVE  ledger'[y] = float'[y] + Takings(Paid', Refunded', Posted(y)')
      <4>1. ledger[y] = float[y] + Takings(Paid, Refunded, Posted(y))
        BY DEF CashKept
      <4> QED BY <2>1, <2>3, <3>1, <4>1
    <3> QED BY <3>2, <3>3 DEF CashKept
  <2> QED BY <1>0, <1>4, <2>2, <2>3, CashMoves
<1> QED BY <1>0, <1>2, <1>3, <1>4, CashKinds

-----------------------------------------------------------------------------
(***************************************************************************)
(* What completed sales are still to take is in stock.                     *)
(***************************************************************************)
Needed(p) == SumFunctionOnSet(Sold(p), Awaited)
Given(p) == SumFunctionOnSet(Back(p), TakenAway)

LEMMA CoveredMeans ==
  CommittedStockCovered <=> \A p \in Product : Needed(p) <= balance[p] + removed[p] + Given(p)
BY DEF CommittedStockCovered, Needed, Given, Awaited, TakenAway

LEMMA NeededAreNat ==
  ASSUME TypeOK
  PROVE  /\ IsFiniteSet(Awaited) /\ IsFiniteSet(TakenAway)
         /\ \A p \in Product : Needed(p) \in Nat /\ Given(p) \in Nat
<1>1. Awaited \subseteq Sale /\ TakenAway \subseteq Return
  BY DEF Awaited, TakenAway
<1>2. IsFiniteSet(Awaited) /\ IsFiniteSet(TakenAway)
  BY <1>1, FS_Subset, PointOfSaleAssumption
<1>3. ASSUME NEW p \in Product PROVE Needed(p) \in Nat /\ Given(p) \in Nat
  <2>1. Sold(p) \in [Sale -> Nat] /\ Back(p) \in [Return -> Nat]
    BY RowsAreFunctions
  <2>2. (\A s \in Awaited : Sold(p)[s] \in Nat) /\ (\A r \in TakenAway : Back(p)[r] \in Nat)
    BY <1>1, <2>1
  <2> QED BY <1>2, <2>2, SumIsNat DEF Needed, Given
<1> QED BY <1>2, <1>3

LEMMA NeededWillBeNat ==
  ASSUME TypeOK' PROVE \A p \in Product : Needed(p)' \in Nat /\ Given(p)' \in Nat
<1>1. (/\ IsFiniteSet(Awaited) /\ IsFiniteSet(TakenAway)
       /\ \A p \in Product : Needed(p) \in Nat /\ Given(p) \in Nat)'
  BY NeededAreNat, PTL
<1> QED BY <1>1

\* The same sales wait and the same returns took away, with the same pieces.
LEMMA NeededStay ==
  ASSUME IInv, [Next]_vars, Awaited' = Awaited, TakenAway' = TakenAway, NEW p \in Product
  PROVE  Needed(p)' = Needed(p) /\ Given(p)' = Given(p)
<1>1. \A s \in Awaited : s \in Sale /\ <<"sale.completed", s>> \in emitted
  BY DEF Awaited
<1>2. \A r \in TakenAway : r \in Return /\ <<"return.cancelled", r>> \in emitted
  BY EventsOfRows DEF TakenAway, IInv, Written
<1>3. /\ \A s \in Awaited : Sold(p)'[s] = Sold(p)[s]
      /\ \A r \in TakenAway : Back(p)'[r] = Back(p)[r]
  BY <1>1, <1>2, WrittenRowsStay DEF Sold, Back
<1>4. IsFiniteSet(Awaited) /\ IsFiniteSet(TakenAway)
  BY NeededAreNat DEF IInv
<1>5. /\ SumFunctionOnSet(Sold(p)', Awaited) = SumFunctionOnSet(Sold(p), Awaited)
      /\ SumFunctionOnSet(Back(p)', TakenAway) = SumFunctionOnSet(Back(p), TakenAway)
  BY <1>3, <1>4, SumEqual
<1> QED BY <1>5 DEF Needed, Given

\* No more is needed than what completeSale set aside.
LEMMA NeededIsCommitted ==
  ASSUME IInv, NEW p \in Product
  PROVE  Needed(p) <= Committed(p) /\ Committed(p) \in Nat
<1> DEFINE Open == {s \in Sale : <<"sale.completed", s>> \in emitted
                                   /\ <<<<"sale.completed", s>>, "stock">> \notin applied}
<1>1. Awaited \subseteq Open
  <2>1. \A s \in Sale : <<<<"sale.completed", s>>, "stock">> \in applied =>
                          stockRows[<<"sale.completed", s>>] = 1
    BY EventsOfRows DEF IInv, Marked, Finished
  <2> QED BY <2>1 DEF Awaited
<1>2. IsFiniteSet(Open) /\ Open \subseteq Sale
  BY FS_Subset, PointOfSaleAssumption
<1>3. \A s \in Open : Sold(p)[s] \in Nat
  BY <1>2, RowsAreFunctions DEF IInv
<1>4. Committed(p) = SumFunctionOnSet(Sold(p), Open)
  BY DEF Committed
<1> HIDE DEF Open
<1>5. /\ SumFunctionOnSet(Sold(p), Awaited) <= SumFunctionOnSet(Sold(p), Open)
      /\ SumFunctionOnSet(Sold(p), Open) \in Nat
  BY <1>1, <1>2, <1>3, SumOfPart
<1> QED BY <1>4, <1>5 DEF Needed

LEMMA CoveredAfterSaleStep ==
  ASSUME IInv, CommittedStockCovered, [Next]_vars, NEW s \in Sale, SaleStep(s)
  PROVE  CommittedStockCovered'
<1>0. TypeOK /\ \A p \in Product : balance[p] \in Nat /\ removed[p] \in Nat
  BY DEF IInv, TypeOK
<1>1. /\ Others(s) /\ UNCHANGED <<ret, stockVars>>
      /\ Drafted(s) \/ Completed(s) \/ Cancelled(s)
  BY <1>0, SaleStepChanges
<1>2. TakenAway' = TakenAway
  BY <1>1 DEF TakenAway
<1>3. CASE Drafted(s) \/ Cancelled(s)
  <2>1. Awaited' = Awaited
    BY <1>1, <1>3 DEF Drafted, Cancelled, Awaited
  <2>2. \A p \in Product : Needed(p)' = Needed(p) /\ Given(p)' = Given(p)
    BY <1>2, <2>1, NeededStay
  <2>3. (\A p \in Product : Needed(p) <= balance[p] + removed[p] + Given(p))'
    BY <1>1, <2>2, CoveredMeans
  <2>4. (CommittedStockCovered <=> \A p \in Product : Needed(p) <= balance[p] + removed[p] + Given(p))'
    BY CoveredMeans, PTL
  <2> QED BY <2>3, <2>4
<1>4. CASE Completed(s)
  <2>1. /\ IsAvailable(s) /\ sale'[s].items = sale[s].items
        /\ emitted' = emitted \union {<<"sale.completed", s>>}
        /\ <<"sale.completed", s>> \notin emitted
    BY <1>4 DEF Completed, IInv, Rows, SalesAndEvents, Draft
  <2>2. stockRows[<<"sale.completed", s>>] = 0
    BY <2>1, EventsOfRows DEF IInv, Written, TypeOK
  <2>3. s \notin Awaited /\ Awaited' = Awaited \union {s}
    BY <1>1, <2>1, <2>2 DEF Awaited
  <2>4. ASSUME NEW p \in Product
        PROVE  (Needed(p) <= balance[p] + removed[p] + Given(p))'
    <3>1. Sold(p) \in [Sale -> Nat] /\ Awaited \subseteq Sale
      BY <1>0, RowsAreFunctions DEF Awaited
    <3>2. Sold(p)' = Sold(p) /\ Back(p)' = Back(p)
      BY <1>1, <2>1 DEF Sold, Back, Others
    <3>3. \A t \in Awaited \union {s} : Sold(p)[t] \in Int
      BY <3>1
    <3>4. SumFunctionOnSet(Sold(p), Awaited \union {s}) =
            Sold(p)[s] + SumFunctionOnSet(Sold(p), Awaited)
      BY <1>0, <2>3, <3>3, NeededAreNat, SumAdd
    <3>5. Needed(p)' = Sold(p)[s] + Needed(p) /\ Given(p)' = Given(p)
      BY <1>2, <2>3, <3>2, <3>4 DEF Needed, Given
    <3>6. /\ Needed(p) \in Nat /\ Given(p) \in Nat /\ Sold(p)[s] \in Nat
          /\ Needed(p) <= Committed(p) /\ Committed(p) \in Nat
      BY <1>0, <3>1, NeededAreNat, NeededIsCommitted
    <3>7. Needed(p) <= balance[p] + removed[p] + Given(p)
      BY CoveredMeans
    <3>8. Sold(p)[s] > 0 => Sold(p)[s] <= balance[p] - Committed(p)
      BY <2>1 DEF IsAvailable, Available, Sold
    <3>9. balance'[p] = balance[p] /\ removed'[p] = removed[p]
      BY <1>1
    <3>10. Sold(p)[s] + Needed(p) <= balance[p] + removed[p] + Given(p)
      <4>1. CASE Sold(p)[s] = 0
        BY <3>6, <3>7, <4>1
      <4>2. CASE Sold(p)[s] > 0
        BY <1>0, <3>6, <3>8, <4>2
      <4> QED BY <3>6, <4>1, <4>2
    <3> QED BY <3>5, <3>9, <3>10
  <2>5. (CommittedStockCovered <=> \A p \in Product : Needed(p) <= balance[p] + removed[p] + Given(p))'
    BY CoveredMeans, PTL
  <2> QED BY <2>4, <2>5
<1> QED BY <1>1, <1>3, <1>4

LEMMA CoveredWillMean ==
  ASSUME \A p \in Product : Needed(p)' <= balance'[p] + removed'[p] + Given(p)'
  PROVE  CommittedStockCovered'
<1>1. (CommittedStockCovered <=> \A p \in Product : Needed(p) <= balance[p] + removed[p] + Given(p))'
  BY CoveredMeans, PTL
<1> QED BY <1>1

LEMMA CoveredAfterApply ==
  ASSUME IInv, CommittedStockCovered, [Next]_vars, NEW e \in Event, ApplyStock(e),
         stockRows[e] = 0, stockRows' = [stockRows EXCEPT ![e] = 1], e \in emitted,
         UNCHANGED <<sale, ret, added, removed, emitted>>,
         \A p \in Product : balance'[p] = balance[p] - Share(Sold(p), Back(p), e)
  PROVE  CommittedStockCovered'
<1>0. /\ TypeOK /\ \A p \in Product : /\ balance[p] \in Nat /\ removed[p] \in Nat
                                       /\ removed'[p] = removed[p]
                                       /\ Sold(p)' = Sold(p) /\ Back(p)' = Back(p)
  BY DEF IInv, TypeOK, Sold, Back
<1>1. stockRows'[e] = 1 /\ \A k \in Event : k # e => stockRows'[k] = stockRows[k]
  BY <1>0 DEF TypeOK
<1> SUFFICES ASSUME NEW p \in Product
             PROVE  Needed(p)' <= balance'[p] + removed'[p] + Given(p)'
  BY CoveredWillMean
<1>2. /\ Needed(p) <= balance[p] + removed[p] + Given(p)
      /\ Needed(p) \in Nat /\ Given(p) \in Nat
      /\ Sold(p) \in [Sale -> Nat] /\ Back(p) \in [Return -> Nat]
  BY <1>0, CoveredMeans, NeededAreNat, RowsAreFunctions
<1>3. ASSUME Awaited' = Awaited, TakenAway' = TakenAway, Share(Sold(p), Back(p), e) \in Int,
             Share(Sold(p), Back(p), e) <= 0
      PROVE  Needed(p)' <= balance'[p] + removed'[p] + Given(p)'
  <2>1. Needed(p)' = Needed(p) /\ Given(p)' = Given(p)
    BY <1>0, <1>3 DEF Needed, Given
  <2>2. balance'[p] \in Int /\ balance'[p] >= balance[p]
    BY <1>0, <1>3
  <2> QED BY <1>0, <1>2, <2>1, <2>2
<1>4. CASE \E s \in Sale : e = <<"sale.completed", s>>
  <2>1. PICK s \in Sale : e = <<"sale.completed", s>>
    BY <1>4
  <2>2. s \in Awaited /\ Awaited' = Awaited \ {s} /\ TakenAway' = TakenAway
    BY <1>1, <2>1, EventsOfRows DEF Awaited, TakenAway
  <2>3. \A t \in Awaited : Sold(p)[t] \in Int
    BY <1>2 DEF Awaited
  <2>4. SumFunctionOnSet(Sold(p), Awaited) =
          Sold(p)[s] + SumFunctionOnSet(Sold(p), Awaited \ {s})
    BY <1>0, <2>2, <2>3, NeededAreNat, SumRemove
  <2>5. Needed(p) = Sold(p)[s] + Needed(p)' /\ Given(p)' = Given(p)
    BY <1>0, <2>2, <2>4 DEF Needed, Given
  <2>6. Needed(p)' \in Nat
    <3>1. TypeOK'
      BY <1>0, TypeStep
    <3> QED BY <3>1, NeededWillBeNat
  <2>7. balance'[p] = balance[p] - Sold(p)[s] /\ Sold(p)[s] \in Nat
    BY <1>2, <2>1 DEF Share
  <2> QED BY <1>0, <1>2, <2>5, <2>6, <2>7
<1>5. CASE \E s \in Sale : e = <<"sale.cancelled", s>>
  <2>1. PICK s \in Sale : e = <<"sale.cancelled", s>>
    BY <1>5
  <2>2. Awaited' = Awaited /\ TakenAway' = TakenAway
    BY <1>1, <2>1, EventsOfRows DEF Awaited, TakenAway
  <2>3. Share(Sold(p), Back(p), e) = -Sold(p)[s] /\ Sold(p)[s] \in Nat
    BY <1>2, <2>1 DEF Share
  <2> QED BY <1>3, <2>2, <2>3
<1>6. CASE \E r \in Return : e = <<"return.completed", r>>
  <2>1. PICK r \in Return : e = <<"return.completed", r>>
    BY <1>6
  <2>2. Awaited' = Awaited /\ TakenAway' = TakenAway
    BY <1>1, <2>1, EventsOfRows DEF Awaited, TakenAway
  <2>3. Share(Sold(p), Back(p), e) = -Back(p)[r] /\ Back(p)[r] \in Nat
    BY <1>2, <2>1 DEF Share
  <2> QED BY <1>3, <2>2, <2>3
<1>7. CASE \E r \in Return : e = <<"return.cancelled", r>>
  <2>1. PICK r \in Return : e = <<"return.cancelled", r>>
    BY <1>7
  <2>2. Awaited' = Awaited /\ r \notin TakenAway /\ TakenAway' = TakenAway \union {r}
    BY <1>1, <2>1, EventsOfRows DEF Awaited, TakenAway
  <2>3. \A q \in TakenAway \union {r} : Back(p)[q] \in Int
    BY <1>2 DEF TakenAway
  <2>4. SumFunctionOnSet(Back(p), TakenAway \union {r}) =
          Back(p)[r] + SumFunctionOnSet(Back(p), TakenAway)
    BY <1>0, <2>2, <2>3, NeededAreNat, SumAdd
  <2>5. Needed(p)' = Needed(p) /\ Given(p)' = Back(p)[r] + Given(p)
    BY <1>0, <2>2, <2>4 DEF Needed, Given
  <2>6. balance'[p] = balance[p] - Back(p)[r] /\ Back(p)[r] \in Nat
    BY <1>2, <2>1 DEF Share
  <2> QED BY <1>0, <1>2, <2>5, <2>6
<1> QED BY <1>4, <1>5, <1>6, <1>7 DEF Event

LEMMA CoveredStep ==
  ASSUME IInv, CommittedStockCovered, [Next]_vars PROVE CommittedStockCovered'
<1>0. /\ TypeOK /\ \A p \in Product : balance[p] \in Nat /\ removed[p] \in Nat
      /\ \A p \in Product : Needed(p) <= balance[p] + removed[p] + Given(p)
      /\ \A p \in Product : Needed(p) \in Nat /\ Given(p) \in Nat
  BY CoveredMeans, NeededAreNat DEF IInv, TypeOK
<1>1. ASSUME Awaited' = Awaited, TakenAway' = TakenAway,
             \A p \in Product : balance'[p] + removed'[p] >= balance[p] + removed[p]
                                  /\ balance'[p] \in Int /\ removed'[p] \in Int
      PROVE  CommittedStockCovered'
  <2>1. \A p \in Product : Needed(p)' = Needed(p) /\ Given(p)' = Given(p)
    BY <1>1, NeededStay
  <2>2. ASSUME NEW p \in Product
        PROVE  Needed(p)' <= balance'[p] + removed'[p] + Given(p)'
    BY <1>0, <1>1, <2>1
  <2> QED BY <2>2, CoveredWillMean
<1>2. CASE UNCHANGED <<sale, ret, emitted>>
  <2>1. CASE UNCHANGED stockVars
    <3>1. Awaited' = Awaited /\ TakenAway' = TakenAway
      BY <1>2, <2>1 DEF Awaited, TakenAway
    <3>2. \A p \in Product : balance'[p] + removed'[p] >= balance[p] + removed[p]
                               /\ balance'[p] \in Int /\ removed'[p] \in Int
      BY <1>0, <2>1
    <3> QED BY <1>1, <3>1, <3>2
  <2>2. CASE StockStep
    <3>1. PICK p \in Product, delta \in {-1, 1} : Stock!Adjust(p, delta)
      BY <2>2 DEF StockStep
    <3>2. Awaited' = Awaited /\ TakenAway' = TakenAway
      BY <1>2, <3>1 DEF Awaited, TakenAway, Stock!Adjust
    <3>3. ASSUME NEW q \in Product
          PROVE  balance'[q] + removed'[q] >= balance[q] + removed[q]
                   /\ balance'[q] \in Int /\ removed'[q] \in Int
      <4>1. CASE q # p
        <5>1. balance'[q] = balance[q] /\ removed'[q] = removed[q]
          BY <1>0, <3>1, <4>1 DEF Stock!Adjust, TypeOK
        <5> QED BY <1>0, <5>1
      <4>2. CASE q = p /\ delta = -1
        <5>1. balance'[q] = balance[q] - 1 /\ removed'[q] = removed[q] + 1
          BY <1>0, <3>1, <4>2 DEF Stock!Adjust, TypeOK
        <5> QED BY <1>0, <5>1
      <4>3. CASE q = p /\ delta = 1
        <5>1. balance'[q] = balance[q] + 1 /\ removed'[q] = removed[q]
          BY <1>0, <3>1, <4>3 DEF Stock!Adjust, TypeOK
        <5> QED BY <1>0, <5>1
      <4> QED BY <4>1, <4>2, <4>3
    <3> QED BY <1>1, <3>2, <3>3
  <2>3. ASSUME NEW e \in Event, ApplyStock(e) PROVE CommittedStockCovered'
    <3>1. /\ UNCHANGED <<sale, ret, added, removed, emitted>> /\ e \in emitted
          /\ \/ UNCHANGED <<balance, stockRows>>
             \/ /\ stockRows[e] = 0 /\ stockRows' = [stockRows EXCEPT ![e] = 1]
                /\ \A p \in Product : balance'[p] = balance[p] - Share(Sold(p), Back(p), e)
      BY <1>0, <2>3, StockMoves
    <3>2. CASE UNCHANGED <<balance, stockRows>>
      <4>1. Awaited' = Awaited /\ TakenAway' = TakenAway
        BY <3>1, <3>2 DEF Awaited, TakenAway
      <4>2. \A p \in Product : balance'[p] + removed'[p] >= balance[p] + removed[p]
                                 /\ balance'[p] \in Int /\ removed'[p] \in Int
        BY <1>0, <3>1, <3>2
      <4> QED BY <1>1, <4>1, <4>2
    <3> QED BY <2>3, <3>1, <3>2, CoveredAfterApply
  <2> QED BY <1>0, <2>1, <2>2, <2>3, StockKinds
<1>3. ASSUME NEW r \in Return, ReturnStep(r) PROVE CommittedStockCovered'
  <2>1. UNCHANGED stockVars /\ (Made(r) \/ Unmade(r))
    BY <1>0, <1>3, ReturnStepChanges
  <2>2. \A s \in Sale : <<"sale.completed", s>> \in emitted' <=> <<"sale.completed", s>> \in emitted
    BY <2>1 DEF Made, Unmade
  <2>3. Awaited' = Awaited /\ TakenAway' = TakenAway
    BY <2>1, <2>2 DEF Awaited, TakenAway
  <2>4. \A p \in Product : balance'[p] + removed'[p] >= balance[p] + removed[p]
                             /\ balance'[p] \in Int /\ removed'[p] \in Int
    BY <1>0, <2>1
  <2> QED BY <1>1, <2>3, <2>4
<1> QED BY <1>0, <1>2, <1>3, CoveredAfterSaleStep, NextKinds

LEMMA BooksInductive == Spec => []BooksInv
<1>1. Init => IInv /\ Documented /\ StockKept /\ CashKept /\ CommittedStockCovered
  BY BooksInit, IInvInit
<1>2. ASSUME BooksInv, [Next]_vars PROVE BooksInv'
  <2>1. IInv' /\ Documented' /\ StockKept' /\ CashKept' /\ CommittedStockCovered'
    BY <1>2, IInvStep, DocumentedStep, StockKeptStep, CashKeptStep, CoveredStep DEF BooksInv, IInv
  <2> QED BY <2>1 DEF BooksInv
<1> QED BY <1>1, <1>2, PTL DEF Spec, BooksInv

(* CommittedStockCovered holds always: in any interleaving of sales at any *)
(* number of terminals, what completed sales are still to take is there,   *)
(* but for what a keeper or a cancelled return took away meanwhile.        *)
THEOREM CommittedStockStaysCovered == Spec => []CommittedStockCovered
<1>1. BooksInv => CommittedStockCovered
  BY DEF BooksInv
<1> QED BY <1>1, BooksInductive, PTL

(* StockMatchesDocuments holds always: once every stock effect is applied, *)
(* and however often it was retried and in whatever order, each balance is *)
(* what the sales and returns that still stand make of it.                 *)
THEOREM StockStaysMatched == Spec => []StockMatchesDocuments
<1>1. ASSUME BooksInv, \A e \in emitted : <<e, "stock">> \in applied, NEW p \in Product
      PROVE  balance[p] = Opening[p] + added[p] - removed[p]
               - SumFunctionOnSet(Sold(p), {s \in Sale : sale[s].status = "COMPLETED"})
               + SumFunctionOnSet(Back(p), {r \in Return : ret[r].status = "COMPLETED"})
  <2>0. TypeOK /\ Documented /\ Sold(p) \in [Sale -> Int] /\ Back(p) \in [Return -> Int]
    BY <1>1, RowsAreFunctions DEF BooksInv, IInv
  <2>1. Moved = emitted
    <3>1. \A e \in emitted : e \in Event /\ stockRows[e] = 1
      BY <1>1, <2>0 DEF BooksInv, IInv, Marked, Finished, TypeOK
    <3>2. \A e \in Event : stockRows[e] = 1 => e \in emitted
      BY <1>1 DEF BooksInv, IInv, Written
    <3> QED BY <3>1, <3>2 DEF Moved
  <2>2. Takings(Sold(p), Back(p), emitted) =
          SumFunctionOnSet(Sold(p), SalesIn(emitted, "sale.completed") \ SalesIn(emitted, "sale.cancelled"))
            - SumFunctionOnSet(Back(p), ReturnsIn(emitted, "return.completed")
                                          \ ReturnsIn(emitted, "return.cancelled"))
    BY <2>0, TakingsNet DEF Documented
  <2>3. SalesIn(emitted, "sale.completed") \ SalesIn(emitted, "sale.cancelled") =
          {s \in Sale : sale[s].status = "COMPLETED"}
    BY <2>0 DEF SalesIn, Documented
  <2>4. ReturnsIn(emitted, "return.completed") \ ReturnsIn(emitted, "return.cancelled") =
          {r \in Return : ret[r].status = "COMPLETED"}
    BY <2>0 DEF ReturnsIn, Documented
  <2>5. balance[p] = Opening[p] + added[p] - removed[p] - Takings(Sold(p), Back(p), emitted)
    BY <1>1, <2>1 DEF BooksInv, StockKept
  <2>6. /\ SumFunctionOnSet(Sold(p), {s \in Sale : sale[s].status = "COMPLETED"}) \in Int
        /\ SumFunctionOnSet(Back(p), {r \in Return : ret[r].status = "COMPLETED"}) \in Int
        /\ Opening[p] \in Int /\ added[p] \in Int /\ removed[p] \in Int
    <3>1. /\ IsFiniteSet({s \in Sale : sale[s].status = "COMPLETED"})
          /\ IsFiniteSet({r \in Return : ret[r].status = "COMPLETED"})
      BY FS_Subset, PointOfSaleAssumption
    <3>2. /\ \A s \in {s \in Sale : sale[s].status = "COMPLETED"} : Sold(p)[s] \in Int
          /\ \A r \in {r \in Return : ret[r].status = "COMPLETED"} : Back(p)[r] \in Int
      BY <2>0
    <3>3. Opening[p] \in Int /\ added[p] \in Int /\ removed[p] \in Int
      BY <2>0, PointOfSaleAssumption DEF TypeOK
    <3> QED BY <3>1, <3>2, <3>3, SumIsInt
  <2>7. Takings(Sold(p), Back(p), emitted) =
          SumFunctionOnSet(Sold(p), {s \in Sale : sale[s].status = "COMPLETED"})
            - SumFunctionOnSet(Back(p), {r \in Return : ret[r].status = "COMPLETED"})
    BY <2>2, <2>3, <2>4
  <2> QED BY <2>5, <2>6, <2>7
<1>2. BooksInv => StockMatchesDocuments
  BY <1>1 DEF StockMatchesDocuments
<1> QED BY <1>2, BooksInductive, PTL

(* CashMatchesDocuments holds always: once the cash effects of its events  *)
(* are applied, a session holds the payments and refunds of the documents  *)
(* that still stand, all of them and no others.                            *)
THEOREM CashStaysMatched == Spec => []CashMatchesDocuments
<1>1. ASSUME BooksInv, NEW x \in Session,
             \A e \in emitted : SessionOf(e) = x => <<e, "cash">> \in applied
      PROVE  ledger[x] = float[x]
               + SumFunctionOnSet(Paid, {s \in Sale : sale[s].status = "COMPLETED" /\ sale[s].session = x})
               - SumFunctionOnSet(Refunded, {r \in Return : ret[r].status = "COMPLETED" /\ ret[r].session = x})
  <2>0. TypeOK /\ Documented /\ Paid \in [Sale -> Int] /\ Refunded \in [Return -> Int]
    BY <1>1, RowsAreFunctions DEF BooksInv, IInv
  <2> DEFINE W == Posted(x)
  <2>1. \A e \in Event : e \in W <=> e \in emitted /\ SessionOf(e) = x
    <3>1. ASSUME NEW e \in emitted, SessionOf(e) = x PROVE e \in Event /\ posted[<<x, e>>] = 1
      <4>1. e \in Event /\ <<e, "cash">> \in Finished
        BY <1>1, <2>0, <3>1 DEF Finished, TypeOK
      <4>2. posted[<<SessionOf(e), e>>] = 1
        BY <1>1, <4>1 DEF BooksInv, IInv, Marked
      <4> QED BY <3>1, <4>1, <4>2
    <3>2. \A e \in Event : posted[<<x, e>>] = 1 => e \in emitted /\ SessionOf(e) = x
      BY <1>1 DEF BooksInv, IInv, Written
    <3> QED BY <3>1, <3>2 DEF Posted
  <2>2. /\ \A s \in Sale : /\ SessionOf(<<"sale.completed", s>>) = sale[s].session
                           /\ SessionOf(<<"sale.cancelled", s>>) = sale[s].session
        /\ \A r \in Return : /\ SessionOf(<<"return.completed", r>>) = ret[r].session
                             /\ SessionOf(<<"return.cancelled", r>>) = ret[r].session
    BY DEF SessionOf, Document, OfSale
  <2> HIDE DEF W
  <2>3. /\ \A s \in Sale :
             /\ <<"sale.completed", s>> \in W <=>
                  <<"sale.completed", s>> \in emitted /\ sale[s].session = x
             /\ <<"sale.cancelled", s>> \in W <=>
                  <<"sale.cancelled", s>> \in emitted /\ sale[s].session = x
        /\ \A r \in Return :
             /\ <<"return.completed", r>> \in W <=>
                  <<"return.completed", r>> \in emitted /\ ret[r].session = x
             /\ <<"return.cancelled", r>> \in W <=>
                  <<"return.cancelled", r>> \in emitted /\ ret[r].session = x
    BY <2>1, <2>2, EventsOfRows
  <2>4. Takings(Paid, Refunded, W) =
          SumFunctionOnSet(Paid, SalesIn(W, "sale.completed") \ SalesIn(W, "sale.cancelled"))
            - SumFunctionOnSet(Refunded, ReturnsIn(W, "return.completed") \ ReturnsIn(W, "return.cancelled"))
    BY <2>0, <2>3, TakingsNet DEF Documented
  <2>5. SalesIn(W, "sale.completed") \ SalesIn(W, "sale.cancelled") =
          {s \in Sale : sale[s].status = "COMPLETED" /\ sale[s].session = x}
    BY <2>0, <2>3 DEF SalesIn, Documented
  <2>6. ReturnsIn(W, "return.completed") \ ReturnsIn(W, "return.cancelled") =
          {r \in Return : ret[r].status = "COMPLETED" /\ ret[r].session = x}
    BY <2>0, <2>3 DEF ReturnsIn, Documented
  <2>7. ledger[x] = float[x] + Takings(Paid, Refunded, W)
    BY <1>1 DEF BooksInv, CashKept, W
  <2>8. /\ SumFunctionOnSet(Paid, {s \in Sale : sale[s].status = "COMPLETED" /\ sale[s].session = x}) \in Int
        /\ SumFunctionOnSet(Refunded, {r \in Return : ret[r].status = "COMPLETED" /\ ret[r].session = x}) \in Int
        /\ float[x] \in Int
    <3>1. /\ IsFiniteSet({s \in Sale : sale[s].status = "COMPLETED" /\ sale[s].session = x})
          /\ IsFiniteSet({r \in Return : ret[r].status = "COMPLETED" /\ ret[r].session = x})
      BY FS_Subset, PointOfSaleAssumption
    <3>2. /\ \A s \in Sale : Paid[s] \in Int
          /\ \A r \in Return : Refunded[r] \in Int
      BY <2>0
    <3>3. float[x] \in Int
      BY <2>0 DEF TypeOK
    <3> QED BY <3>1, <3>2, <3>3, SumIsInt
  <2> QED BY <2>4, <2>5, <2>6, <2>7, <2>8
<1>2. BooksInv => CashMatchesDocuments
  BY <1>1 DEF CashMatchesDocuments
<1> QED BY <1>2, BooksInductive, PTL

=============================================================================
