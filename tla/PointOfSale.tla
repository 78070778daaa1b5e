----------------------------- MODULE PointOfSale -----------------------------
(***************************************************************************)
(* Sales, returns, stock and cash together.  A sale or a return commits    *)
(* its own rows and one event; what it does to the stock and to the cash   *)
(* is done later, by the two effects of that event, in any order with      *)
(* those of other events: a failing event is overtaken, and events of the  *)
(* same millisecond come in the order of random ids.  The dispatcher runs  *)
(* one handler at a time (EventDispatcher has its detail); the terminals   *)
(* go on while it waits.  Money is counted in units of one piece of        *)
(* goods, and discounts are left to the pricing rules.                     *)
(***************************************************************************)
EXTENDS Integers, FiniteSets, FiniteSetsExt

CONSTANTS
  Product, Terminal, Session,
  Sale, Return,            \* the rows sales and return_transactions may hold
  Opening,                 \* Opening[p] : the stock there is at first
  MaxQuantity,             \* bound: pieces of one product in a sale
  Tender,                  \* <<cash, other>> : the amounts of a payment or a refund
  Float,                   \* amounts of an opening, a supply or a withdrawal
  MaxManual, MaxAdjustments, MaxCrashes,
  NoTerminal, NoSession, NoSale, NoHandler

VARIABLES
  sale,                                              \* sales with their items
  ret,                                               \* returns with theirs
  balance, stockRows, added, removed, adjustments,   \* Inventory
  status, holder, posted, ledger, float, expected, manual,  \* CashSessions
  emitted, dispatched,                               \* domain_events
  applied,                                           \* domain_event_effects
  inFlight,    \* the <<event, effect>> whose handler returned, not yet marked
  crashes

documents == <<sale, ret>>
stockVars == <<balance, stockRows, added, removed, adjustments>>
cashVars == <<status, holder, posted, ledger, float, expected, manual>>
delivery == <<emitted, dispatched, applied, inFlight, crashes>>

Event == ({"sale.completed", "sale.cancelled"} \X Sale)
           \union ({"return.completed", "return.cancelled"} \X Return)
Effect == {"stock", "cash"}

Stock == INSTANCE Inventory WITH Entry <- Event
Cash == INSTANCE CashSessions WITH Entry <- Event

vars == <<documents, stockVars, cashVars, delivery>>

Items == [Product -> 0..MaxQuantity]
NoItems == [p \in Product |-> 0]
Pieces(items) == SumFunctionOnSet(items, Product)

NewSale == [status |-> "NONE", terminal |-> NoTerminal, items |-> NoItems,
            session |-> NoSession, cash |-> 0, other |-> 0]
NewReturn == [status |-> "NONE", sale |-> NoSale, terminal |-> NoTerminal,
              items |-> NoItems, session |-> NoSession, cash |-> 0]

ASSUME PointOfSaleAssumption ==
  /\ MaxQuantity \in Nat /\ Tender \subseteq Nat \X Nat
  /\ MaxManual \in Nat /\ MaxAdjustments \in Nat /\ MaxCrashes \in Nat
  /\ Opening \in [Product -> Nat]
  /\ Float \subseteq Nat
  /\ NoTerminal \notin Terminal /\ NoSession \notin Session /\ NoSale \notin Sale
  /\ NoHandler \notin Event \X Effect
  /\ IsFiniteSet(Sale) /\ IsFiniteSet(Return)

Init ==
  /\ sale = [s \in Sale |-> NewSale]
  /\ ret = [r \in Return |-> NewReturn]
  /\ Stock!InventoryInit(Opening)
  /\ Cash!CashInit
  /\ emitted = {} /\ dispatched = {} /\ applied = {}
  /\ inFlight = NoHandler
  /\ crashes = 0

-----------------------------------------------------------------------------
(***************************************************************************)
(* The payload of an event.  The rows it is made from do not change once   *)
(* the sale or the return is complete, so it is read from them.            *)
(***************************************************************************)
OfSale(e) == e[1] \in {"sale.completed", "sale.cancelled"}
Document(e) == IF OfSale(e) THEN sale[e[2]] ELSE ret[e[2]]
SessionOf(e) == Document(e).session
CashOf(e) ==
  IF e[1] \in {"sale.completed", "return.cancelled"}
  THEN Document(e).cash ELSE -Document(e).cash

Emit(e) ==
  /\ emitted' = emitted \union {e}
  /\ UNCHANGED <<dispatched, applied, inFlight, crashes>>

\* Of each sale and each return: its pieces of p, its cash.
Sold(p) == [s \in Sale |-> sale[s].items[p]]
Back(p) == [r \in Return |-> ret[r].items[p]]
Paid == [s \in Sale |-> sale[s].cash]
Refunded == [r \in Return |-> ret[r].cash]

\* Pieces of p sold by events whose stock effect is not recorded as applied.
Committed(p) ==
  SumFunctionOnSet(Sold(p),
    {s \in Sale : <<"sale.completed", s>> \in emitted
                    /\ <<<<"sale.completed", s>>, "stock">> \notin applied})

Available(p) == balance[p] - Committed(p)

-----------------------------------------------------------------------------
OpenSale(s, t) ==
  /\ sale[s].status = "NONE"
  /\ sale' = [sale EXCEPT ![s].status = "OPEN", ![s].terminal = t]
  /\ UNCHANGED <<ret, stockVars, cashVars, delivery>>

\* addItem, updateItemQuantity and removeItem, by the quantity they leave.
ChangeItem(s, p, quantity) ==
  /\ sale[s].status = "OPEN"
  /\ sale' = [sale EXCEPT ![s].items[p] = quantity]
  /\ UNCHANGED <<ret, stockVars, cashVars, delivery>>

SuspendSale(s) ==
  /\ sale[s].status = "OPEN"
  /\ sale' = [sale EXCEPT ![s].status = "SUSPENDED"]
  /\ UNCHANGED <<ret, stockVars, cashVars, delivery>>

ResumeSale(s) ==
  /\ sale[s].status = "SUSPENDED"
  /\ sale' = [sale EXCEPT ![s].status = "OPEN"]
  /\ UNCHANGED <<ret, stockVars, cashVars, delivery>>

\* What is given back of the cash tendered in a sale: change_cents.
Change(s) == sale[s].cash + sale[s].other - Pieces(sale[s].items)

\* resolvePayment: nothing is missing, and only cash exceeds what is due.
Pays(pay, total) == pay[2] <= total /\ total <= pay[1] + pay[2]

\* Mutant: the open events of other sales are not counted.
InStock(s) == \A p \in Product : sale[s].items[p] <= balance[p]

\* The products of s are there, those of pending sales set aside.
IsAvailable(s) ==
  \A p \in Product : sale[s].items[p] > 0 => sale[s].items[p] <= Available(p)

\* Mutant: any open session will do.
CompleteInAnySession(s, x, pay) ==
  /\ sale[s].status = "OPEN"
  /\ sale[s].items # NoItems
  /\ IsAvailable(s)
  /\ status[x] = "OPEN"
  /\ Pays(pay, Pieces(sale[s].items))
  /\ sale' = [sale EXCEPT ![s].status = "COMPLETED", ![s].session = x,
                          ![s].cash = pay[1], ![s].other = pay[2]]
  /\ Emit(<<"sale.completed", s>>)
  /\ UNCHANGED <<ret, stockVars, cashVars>>

CompleteSale(s, x, pay) ==
  /\ sale[s].status = "OPEN"
  /\ sale[s].items # NoItems
  /\ IsAvailable(s)
  /\ Cash!IsOpenOn(x, sale[s].terminal)
  /\ Pays(pay, Pieces(sale[s].items))
  /\ sale' = [sale EXCEPT ![s].status = "COMPLETED", ![s].session = x,
                          ![s].cash = pay[1], ![s].other = pay[2]]
  /\ Emit(<<"sale.completed", s>>)
  /\ UNCHANGED <<ret, stockVars, cashVars>>

\* cancelSale before completion: sale.voided moves neither stock nor cash.
VoidSale(s) ==
  /\ sale[s].status \in {"OPEN", "SUSPENDED"}
  /\ sale' = [sale EXCEPT ![s].status = "CANCELLED"]
  /\ UNCHANGED <<ret, stockVars, cashVars, delivery>>

CancelSale(s) ==
  /\ sale[s].status = "COMPLETED"
  /\ sale' = [sale EXCEPT ![s].status = "CANCELLED"]
  /\ Emit(<<"sale.cancelled", s>>)
  /\ UNCHANGED <<ret, stockVars, cashVars>>

-----------------------------------------------------------------------------
ReturnsOf(s) == {r \in Return : ret[r].sale = s /\ ret[r].status = "COMPLETED"}
Returned(s, p) == SumFunctionOnSet(Back(p), ReturnsOf(s))

Returnable(s, items) ==
  \A p \in Product : items[p] <= sale[s].items[p] - Returned(s, p)

CreateReturn(r, s, t, x, items, refund) ==
  /\ ret[r].status = "NONE"
  /\ sale[s].status = "COMPLETED"
  /\ Cash!IsOpenOn(x, t)
  /\ items # NoItems
  /\ Returnable(s, items)
  /\ refund[1] + refund[2] = Pieces(items)
  /\ ret' = [ret EXCEPT ![r] = [status |-> "COMPLETED", sale |-> s, terminal |-> t,
                                items |-> items, session |-> x, cash |-> refund[1]]]
  /\ Emit(<<"return.completed", r>>)
  /\ UNCHANGED <<sale, stockVars, cashVars>>

CancelReturn(r) ==
  /\ ret[r].status = "COMPLETED"
  /\ ret' = [ret EXCEPT ![r].status = "CANCELLED"]
  /\ Emit(<<"return.cancelled", r>>)
  /\ UNCHANGED <<sale, stockVars, cashVars>>

-----------------------------------------------------------------------------
\* The handler of an effect may run: its event is pending, nothing is on the bus.
MayRun(e, f) ==
  /\ inFlight = NoHandler
  /\ e \in emitted \ dispatched
  /\ <<e, f>> \notin applied

Returning(e, f) ==
  /\ inFlight' = <<e, f>>
  /\ UNCHANGED <<documents, emitted, dispatched, applied, crashes>>

ApplyStock(e) ==
  /\ MayRun(e, "stock")
  /\ \/ e[1] = "sale.completed" /\ Stock!ApplySaleItems(e, Document(e).items, "sale")
     \/ e[1] = "sale.cancelled" /\ Stock!ApplySaleItems(e, Document(e).items, "cancel")
     \/ e[1] = "return.completed" /\ Stock!ApplyReturnItems(e, Document(e).items, "return")
     \/ e[1] = "return.cancelled" /\ Stock!ApplyReturnItems(e, Document(e).items, "cancel")
  /\ Returning(e, "stock")
  /\ UNCHANGED cashVars

\* Mutant: the movement goes to the session now open on the terminal.
EffectSessionNow(e, x) == Cash!IsOpenOn(x, Document(e).terminal)

\* Mutant: only an open session takes movements.
OpenEffectSession(e, x) == x = SessionOf(e) /\ EffectSessionNow(e, x)

\* resolveEffectSession: the session of the event, if it is of its terminal.
EffectSession(e, x) ==
  x = SessionOf(e) /\ status[x] # "NONE" /\ holder[x] = Document(e).terminal

ApplyCash(e, x) ==
  /\ MayRun(e, "cash")
  /\ EffectSession(e, x)
  /\ Cash!Record(x, e, CashOf(e))
  /\ Returning(e, "cash")
  /\ UNCHANGED stockVars

MarkApplied ==
  /\ inFlight # NoHandler
  /\ applied' = applied \union {inFlight}
  /\ inFlight' = NoHandler
  /\ UNCHANGED <<documents, stockVars, cashVars, emitted, dispatched,
                 crashes>>

\* Mutant: one effect is enough.
DispatchEarly(e) ==
  /\ inFlight = NoHandler
  /\ e \in emitted \ dispatched
  /\ \E f \in Effect : <<e, f>> \in applied
  /\ dispatched' = dispatched \union {e}
  /\ UNCHANGED <<documents, stockVars, cashVars, emitted, applied,
                 inFlight, crashes>>

Dispatch(e) ==
  /\ inFlight = NoHandler
  /\ e \in emitted \ dispatched
  /\ \A f \in Effect : <<e, f>> \in applied
  /\ dispatched' = dispatched \union {e}
  /\ UNCHANGED <<documents, stockVars, cashVars, emitted, applied,
                 inFlight, crashes>>

\* The process stops before the effect is marked, or half way through the cash.
Crash ==
  /\ inFlight # NoHandler
  /\ crashes < MaxCrashes /\ crashes' = crashes + 1
  /\ inFlight' = NoHandler
  /\ UNCHANGED <<documents, stockVars, cashVars, emitted, dispatched,
                 applied>>

CrashInCash(e, x) ==
  /\ MayRun(e, "cash")
  /\ crashes < MaxCrashes /\ crashes' = crashes + 1
  /\ EffectSession(e, x)
  /\ Cash!RecordHalf(x, e, CashOf(e))
  /\ UNCHANGED <<documents, stockVars, emitted, dispatched, applied, inFlight>>

-----------------------------------------------------------------------------
SaleStep(s) ==
  \/ \E t \in Terminal : OpenSale(s, t)
  \/ \E p \in Product, quantity \in 0..MaxQuantity : ChangeItem(s, p, quantity)
  \/ SuspendSale(s) \/ ResumeSale(s)
  \/ \E x \in Session, pay \in Tender : CompleteSale(s, x, pay)
  \/ VoidSale(s) \/ CancelSale(s)

ReturnStep(r) ==
  \/ \E s \in Sale, t \in Terminal, x \in Session, items \in Items,
        refund \in Tender : CreateReturn(r, s, t, x, items, refund)
  \/ CancelReturn(r)

CashStep(x) ==
  /\ \/ \E t \in Terminal, initial \in Float : Cash!OpenSession(x, t, initial)
     \/ \E amount \in Float \ {0} : Cash!AddSupply(x, amount) \/ Cash!Withdraw(x, amount)
     \/ Cash!CloseSession(x)
  /\ UNCHANGED <<documents, stockVars, delivery>>

StockStep ==
  /\ \E p \in Product, delta \in {-1, 1} : Stock!Adjust(p, delta)
  /\ UNCHANGED <<documents, cashVars, delivery>>

DeliveryStep ==
  \/ \E e \in Event :
       \/ ApplyStock(e)
       \/ \E x \in Session : ApplyCash(e, x)
       \/ Dispatch(e)
  \/ MarkApplied

CrashStep == Crash \/ \E e \in Event, x \in Session : CrashInCash(e, x)

Next ==
  \/ \E s \in Sale : SaleStep(s)
  \/ \E r \in Return : ReturnStep(r)
  \/ \E x \in Session : CashStep(x)
  \/ StockStep
  \/ DeliveryStep
  \/ CrashStep

Spec == Init /\ [][Next]_vars

(***************************************************************************)
(* The dispatcher tries every pending event when a mutating request ends   *)
(* (EventDispatcher), and one that fails does not keep it from the others. *)
(***************************************************************************)
FairSpec == Spec /\ WF_vars(DeliveryStep)

-----------------------------------------------------------------------------
SaleRow == [status : {"NONE", "OPEN", "SUSPENDED", "COMPLETED", "CANCELLED"},
            terminal : Terminal \union {NoTerminal}, items : Items,
            session : Session \union {NoSession}, cash : Nat, other : Nat]
ReturnRow == [status : {"NONE", "COMPLETED", "CANCELLED"},
              sale : Sale \union {NoSale}, terminal : Terminal \union {NoTerminal},
              items : Items, session : Session \union {NoSession}, cash : Nat]

(* Type invariant; no balance is negative, and no event has its movements  *)
(* written a second time.                                                  *)
TypeOK ==
  /\ sale \in [Sale -> SaleRow] /\ ret \in [Return -> ReturnRow]
  /\ balance \in [Product -> Nat]
  /\ added \in [Product -> Nat] /\ removed \in [Product -> Nat]
  /\ stockRows \in [Event -> {0, 1}]
  /\ status \in [Session -> {"NONE", "OPEN", "CLOSED"}]
  /\ holder \in [Session -> Terminal \union {NoTerminal}]
  /\ posted \in [Session \X Event -> {0, 1}]
  /\ ledger \in [Session -> Int] /\ float \in [Session -> Int]
  /\ expected \in [Session -> Int]
  /\ adjustments \in Nat /\ manual \in Nat /\ crashes \in Nat
  /\ emitted \subseteq Event /\ dispatched \subseteq emitted
  /\ applied \subseteq Event \X Effect
  /\ inFlight \in (Event \X Effect) \union {NoHandler}

(* README.md:29: a movement belongs to the session the sale or the return  *)
(* was made in. resolveEffectSession never refuses that session, so that   *)
(* no cash effect is stuck: it exists and is of the terminal of the event. *)
SessionsFitEvents ==
  \A e \in emitted : \E x \in Session : EffectSession(e, x)

(* The stock effect of a pending sale can be refused for want of stock     *)
(* only if pieces went out by a manual movement or a cancelled return: the *)
(* check of completeSale sets aside what pending sales will take.          *)
CommittedStockCovered ==
  \A p \in Product :
    SumFunctionOnSet(Sold(p),
        {s \in Sale : <<"sale.completed", s>> \in emitted
                        /\ stockRows[<<"sale.completed", s>>] = 0})
      <= balance[p] + removed[p]
           + SumFunctionOnSet(Back(p),
               {r \in Return : stockRows[<<"return.cancelled", r>>] = 1})

(* Once the stock effect of every event is recorded as applied, the        *)
(* balances follow from the documents: what is sold and not cancelled is   *)
(* out, what is returned and not cancelled is back, whatever was retried.  *)
StockMatchesDocuments ==
  (\A e \in emitted : <<e, "stock">> \in applied) =>
    \A p \in Product :
      balance[p] = Opening[p] + added[p] - removed[p]
        - SumFunctionOnSet(Sold(p),
            {s \in Sale : sale[s].status = "COMPLETED"})
        + SumFunctionOnSet(Back(p),
            {r \in Return : ret[r].status = "COMPLETED"})

(* Once the cash effects of the events of a session are applied, its       *)
(* ledger holds the payments of the sales completed in it and the refunds  *)
(* of the returns made in it, and nothing of any other session, though the *)
(* effects may have come after it was closed and another was opened.       *)
CashMatchesDocuments ==
  \A x \in Session :
    (\A e \in emitted : SessionOf(e) = x => <<e, "cash">> \in applied) =>
      ledger[x] = float[x]
        + SumFunctionOnSet(Paid,
            {s \in Sale : sale[s].status = "COMPLETED" /\ sale[s].session = x})
        - SumFunctionOnSet(Refunded,
            {r \in Return : ret[r].status = "COMPLETED" /\ ret[r].session = x})

(* The expectation of a closed session is that of its movements, except    *)
(* while an effect that wrote some is still to be run again after a crash. *)
ClosedExpectationIsCurrent ==
  \A x \in Session :
    status[x] = "CLOSED"
      /\ (\A e \in Event : posted[<<x, e>>] = 1 => <<e, "cash">> \in applied)
    => expected[x] = ledger[x]

(* docs/superpowers/specs/2026-09-09-e13-e20-design.md:133, read for the   *)
(* stock: what the returns and the cancellation of a sale bring back never *)
(* exceeds what it took out.                                               *)
RestoredNeverExceedsSold ==
  \A s \in Sale, p \in Product :
    (IF stockRows[<<"sale.cancelled", s>>] = 1 THEN sale[s].items[p] ELSE 0)
      + SumFunctionOnSet(Back(p),
          {r \in ReturnsOf(s) : stockRows[<<"return.completed", r>>] = 1})
    <= sale[s].items[p]

(* docs/superpowers/specs/2026-09-09-pdv-core-e02-e06-design.md:301-312:   *)
(* the change is kept in the sale and in the cash, and the closing records *)
(* the cash to be expected: of a sale, what was received less the change.  *)
ExpectedIsInTheDrawer ==
  \A x \in Session :
    status[x] = "CLOSED" /\ (\A e \in emitted : e \in dispatched) =>
      expected[x] = float[x]
        + SumFunctionOnSet([s \in Sale |-> sale[s].cash - Change(s)],
            {s \in Sale : sale[s].status = "COMPLETED" /\ sale[s].session = x})
        - SumFunctionOnSet(Refunded,
            {r \in Return : ret[r].status = "COMPLETED" /\ ret[r].session = x})

(* The cash effect of every event is recorded in the end.                  *)
CashSettles ==
  \A e \in Event : (e \in emitted) ~> (<<e, "cash">> \in applied)

(* Every event is dispatched in the end, unless stock was taken out behind *)
(* the back of the pending sales.                                          *)
StockTaken ==
  \/ \E p \in Product : removed[p] > 0
  \/ \E r \in Return : ret[r].status = "CANCELLED"

EventsSettle == \A e \in Event : (e \in emitted) ~> (e \in dispatched \/ StockTaken)

\* How often an effect changed the data: the cash in the session of its event.
Performed ==
  [ef \in Event \X Effect |->
     IF ef[2] = "stock" THEN stockRows[ef[1]]
     ELSE IF SessionOf(ef[1]) = NoSession THEN 0
     ELSE posted[<<SessionOf(ef[1]), ef[1]>>]]

(* Sales, returns and their effects implement the promise of the outbox:   *)
(* the stock and the cash movements of an event are made exactly once, the *)
(* cash in the session of the event, before it counts as dispatched.       *)
Delivery == INSTANCE EffectDelivery WITH
  Subscribed <- [e \in Event |-> Effect], performed <- Performed

ImplementsDelivery == Delivery!Spec

=============================================================================
