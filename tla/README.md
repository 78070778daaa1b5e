# A formal model of PDV ArtiSys

PDV ArtiSys is a point-of-sale program that works without the internet: one
server process owns an SQLite database, the terminals of the shop reach it over
the local network, and every operation is a short synchronous transaction of
that process. What makes it hard is what happens *between* transactions. A sale
does not move stock or cash itself; it leaves an event in an outbox, and
handlers carry it out later. Pix, card and tax-office operations wait for a
partner that may answer late, with doubt or never. The process may stop
anywhere.

This directory holds TLA+ modules of that behaviour, TLC configurations that
check them on small instances, and proofs, checked by TLAPS, of what holds for
every instance. File and line numbers refer to `src/`.

```
tlc -workers 2 -config PointOfSale_cash.cfg MCPointOfSale.tla
tlapm PointOfSale_proofs.tla
```

Contents: 1 the system, 2 the modules, 3 the runs, 4 the theorems, 5 where the
code and its documents disagree, 6 what is not modelled, 7 the plan.

## 1. The system

| Component | State it keeps | Operations | Talks to | Hard because |
|---|---|---|---|---|
| Event outbox and dispatcher (`js/core/domain-event-dispatcher.js`, `-bus.js`, `idempotent-domain-effect.js`, `database/outbox-store.js`, `effect-store.js`) | `domain_events`, `domain_event_effects`; in memory the shared promise, `_rerunRequested`, the ids tried | `insert`, `dispatchPending`, `publishAsync`, `markApplied` | every service emits, every effect handler subscribes | requests join a running drain at its awaits; handlers throw; the process stops between a handler and its mark |
| Sales (`js/domains/sales`) | `sales`, `sale_items`, `payments` | open, change item, suspend, resume, complete, cancel | stock (availability), cash session, outbox, payment intents, orders | stock is checked against balances that lag behind completed sales |
| Stock (`js/domains/inventory`) | `inventory_balances`, `inventory_movements` | move, adjust, apply sale, apply return | effects of sale and return events | movements made once although effects are retried; never below zero |
| Cash sessions (`js/domains/cash`) | `cash_sessions`, `cash_movements` | open, supply, withdraw, close, record payments of an event | effects of sale and return events | an effect may come after its session was closed and another opened |
| Returns (`js/domains/returns`) | `return_transactions`, `return_items` | create, cancel | sale, cash session, outbox | several returns of one sale, cancelled again, around its cancellation |
| Approvals of returns (`server/return-authorization-router.js`, `return-approval-store.js`) | sessions and approvals, both in memory | sign in, ask for an approval, return with it | users and their rights, returns, mutation coordinator | an approval is spent before the return is tried; requests are repeated, rights and sales change in between |
| Payment intents (`js/domains/payments`, `pdv-runtime.js`) | `payment_intents` | create, start, reconcile, confirm by hand, cancel, validate a checkout | a Pix or TEF provider; checkout, cancellation and returns of sales | `start` and `reconcile` wait; answers are late, doubtful or missing |
| Sales orders and reservations (`js/domains/orders`, `inventory-logistics`) | `sales_orders`, `inventory_reservations`, `sales_order_fulfillments` | quote, confirm, cancel, prepare checkout, fulfil | sales, the stock effect, availability | one reservation serves several sales whose effects come later |
| Fiscal issuance (`server/acbrlib`) | `acbr_fiscal_documents`, offline queue, cancellations, correction letters; INI and XML files | draft, prepare, issue, consult, issue offline, flush the queue, cancel, correct | a worker process per call; the tax office (SEFAZ); sales | sending twice is an offence, losing an authorization too; workers outlive the server |
| Stock transfers and reservations by hand (`inventory-logistics-service.js`) | `stock_transfers`, `inventory_reservations` | create, dispatch, receive, cancel; reserve, release | stock of two locations | pieces in transit; late effects of sales |
| Procurement (`js/domains/procurement`) | `purchase_orders`, `purchase_receipts` | order, receive in parts, cancel | stock, payables | receipts repeated with their key |
| Prices of a sale (`sales/promotion-sale-service.js`, `commercial-pricing-service.js`, `catalog/kit-combo-service.js`) | lines, totals and `sale_discount_states`; tiers, combos | every change of a sale, each followed by `reprice` | sales; catalog | several commits per operation; a catalog that changes under an open sale |
| Refund arithmetic (`sales/pricing.js`, `return-service.js`, `commission-service.js`) | net of the lines, `commission_ledger` | share out a discount, return, cancel, earn, take back | sales, returns | rounding, in any order of returns |
| Mutation coordinator (`server/lan/mutation-coordinator.js`) | `processed_mutations`, runs in flight | execute | every mutating request | a request repeated after a lost answer |
| Print queue (`js/domains/printing`, `desktop/main.cjs`) | `print_jobs` | queue, process, retry, reprint, record an attempt | a printer; the worker of the desktop; effect of sales | a job is printed while its row changes |
| Backup and restore (`js/core/backup`) | files, `backup_records`, the pending marker | create, prune, ask for a restore, apply at start-up | desktop start-up | a crash or an error between two renames |
| Restaurant tables (`js/domains/restaurant`) | sessions, orders, settlements | open, order, bill, settle in parts, move, merge, pass lines | sales; effects of sales | one session billed through several sales whose effects come later |
| Kitchen (`kitchen-service.js`, delivery, fast food) | routes, tickets, statuses of orders | route, cook, cancel | effects of orders | routed again after a crash, with routes that changed |
| Finance (`js/domains/finance`) | entries, settlements, statement rows, matches, rules | settle, reverse, import, match, transfer, make due entries | bank files | money of the bank used twice; two commits of an occurrence |
| Access control (`js/core/auth`, `setup-account-router.js`) | users, profiles, the owner | set up, create, edit, move, remove | account activation | two setups at once; a shop without administrator |
| Telemetry (`js/core/telemetry`, `cloudflare/telemetry`) | the queue; receipts and counts of the worker | record, trim, send, take, withdraw | a worker on the internet | batches that overlap or are sent again, a full queue |
| Account activation, catalog, reports, settings, desktop shell | their own tables | calls of one transaction each | — | little between transactions, or input and output only |

Correctness, per component: an event's effects happen exactly once, in the
session and stock they belong to, and every drain ends with what its callers
asked for (dispatcher); completed sales can always be served from stock, and
stock and cash follow from the documents (sales, stock, cash, returns); a charge
is asked for at most once, believed only if approved and never lost (payments);
reservations cover live orders and are given back (orders); a document is sent
once and shown as what SEFAZ decided (fiscal); a piece on a table is billed once
and cooked once (restaurant); a repeated request changes nothing more
(mutations); a start opens the database that was left or the one asked for
(backup); what is paid is what the prices and promotions in use allow
(prices); no paper, cent, piece, due date, administrator or counted failure is
lost or made twice (the other services). The list of hazards, each at its
line with the properties that would catch it, is in `PROJECT.json`.

## 2. The modules

```
EffectDelivery          the promise of the outbox: every effect once, then dispatched
  ^ implemented by        ^ implemented by
EventDispatcher         PointOfSale ── INSTANCE ──> Inventory, CashSessions
PaymentIntents   SalesOrders   FiscalIssuance       (components of their own)
TableSessions ──┐
Kitchen ────────┴─ MCRestaurant      a behaviour is one of the room or of the kitchen
BackupRestore   MutationCoordinator  PrintQueue   Refunds   Warehouse
Finance   Recurrences   AccessControl   Telemetry   SalePricing   ReturnApprovals
   └─ MCServices         a behaviour is one of these eleven
MC<module>              small instances for TLC
<module>_proofs         theorems
SumTheorems             lemmas about sums, used by the proofs
```

**EffectDelivery** is the abstract specification: an event is emitted, each of
its effects is performed once, and only then is it dispatched.

**EventDispatcher** has the drain of `dispatchPending` at the grain of its
awaits: `StartDrain` / `JoinDrain` (a call that makes, or finds, the shared
promise), `List` (`listPending`), `Publish`, one step per handler (`SkipApplied`,
`RunHandler`, `HandlerThrows`), `MarkApplied` or `MarkThrows`, `MarkDispatched`
or `RecordFailure`, `EndBatch`, `LoopTest`, `Resolve`. `pc` is where the promise
is. Requests emit events and join between any two steps. `Crash` keeps the
tables and drops the rest. `WriteOnce` stands for the services, which key the
rows they write by the event. Timestamps may tie; a tie is broken at random, as
by the random ids.

**PointOfSale** composes sales and returns with **Inventory** and
**CashSessions** through the outbox. A document and its event are one commit;
`ApplyStock` and `ApplyCash` are the handlers of `sale.completed`,
`sale.cancelled`, `return.completed` and `return.cancelled`, `inFlight` is the
handler that returned and is not marked yet, `Dispatch` sets `dispatched_at`.
Effects come in any order, because a failing event is overtaken; `Crash` and
`CrashInCash` stop the process before the mark, or between the rows of a
payment and the recalculation of a closed session (`cash-service.js:72`).
Handlers read the rows of their document where the code reads the payload of
the event: the rows do not change after the event. Ledgers keep the signed sum
of the movements instead of the rows.

**PaymentIntents** has one action for the part of `start` and `reconcile` before
the await and one for the part after it (`Start`/`StartAnswered`,
`Reconcile`/`ReconcileAnswered`); counters say how many calls wait. `charge` is
known to the provider alone, changes behind everybody's back (`Settle`) and is
final. An element of `Intent` is an idempotency key. `ConfirmManual` is the
operator's word, so that the properties speak of integrated channels only.

**SalesOrders** has one product at one location, which only separate
independent copies. An order goes to the counter as an open sale
(`PrepareCheckout`) or is served in parts (`FulfillOrder`, which opens, completes
and finishes a sale at once). `HandleSale` is the whole stock effect: it moves
stock, consumes the reservation and is marked; `CrashInHandler` commits a prefix
of the three.

**FiscalIssuance** knows a document by its sale. `at[c]` is the await request
`c` is at; `signing`, `sealing` and `sending` count worker processes by what they
do next. A crash empties `at` and leaves the workers. `sefaz` and `cancelled` are
known to SEFAZ alone; an answer may be lost (`GiveUp`), not false. Only the
packaged desktop runs its workers one at a time (`main.cjs:54`), so any number
may run. A worker that timed out was asked to end and may or may not have sent.
`interrupted` remembers an INI file whose `prepare` was cut before its
transaction: it is never replaced (section 5).

**TableSessions** has lines with so many pieces, billed in one sale
(`CheckoutToSale`) or in parts (`CreateItemSettlement`, each a sale). Sales end
at the counter (`CompleteSale`, `CancelSale`); `FinalizeCompletedSale` and
`ReopenCancelledCheckout` are their effects on the tables and come later, in any
order. A line belongs to its session directly, its order is left to Kitchen.
`tangled` remembers that two ways of billing met on one session, which the code
allows and section 5 describes: what is billed is exact while it is false.

**Kitchen** routes an order to the stations of its products. `RouteOrder` is the
effect of a table order, `CrashInRouteOrder` the same stopped before it is
recorded; deliveries and counter orders are routed when their sale is made.
`ConfigureProductRoute` changes the routes at any time, `late` remembers orders
that got a ticket because of that.

**BackupRestore** has the files of `applyPendingRestore` and `boot`, the step it
is at: each call of the file system may fail (`CleanUp`, `CopyFails`,
`UndoRestore`, `UndoIsCut`, counted by `MaxFaults`) and the process may end
before any (`CrashAtStart`, `CleanUpIsCut`). A database is the last thing written
to it and the backups its `backup_records` lists, as that table is restored with
the rest. `wal` is its write-ahead log while no process has it open: `StopServer`
takes the log into the file, `KillServer` leaves a file that is `Behind` its log.
Whoever opens a file of that name replays the log that lies beside it (`Opened`),
be it of another database, which gives one that is `Mixed`. `CleanUp` removes the
log of the database that is to be replaced; `logKept` remembers that it could not,
and then `InspectInstalled` opens the backup with that log over it.

**MutationCoordinator** keeps the runs in flight apart from the record. The
change is committed by `RunHandler`; `FinishRun` or `FailRun` come later, so that
a dispatch that fails or a process that ends leaves a change nobody recorded.

**PrintQueue** has the worker of the desktop (every 1.2 s, `main.cjs:334`, newest
receipt first), manual attempts reported afterwards, and a printer whose paper
and answer need not agree.

**Refunds** is in cents: `allocateSaleDiscount`, the amount of a return line
(the last return of a line gets what is left), and the commission of both. What a
line was paid with is `Paid`, what its row says is `net`: `ApplyQuantityPricing`
prices lines of the paid sale anew, and returns go by what the row says then.
`rewritten` has the lines this happened to, `dearest` the most each ever said.
**Warehouse** moves pieces of one product between locations, purchases included.
**SalePricing** has the prices of an open sale: the tier of a product, the
promotional combos (`Deal` takes the candidates that save most, as
`resolvePromotions` does), the discount of the cashier, and `Reprice`, which every
operation ends with. Its commits are the change itself, each line, the sale and
the discount state; `Interrupt` and `StopWithin` end the process between any two
of them. The
products, rules and prices may change at any time (`ReviseCatalog`).
**Finance** has entries, settlements, the rows of bank statements and their
matches; **Recurrences** the due dates of a rule, with the two commits of each
occurrence. **AccessControl** has users, profiles, the first setup and the
owner; every active user of an active profile may ask for every operation, which
is more than the code allows. **Telemetry** has the queue, its batches and the
worker that takes them (`Receive`, `TakeEvent`, `CountError`, `Accept`), with the
client waiting or long gone.
**ReturnApprovals** has the sessions of cashiers, their rights, and the approvals
that others type for them. A request is authenticated (`Arrive`), then awaits its
body; with `ReturnApproved` the approval is spent and the return tried in one
step, as the code awaits nothing between the two. The return is recorded later
(`RecordReturn`), or never (`FailReturn`, `EndServer`), and may be asked for again
with the same body. Approvals that expired count as gone: the code refuses both.

**MCServices** and **MCRestaurant** put parts that share no state under one
specification: a behaviour is one of the part it starts with. It is one run
instead of thirteen, nothing is claimed of their interaction.

Invariants are conjunctions of named parts and bounds appear in guards, each
declared with the word *bound*: on faults (`MaxCrashes`, `MaxThrows`,
`MaxFaults`, `MaxRestarts`, `MaxFailures`, `MaxStops`, `MaxCuts`,
`MaxFaultyBinds`, `MaxInterrupts`, `MaxUpsets`), on repetition (`MaxAsking`, `MaxRetries`, `MaxCorrections`,
`MaxManual`, `MaxAdjustments`, `MaxReturns`, `MaxSettlements`, `MaxDecisions`,
`MaxSetups`, `MaxRevisions`, `MaxFlushes`, `MaxWithdrawals`, `MaxPurges`, `MaxChanges`) and on
size (`MaxQuantity`, `MaxTotal`, `MaxBackups`, `MaxWrites`, `MaxJobs`,
`MaxWaiting`, `MaxParts`, `MaxPieces`, `MaxUnits`, `MaxSold`). `BatchSize`, `MaxPending` and `Retention` are
parameters of the code.
Operators marked *Mutant* are not used by any specification: each is a plausible
bug of the definition after it and shows that a property can fail.

## 3. The runs

| Run | States | Instance | Checks | Shows |
|---|---|---|---|---|
| dispatcher_drain | 744 116 | 3 events, 2 effects, one handler that always throws, batch of 2, 2 callers, one transient failure, one crash | `DispatchedIsComplete` `RerunsAreExplained` `OldestFirst` `CleanExitLeavesNothing` `ImplementsDelivery` `DrainTerminates` `EveryEventDispatched` | effects are made once; a body runs again only after a crash; an event is published after all older ones had their turn, in its batch and before it; a clean drain leaves nothing behind; drains end; every event that can be delivered is |
| pos_cash | 1 254 987 | 2 terminals, 2 sessions, a sale and its return, a supply or withdrawal, one crash | `SessionsFitEvents` `CashMatchesDocuments` `StockMatchesDocuments` `ClosedExpectationIsCurrent` `ImplementsDelivery` | cash goes to the session of its document although that one was closed and another opened; stock and cash follow from the documents |
| pos_compete | 107 153 | 2 sales for one piece, one manual movement, one crash, fair delivery | `CommittedStockCovered` `CashSettles` `EventsSettle` | pending sales are covered; effects are recorded in the end |
| payments_safety | 24 443 | 2 attempts on one sale, 2 waiting calls of a kind, one restart | `VerifiedIsPaid` `ChargedOnceAndKept` `TakenWithinTotal` | no charge asked twice, believed without approval, lost, or beyond the total |
| orders_safety | 183 966 | 2 orders, 3 sales, 3 pieces, one crash | `StockCoversPending` `LiveOrderKeepsReservation` `FulfilledMatchesDocuments` | effects never lack stock; live orders keep their reservation; counts follow the fulfilments |
| fiscal_safety | 12 896 | 1 document, 3 requests, 3 letters, 2 restarts | `SentOnceAndHeard` `OfflineQueueAgrees` `CorrectionsInOrder` | one sending each; what SEFAZ decided is shown or can be asked for |
| restaurant | 808 161 | 2 tables, 2 sessions, 2 lines of up to 2 pieces, 3 sales; or an order of 2 products for 2 stations, 2 changes of route, one crash | `BilledWithinOrdered` `ClosedIsBilled` `CheckoutIsLive` `KitchenIsTold` | no piece is billed twice, no session closed with a piece nobody pays, no table waits for a sale that is over, nothing is cooked twice |
| services | 646 170 | one of eleven parts at a time, see `Services.cfg` | `OpensLeftOrAsked` `RetriesAreSafe` `PapersAreExplained` `ReceiptsAreTried` `ReturnsAreExact` `PiecesAreKept` `LedgerIsExplained` `OccurrencesAreExact` `AdministratorIsKept` `EventsAreAccountedFor` `PaidAsPriced` `ApprovalsAreSpent` | what the parts named in section 1 promise, one property each; receipts reach the printer in the end |
| pos_restored, pos_drawer, payments_returns, fiscal_voided | until the violation | the smallest instance each | one property each | violations, section 5 |

**Why the bounds are enough.** Two of each contender are what a race needs: two
callers of a drain, two sales for one piece, two sessions, two attempts, two
orders with a third sale beside them. A batch of two with three events has a
full batch, a rest and an event that is hidden by `LIMIT`. One crash can fall
at every step; the restart faces everything that was pending. Two fiscal
restarts with three requests allow two generations of workers beside live
calls. Two sessions with a line each are the least that can be merged or
pass pieces to each other, three sales the least for a part, another part and a
checkout. Three returns of lines of three, one and two pieces meet every
rounding, a refund before the last one included; rules run through February and
the ends of short months; a queue of two that is offered three events has to
drop one; three users keep an administrator beside two who move each other;
two products of up to three pieces each are the least that two combos can both
want a piece of, with a price by quantity on top. Two sessions, two returns, a
second sale and a single approval are what it takes to use one approval twice, in
the wrong session or for the wrong sale; one upset is a change of rights, a failed dispatch or an end of the
server, at any step.
The theorems of section 4 drop the bounds for most of the properties. Where one
instance would be too large its dimensions are spread: crashes are in pos_cash
and pos_compete, manual movements in pos_compete. Type invariants are proved
where section 4 lists them; what they bound is part of the invariants above.

**Symmetry** is used only in runs of invariants, and for sets whose members are
interchangeable; pos_cash also checks the step property `ImplementsDelivery`,
whose formula treats all sales, returns, sessions and terminals alike and has no
fairness, so that the reduction is sound for it. services has a liveness
property and no symmetry; its two transfers, its two events without a failure, and
its two sessions are interchangeable and taken up in a fixed order instead. Of the
two requests of a return the first is of the sale approvals are given for, with or
without one; the second is of either sale and always brings one. Consent is
withdrawn and receipts are purged in different behaviours. One line of the paid
sale is priced anew, beside at most two of its returns, and a server is killed
before the last of its backups.

**Deadlock.** Rows and crashes are bounded, so a finished shop stops:
`CHECK_DEADLOCK FALSE` everywhere but in dispatcher_drain, where callers can
always ask again.

**Fairness.** dispatcher_drain assumes weak fairness of the steps of a drain,
which is the event loop running a promise that is not waiting for anything
else, and of `StartDrain`: requests that end with a dispatch keep coming.
The latter is an assumption on the shop, not on the code: nothing calls
`dispatchPending` at start-up or on a timer, although
`docs/superpowers/specs/2026-09-09-pdv-core-e02-e06-design.md:381` plans it. It
also needs fewer poisoned events than `BatchSize`: that many would fill every
batch and hide all younger events (`outbox-store.js:37`). pos_compete assumes
weak fairness of `DeliveryStep`, which is what dispatcher_drain shows of the
drain. services assumes `PrintFairness`: the worker looks for a receipt again
and again, as its `setInterval` does (`main.cjs:334`), and a printer that was
asked answers, as its driver does. Receipts are taken newest first, so
`ReceiptsAreTried` holds because receipts stop coming (`MaxJobs`): a shop that
sells faster than it prints may leave an old one waiting.

## 4. The theorems

| Module | Theorems | From |
|---|---|---|
| `EventDispatcher_proofs` | `TypeCorrect`, `DispatchedEventsAreComplete`, `DispatcherImplementsDelivery`, `OldestComesFirst`, `CleanDrainLeavesNothing`, `RerunsStayExplained` | `DispatcherAssumption`: effects are numbers, the batch is not empty |
| `PointOfSale_proofs` | `TypeCorrect`, `EventsKeepTheirSession`, `ClosedSessionsAreCurrent`, `EffectsHappenOnce`, `CommittedStockStaysCovered`, `StockStaysMatched`, `CashStaysMatched` | `PointOfSaleAssumption`: amounts and bounds are naturals, the null values are no rows, sales and returns are finitely many |
| `PaymentIntents_proofs` | `TypeCorrect`, `VerifiedChargesArePaid`, `ApprovedChargesAreKept`, `TakenStaysWithinTotal` | `PaymentAssumption`: as above, finitely many attempts |
| `SalesOrders_proofs` | `TypeCorrect`, `LiveOrdersKeepTheirReservation`, `StockStaysCovered`, `FulfilledStaysDocumented` | `SalesOrdersAssumption`: finitely many orders and sales |
| `FiscalIssuance_proofs` | `TypeCorrect`, `OfficialDecisionsAreKept`, `QueueAgreesWithDocuments`, `CorrectionsAreInOrder` | `FiscalAssumption` |
| `Restaurant_proofs` | `CheckoutStaysLive`, `TablesTypeCorrect`, `BilledStaysWithinOrdered`, `ClosedStaysBilled`; `KitchenTypeCorrect`, `KitchenStaysTold` | `TablesAssumption` (finitely many sales), `KitchenAssumption` |
| `Services_proofs` | `CoordinatorTypeCorrect`, `RetriesStaySafe`; `PrintTypeCorrect`, `PapersStayExplained`; `RestoreTypeCorrect`, `StartsOpenLeftOrAsked` | `CoordinatorAssumption`, `PrintAssumption`, `RestoreAssumption`: bounds are naturals, one backup is kept at least, null values are no rows |
| | `ApprovalTypeCorrect`, `ApprovalsStaySpent`; `AccessTypeCorrect`, `AdministratorStays`; `TelemetryTypeCorrect`, `EventsStayAccountedFor` | `ApprovalAssumption`, `AccessAssumption`, `TelemetryAssumption`: the same |
| | `RecurrenceTypeCorrect`, `OccurrencesStayExact` | `RecurrenceAssumption`: months have 28 to 31 days, a rule falls due on day 1 to 31 every 1 to 12 months |
| | `WarehouseTypeCorrect`, `PiecesStayKept`; `FinanceTypeCorrect`, `LedgerStaysExplained` | `WarehouseAssumption`: places, transfers and receipts are finitely many; `FinanceAssumption`: entries have cents |
| | `PricingTypeCorrect`, `PaidStaysAsPriced`; `RefundsTypeCorrect`, `ReturnsStayExact` | `PricingAssumption`, `RefundsAssumption`: combos have pieces, lines have pieces, prices are naturals, a commission is of 0 to 100 percent |
| `SumTheorems` | lemmas about sums over finite sets, for all of the above | |

Each is `Spec => []Inv` (or a step property, or an implementation) for every
value of the constants, by an inductive invariant. Sets that are said to be finite
are so in any database; no theorem needs them small. Every safety property of the
runs that pass has its theorem.

* **Sums.** `SumFunctionOnSet` is a recursion over the subsets of its set in the
  order of a `CHOOSE`. `SumTheorems` shows that the sums of all subsets exist and
  are unique, then that the order does not matter (`SumRemove`), and what one
  element more, less or changed does (`SumAdd`, `SumChange`, `SumOfUnion`,
  `SumOfSums`). Induction is over the subsets of a finite set, which strict
  inclusion orders well (`StrongSubsetInduction`): a set takes the place of the
  predicate, as no lemma here can have an operator for a parameter.
  `NatSetInduction` does the same for the recursions over a sequence and over the
  lines of a sale.
* **Dispatcher.** An effect marked applied has its rows; the handler about to be
  marked has returned; once the last handler of an event is behind the bus
  without a failure, all its effects are in the data. `MarkDispatched` then
  refines `Dispatch` of `EffectDelivery` and `RunHandler` refines `Perform`, or
  stutters when the rows are there already. A handler that ran to its end and is
  neither recorded nor about to be was cut off (`CutsExplainBodies`, `AboutToMark`):
  each run of its body but one has an interruption of its own.
* **Point of sale.** An event in the outbox fixes the status, terminal and
  session of its document (`Rows`); rows are written for emitted events only, in
  their session (`Written`); a returned handler has written (`Marked`); a closed
  session is current or waits for an effect to be run again (`Current`). The
  session of an event exists and keeps its terminal, so that
  `resolveEffectSession` accepts it. `EffectsHappenOnce` maps `performed` to the
  rows of stock and cash. The books (`BooksInv`) are stated over what was *written*,
  not over what was completed: a balance is the opening less the takings of the
  events whose stock row exists (`StockKept`), a ledger is the float and the takings
  of those whose cash rows do (`CashKept`), and the events of a document say what
  became of it (`Documented`). When everything is dispatched, written and completed
  are the same, which is `StockMatchesDocuments` and `CashMatchesDocuments`; before,
  what is owed to the effects to come is covered (`CommittedStockCovered`).
* **Payments.** `started` says whether the provider was asked, and asks are
  counted by it; a failed attempt was declined; a manual confirmation or a
  cancellation is of an attempt no provider knows (`Consistent`). Hence an
  approved charge cannot be of a failed attempt or a cancelled sale
  (`OfCancelled`), and no charge is asked for twice. Once a sale is paid, no attempt
  of it is left that could still take something, and those approved are within its
  total (`Settled`, in `TakenInv`).
* **Orders.** `LiveOrderKeepsReservation` is not inductive: when the effect of a
  sale consumes its part, what is left must still cover what is missing, so
  `Covered` also counts the sale the reservation is bound to, and `Checkout` says
  that a waiting checkout holds at least what is missing. All of it is for
  `crashes = 0`: an effect run again after a crash consumes twice (section 5). The
  stock covers the sales whose effect is to come because an effect is recorded
  after its movement (`EffectsInOrder`); what an order is served with are the sales
  finished for it (`FinishedInOrder`).
* **Fiscal.** `SentOnce` counts the copy of a document that is to be signed, to
  be sent or sent: at most one, and none before UNKNOWN was committed, which
  `Claim` and `ClaimQueued` do once because they test READY in the same
  transaction. `StillTrue` is what a call learnt before its await and relies on
  after it: the mode of the document, and that all letters before its own are
  confirmed.
* **Mutations.** A run in progress has no record, and who was answered heard the
  record (`RecordIsFinal`); a change that is neither recorded nor in progress was
  cut, so that cuts account for all but one run (`CutsExplain`).
* **Printing.** A job that may still cost paper has had no more than its retries
  and the ends of the desktop explain (`PapersCovered`, `MayCost`).
* **Restore.** While the start is under way the backup that was asked for is
  there (`AskedIsThere`); what is copied, moved in and opened is that backup
  (`CopyIsAsked`), but for a log that the clean-up of the same attempt could not
  remove (`LogIsKnown`), and without a marker nobody has touched what was left, the
  file or its log (`LeftStays`). Every failing call and every cut keeps this, whichever step
  it comes at.
* **Tables.** `CheckoutIsLive` needs that effects follow what their sale has
  become (`EffectsFollowSales`), that a session at the checkout waits for a sale
  no effect of which was seen (`WaitsForLive`), and that no two active sessions
  have one table (`OwnTable`). `BillsInv` adds that a settlement is of lines of its
  session and of no more than they have (`PartsOfTheirSession`, `PartsWithin`), and,
  until bills are tangled, that a checkout bills whole lines that no settlement has
  (`WholeLines`), and all of them (`WholeSessions`).
* **Kitchen.** `Known` says of an order which tickets it may have before and
  after its routing is recorded, so that routing again adds a ticket only when a
  route has changed, and that its status is what its tickets derive.

* **Approvals.** What may be used, and what was used, was given (`SpentWasGiven`);
  spending an approval takes it from what may be used in the same step.
* **Access.** `AdministratorIsKept` with the types is inductive: what takes rights
  away counts the others first (`LeavesOne`).
* **Recurrences.** The pending date is of a month that is asked for
  (`PendingIsAsked`); all dates before it were made, once each, and perhaps it
  (`MadeInOrder`); the count of the rule is late by the occurrence that was cut
  (`CountIsKept`). That the next date is later, in every calendar of months of 28 to
  31 days, is what the proof rests on.
* **Warehouse.** Nothing is received before it is ordered (`ReceivedInOrder`). Stock
  at all places, what is between them and what was delivered change by the same
  pieces in each step.
* **Finance.** No entry is settled beyond its cents and its status is what its
  settlements say (`EntriesAreExplained`); a row of the bank backs one settlement at
  most, and each settlement from the bank is backed by its row
  (`BankMoneyUsedOnce`): both together, with the types, are inductive.
* **Telemetry.** Of the queue, that what leaves it was acknowledged or given up
  (`OutboundInv`); of the cloud, that a failure whose receipt is new is held by one
  worker until it is counted (`HeldOnce`), so that counts and receipts differ only
  by what was purged (`CountsExplained`).
* **Prices.** `IsDeal` is kept by each candidate taken, whatever their order: the
  pieces of the combos of any set of rules were taken from the lines of their
  products. That a candidate takes exactly its size is a lemma about blocks of a
  row of pieces (`BlockIs`). A sale can only be completed by a step that prices and
  writes its state together, so `PaidAsPriced` is inductive with the types.
* **Returns.** The discount that is left before a line is never more than the lines
  from there on cost (`LeftFits`): a part rounded up still leaves no more than the
  other lines can take (`PartFits`, where the rounding matters), so the shares
  telescope to the discount (`SharesFit`). `LineKept` says that only a return of
  pieces gives cents, so that a line whose pieces are all back stays exact when
  another return is cancelled, and that a line no one priced anew says what was
  paid, any other no more than its dearest price. Each reversal is within half a cent of its part of
  the commission (`Reversing`), and their sum within as many halves as there are
  returns that stand (`ReversingAddsUp`).

Only model-checked: liveness (`DrainTerminates`, `EveryEventDispatched`,
`CashSettles`, `EventsSettle`, `ReceiptsAreTried`), which needs ENABLED and
fairness, and the findings of section 5, which are counterexamples.

## 5. Where the code and its documents disagree

Runs that end in a violation:

* **pos_restored** (`sale-service.js:247`). Complete a sale of one piece, return
  the piece, cancel the sale. `cancelSale` does not look at returns: the piece
  comes back twice and the payment is given back in full.
* **pos_drawer** (`cash-service.js:72`). Sell for 1 and be paid with 2 in cash:
  the session expects 2, the drawer holds 1. Change is kept on the sale only.
* **payments_returns** (`payment-intent-service.js:128`). While `start` waits,
  `reconcile` verifies the charge and the checkout consumes it; the doubtful
  answer of `start` then moves CONSUMED to REVIEW, because this branch alone does
  not ask for PENDING. `createReturn` looks for CONSUMED and lets the return of a
  card sale pass.
* **fiscal_voided** (`fiscal-issuance-service.js:386`). `issue` sees a completed
  sale, waits for `adapter.status` and `preflight`, and sends without looking
  again. A sale cancelled meanwhile is sent, which
  `test/fiscal-acbrlib-issuance.test.js:90` says can never be.

Seen while modelling, without a run of their own. What is in a part that is
modelled the model does too, and its properties are stated so as to leave it out,
by an auxiliary flag where one is needed (`tangled`, `late`, `rewritten`,
`logKept`); what is of a part section 6 lists is only told here.

*Sales, orders, stock*

* An order served in two parts before the effect of the first binds its one
  reservation row twice: the first effect then consumes nothing, and the order is
  FULFILLED with an ACTIVE reservation (`inventory-logistics-service.js:44`;
  `docs/superpowers/plans/2026-09-20-enterprise-depth-p0.md:500`).
* `confirmOrder`, reservations by hand and `dispatchTransfer` look at balances
  that still contain what pending completed sales will take
  (`inventory-logistics-service.js:36`, `:60`).
* An order that waits at the counter and is served beside it is sold twice;
  `MIN` hides it in `fulfilled_quantity` (`availability-sale-service.js:18`,
  against `sales-order-service.js:89`). A cancelled order becomes FULFILLED when
  its prepared checkout is paid (`:21`). An edited checkout counts the promised
  quantity.
* A crash after a reservation was consumed and before the effect is marked
  consumes it again (`inventory-effects.js:11`).
* A completed sale keeps its prices only until somebody asks for a discount, a
  suspension or a checkout of it: `promotion-sale-service.js` prices its lines
  anew, and drops the net of those that changed, before the sale is found not to
  be open (`:107`, `:190-193`). A later return uses the new price
  (`return-service.js:95`), against "O valor efetivamente vendido fica
  snapshotted no item"
  (`docs/superpowers/specs/2026-09-10-e40-e54-modular-verticals-design.md:156`),
  and may give back more than was paid. `ReturnsAreExact` excepts lines this
  happened to (`rewritten`).
  `setCustomer` of a suspended sale commits, then fails. A discount cut because
  the subtotal fell stays cut when it rises again. `assertVariantStock` (`:143`)
  does not count completed sales whose effect on the variant is pending.
* An approval is spent before the return is tried (`return-authorization-router.js:165`):
  a return refused for another reason costs it, and a return that was made but whose
  dispatch failed is refused with 403 when it is asked for again.
* `availability-sale-service.js:44` replaces the location of the terminal by
  MAIN. A refund to STORE_CREDIT leaves `credit_used` alone.
* A receipt key used again on another purchase order answers with the receipt of
  the first and drops the goods of the second (`procurement-service.js:66`).
* The commission of a completed sale shares the net among the lines in another
  way than `allocateSaleDiscount`, so that the bases may add up to more than the
  net; `reverseSale` after a return takes the whole commission again. A return
  that gives back nothing is refused alone and accepted beside another line.

*Outbox, requests, printing, backup*

* A dispatch request that joins after the last loop test is not served by that
  drain (`domain-event-dispatcher.js:93`, `:108`); `CleanExitLeavesNothing`
  therefore speaks of requests up to the test.
* Only receipts have a worker (`main.cjs:311-334`): reprints, tickets, pre-bills
  and cash reports stay PENDING for ever. No route calls `cancelJob`.
* An error in the rename of the active database makes the handler of errors
  delete it (`pending-restore.js:59`); the next start recovers, as the marker
  still asks. A backup made after a restore was asked for may prune the one the
  marker names (`backup-service.js:119`), and then the program does not start.
  What is written between the request and the stop is in no copy after the
  restore.

* The log of a killed server is removed before the backup is installed, and an
  error of that is swallowed (`pending-restore.js:39`). If it stays, SQLite replays
  it onto the backup when that is opened to be inspected (`:52`); `integrity_check`
  looks at the structure only, so that pages of two databases may pass.
  `OpensLeftOrAsked` excepts such an attempt (`logKept`). The log is also removed
  before the backup is copied: if the copy fails and so does every later attempt,
  what was in the log alone is gone, and the marker keeps the server from starting
  with what is left.

*Restaurant*

* A settlement made while its session is at the checkout, and a checkout of a
  session with settlements, bill a piece twice, against "Divisão de conta não
  duplica venda nem estoque"
  (`docs/superpowers/specs/2026-09-10-e40-e54-modular-verticals-design.md:736`);
  so does a merge of a session at the checkout, or it closes pieces unbilled. An
  item cancelled during the checkout stays billed. `tangled` marks these meetings.
* With two open settlements the first payment closes the session, and the second
  can no longer be completed. A settlement whose sale is voided holds its items
  for ever.
* `syncOrderStatus` counts cancelled tickets: an order with one ticket READY and
  one cancelled is PREPARING for ever. A route that changes between a crash and
  the repeated effect has a product cooked twice or not at all.
* A delivery that is cancelled by its status, not by `cancel`, keeps its tickets
  and its sale. `cancel` finds its tickets among the oldest 500 of the shop
  (`kitchen-service.js:365-369`): in any shop that ever had more, it keeps those
  that came later.

*Payments, fiscal, finance, access, telemetry*

* `prepare` writes its INI before its transaction with a code it keeps nowhere
  else; stopped in between, the draft can never be prepared again, although the
  comment at `fiscal-issuance-service.js:138` means to preserve the code.
  A rejected document whose answer was lost stays UNKNOWN, as `consult` can only
  learn of authorizations. `acbrlib-worker.py:473` uses `expect_amb`, which is
  not defined in that function, so that the shipped worker answers every sending
  with doubt. A correction letter checked before a cancellation was asked for is
  sent after it (`:622`).
* A reversed settlement of a bank match leaves the row MATCHED for ever; a match
  of a part of the money marks the whole row. A movement without an id in two
  overlapping files becomes two rows (`statement-import.js:19`). The key of a
  rejected match used again to confirm it answers with the rejection. A rule whose
  entry is refused stops `generateDue` for all later rules.
* Without activation, two setups that read their body at the same time both
  create an administrator (`setup-account-router.js:38`); a process that stops
  before the owner is bound leaves the installation without one.
* A telemetry worker that stops between the receipt of a failure and its count
  never counts it, which the design allows; one event it refuses makes the client
  discard the whole batch. Consent withdrawn by a process that stops before the
  queue is cleared keeps rows that are sent after the next consent.

## 6. What is not modelled

* *Across the modelled parts:* customers, store credit and the rights to
  operations other than returns (every actor may do everything). Power loss that undoes a committed
  transaction (WAL with `synchronous=NORMAL`). Events without an effect on stock,
  cash, tables, kitchen or receipts. The fallback of `resolveEffectSession` for
  events of older versions without a session.
* *Payments:* the protocols of the three providers; a provider that lies; the
  reference of PayGo, without which a charge cannot be asked about; the payment
  of a static Pix code after its attempt was cancelled, which the operations
  guide leaves to the operator.
* *Prices:* kits and variants, lines with a configuration, customers; the dates of a
  promotion, which are changes of the catalog like any other.
* *Orders:* several products, suspended sales, manual movements, addresses.
* *Fiscal:* numbers and series, tax profiles, the DANFE and its proof files, the
  disabling of ranges of numbers, the rules of each state.
* *Restaurant:* service requests, parts of equal amount, service charge, prices;
  couriers and fees; bakery, pizzeria, workshop, appointments.
* *Access, activation:* passwords and their recovery, the pairing of terminals,
  and the licences of the account worker: they say who may act, and no data of the
  shop depends on them. The terminal an approval is bound to is that of its session.
* *Finance:* commission payments, weighted costs, categories.
* *Telemetry:* the credential of an installation, the switch of the diagnostics.
* *Backup:* companion directories, checksums; a database on a file system that
  refuses the write-ahead log (`sqlite-database.js:14`); the index of the log.
* `src/qa/runtime` is a vendored copy of another repository
  (`scripts/sync-artisys-qa.mjs`). Catalog, reports, settings and the desktop
  shell are reads, single-row writes, input and output. These and the pages of
  the user interface are most of the lines no module stands for.

## 7. Plan

Done: the outbox and its promise, the sale with stock, cash and returns, payment
intents, orders, fiscal issuance; then backup and restore, repeated requests,
printing, prices and refunds, approvals of returns, the warehouse, finance, access,
telemetry and the restaurant.
Left, in this order:

1. **Implementation** of one promise by more than the dispatcher: an abstract ledger
   that Warehouse, Finance and PointOfSale keep, with the proofs of this section.
2. **SalesOrders with Inventory** as one composition, so that the reservation and
   the movement of one sale meet.
