--------------------------- MODULE EventDispatcher ---------------------------
(***************************************************************************)
(* The outbox table, the DomainEventDispatcher that drains it, the bus     *)
(* that hands an event to its subscribers one after the other, and the     *)
(* wrapper that records an applied effect.  Every await of the code is a   *)
(* boundary between two steps, so that requests and new events fall        *)
(* between them; a crash may fall between any two.  The tables survive it, *)
(* the fields of the dispatcher and the locals of the drain do not.        *)
(***************************************************************************)
EXTENDS Naturals, FiniteSets

CONSTANTS
  Event,             \* the rows domain_events may come to hold
  Effect,            \* effect keys, numbered in the order of registration
  Subscribed,        \* Subscribed[e] : the effects registered for the type of e
  Poison,            \* the <<event, effect>> pairs whose handler always throws
  Caller,            \* the requests that may await a drain at the same time
  BatchSize,         \* the LIMIT of listPending
  MaxThrows,         \* bound: handlers that throw once and work when retried
  MaxInterruptions,  \* bound: crashes and markApplied calls that throw
  NoEvent

ASSUME DispatcherAssumption ==
  /\ Effect \subseteq Nat
  /\ Subscribed \in [Event -> SUBSET Effect]
  /\ Poison \subseteq Event \X Effect
  /\ BatchSize \in Nat \ {0}
  /\ MaxThrows \in Nat
  /\ MaxInterruptions \in Nat
  /\ NoEvent \notin Event

VARIABLES
  emitted, occurredAt, clock,  \* rows of domain_events and their timestamps
  dispatched,                  \* rows with dispatched_at set
  applied,                     \* rows of domain_event_effects
  changes,                     \* changes[<<e, f>>] : rows the handler really wrote
  bodies,                      \* history: handler bodies that ran to their end
  pc,                          \* where the drain is; "idle": _dispatchPromise is null
  attempted, batch,            \* attemptedEventIds, the events still to publish
  batchFailed, drainFailed,    \* result.failed > 0, total.failed > 0
  rerun,                       \* _rerunRequested
  current, todo, eventFailed,  \* the event on the bus, its handlers left, a failure
  waiting,                     \* callers that hold the shared promise
  requested,                   \* history: events pending when one of them asked
  throws, interruptions

tables == <<emitted, occurredAt, clock, dispatched>>
effects == <<applied, changes, bodies>>
loop == <<attempted, batch, batchFailed, drainFailed, rerun>>
onBus == <<current, todo, eventFailed>>
callers == <<waiting, requested>>
faults == <<throws, interruptions>>
vars == <<tables, effects, pc, loop, onBus, callers, faults>>

Pair == Event \X Effect
Pending == emitted \ dispatched

(***************************************************************************)
(* The results listPending may return: the oldest pending rows, at most    *)
(* BatchSize of them.  The random event id breaks a tie of the timestamps. *)
(***************************************************************************)
ShortListings ==        \* mutant: LIMIT one row short
  {listed \in SUBSET Pending :
     /\ Cardinality(listed) <= BatchSize - 1
     /\ listed = Pending \/ Cardinality(listed) = BatchSize - 1
     /\ \A d \in listed, p \in Pending \ listed : occurredAt[d] <= occurredAt[p]}

Listings ==
  {listed \in SUBSET Pending :
     /\ Cardinality(listed) <= BatchSize
     /\ listed = Pending \/ Cardinality(listed) = BatchSize
     /\ \A d \in listed, p \in Pending \ listed : occurredAt[d] <= occurredAt[p]}

DrainInit ==
  /\ attempted = {} /\ batch = {}
  /\ batchFailed = FALSE /\ drainFailed = FALSE /\ rerun = FALSE

Init ==
  /\ emitted = {} /\ dispatched = {} /\ clock = 0
  /\ occurredAt = [e \in Event |-> 0]
  /\ applied = {}
  /\ changes = [p \in Pair |-> 0]
  /\ bodies = [p \in Pair |-> 0]
  /\ pc = "idle"
  /\ DrainInit
  /\ current = NoEvent /\ todo = {} /\ eventFailed = FALSE
  /\ waiting = {} /\ requested = {}
  /\ throws = 0 /\ interruptions = 0

-----------------------------------------------------------------------------
\* A service commits an event, in the same millisecond as the last or later.
Emit(e) ==
  /\ e \notin emitted
  /\ emitted' = emitted \union {e}
  /\ clock' \in {clock, clock + 1}
  /\ occurredAt' = [occurredAt EXCEPT ![e] = clock']
  /\ UNCHANGED <<dispatched, effects, pc, loop, onBus, callers, faults>>

\* dispatchPending() with no drain running.
StartDrain(c) ==
  /\ pc = "idle"
  /\ pc' = "list"
  /\ attempted' = {} /\ batch' = {}
  /\ batchFailed' = FALSE /\ drainFailed' = FALSE /\ rerun' = FALSE
  /\ waiting' = {c}
  /\ requested' = Pending
  /\ UNCHANGED <<tables, effects, onBus, faults>>

\* Mutant: the request shares the promise and asks for nothing.
JoinSilently(c) ==
  /\ pc # "idle"
  /\ c \notin waiting
  /\ waiting' = waiting \union {c}
  /\ requested' = requested \union Pending
  /\ UNCHANGED <<tables, effects, pc, loop, onBus, faults>>

\* dispatchPending() while _dispatchPromise is set: share it, ask for a rerun.
JoinDrain(c) ==
  /\ pc # "idle"
  /\ c \notin waiting
  /\ rerun' = TRUE
  /\ waiting' = waiting \union {c}
  /\ requested' = requested \union Pending
  /\ UNCHANGED <<tables, effects, pc, attempted, batch, batchFailed,
                 drainFailed, onBus, faults>>

\* listPending, less what this drain has attempted already.
List ==
  /\ pc = "list"
  /\ \E listed \in Listings :
       /\ batch' = listed \ attempted
       /\ attempted' = attempted \union listed
  /\ pc' = IF batch' = {} THEN "test" ELSE "event"
  /\ batchFailed' = FALSE
  /\ UNCHANGED <<tables, effects, drainFailed, rerun, onBus, callers, faults>>

\* Mutant: the events of a batch are published in any order.
PublishUnordered(e) ==
  /\ pc = "event"
  /\ e \in batch
  /\ batch' = batch \ {e}
  /\ current' = e
  /\ todo' = Subscribed[e]
  /\ eventFailed' = FALSE
  /\ pc' = "handler"
  /\ UNCHANGED <<tables, effects, attempted, batchFailed, drainFailed, rerun,
                 callers, faults>>

\* publishAsync of the next event of the batch.
Publish(e) ==
  /\ pc = "event"
  /\ e \in batch
  /\ \A d \in batch : occurredAt[e] <= occurredAt[d]
  /\ batch' = batch \ {e}
  /\ current' = e
  /\ todo' = Subscribed[e]
  /\ eventFailed' = FALSE
  /\ pc' = "handler"
  /\ UNCHANGED <<tables, effects, attempted, batchFailed, drainFailed, rerun,
                 callers, faults>>

\* The handlers of an event are awaited in the order of their subscription.
NextHandler(f) == f \in todo /\ \A g \in todo : f <= g

\* hasApplied: the wrapper skips the handler.
SkipApplied(f) ==
  /\ pc = "handler"
  /\ NextHandler(f)
  /\ <<current, f>> \in applied
  /\ todo' = todo \ {f}
  /\ UNCHANGED <<tables, effects, pc, loop, current, eventFailed, callers, faults>>

\* Mutant: the service does not look for the rows of the event.
WriteAgain(p) == changes' = [changes EXCEPT ![p] = @ + 1]

\* The transaction of the service: rows keyed by the event are written once.
WriteOnce(p) ==
  changes' = IF changes[p] = 0 THEN [changes EXCEPT ![p] = 1] ELSE changes

\* Mutant: the wrapper does not ask hasApplied.
RunUnchecked(f) ==
  /\ pc = "handler"
  /\ NextHandler(f)
  /\ <<current, f>> \notin Poison
  /\ WriteOnce(<<current, f>>)
  /\ bodies' = [bodies EXCEPT ![<<current, f>>] = @ + 1]
  /\ pc' = "mark"
  /\ UNCHANGED <<tables, applied, loop, onBus, callers, faults>>

\* handler(event) returns.
RunHandler(f) ==
  /\ pc = "handler"
  /\ NextHandler(f)
  /\ <<current, f>> \notin applied
  /\ <<current, f>> \notin Poison
  /\ WriteOnce(<<current, f>>)
  /\ bodies' = [bodies EXCEPT ![<<current, f>>] = @ + 1]
  /\ pc' = "mark"
  /\ UNCHANGED <<tables, applied, loop, onBus, callers, faults>>

\* handler(event) throws, its transaction rolled back; the others still run.
HandlerThrows(f) ==
  /\ pc = "handler"
  /\ NextHandler(f)
  /\ <<current, f>> \notin applied
  /\ \/ <<current, f>> \in Poison /\ UNCHANGED throws
     \/ throws < MaxThrows /\ throws' = throws + 1
  /\ todo' = todo \ {f}
  /\ eventFailed' = TRUE
  /\ UNCHANGED <<tables, effects, pc, loop, current, callers, interruptions>>

\* markApplied, in a statement of its own after the handler's transaction.
MarkApplied(f) ==
  /\ pc = "mark"
  /\ NextHandler(f)
  /\ applied' = applied \union {<<current, f>>}
  /\ todo' = todo \ {f}
  /\ pc' = "handler"
  /\ UNCHANGED <<tables, changes, bodies, loop, current, eventFailed, callers,
                 faults>>

\* markApplied throws (the database is busy, say): a failure of the handler.
MarkThrows(f) ==
  /\ pc = "mark"
  /\ NextHandler(f)
  /\ interruptions < MaxInterruptions
  /\ interruptions' = interruptions + 1
  /\ todo' = todo \ {f}
  /\ eventFailed' = TRUE
  /\ pc' = "handler"
  /\ UNCHANGED <<tables, effects, loop, current, callers, throws>>

\* Mutant: the failures of the handlers are not looked at.
MarkRegardless ==
  /\ pc = "handler" /\ todo = {}
  /\ dispatched' = dispatched \union {current}
  /\ current' = NoEvent
  /\ pc' = "event"
  /\ UNCHANGED <<emitted, occurredAt, clock, effects, loop, todo, eventFailed,
                 callers, faults>>

\* All handlers done: markDispatched.
MarkDispatched ==
  /\ pc = "handler" /\ todo = {} /\ ~eventFailed
  /\ dispatched' = dispatched \union {current}
  /\ current' = NoEvent
  /\ pc' = "event"
  /\ UNCHANGED <<emitted, occurredAt, clock, effects, loop, todo, eventFailed,
                 callers, faults>>

\* A handler failed: recordFailure, the row stays pending.
RecordFailure ==
  /\ pc = "handler" /\ todo = {} /\ eventFailed
  /\ batchFailed' = TRUE /\ drainFailed' = TRUE
  /\ current' = NoEvent
  /\ pc' = "event"
  /\ UNCHANGED <<tables, effects, attempted, batch, rerun, todo, eventFailed,
                 callers, faults>>

\* The end of a batch: read the next one, unless an event of this one failed.
EndBatch ==
  /\ pc = "event" /\ batch = {}
  /\ pc' = IF batchFailed THEN "test" ELSE "list"
  /\ UNCHANGED <<tables, effects, loop, onBus, callers, faults>>

\* Mutant: _rerunRequested is not reset at the head of the loop.
LoopTestNoReset ==
  /\ pc = "test"
  /\ pc' = IF rerun /\ ~drainFailed THEN "list" ELSE "done"
  /\ UNCHANGED <<tables, effects, loop, onBus, callers, faults>>

\* do ... while (_rerunRequested && total.failed === 0)
LoopTest ==
  /\ pc = "test"
  /\ IF rerun /\ ~drainFailed
     THEN pc' = "list" /\ rerun' = FALSE
     ELSE pc' = "done" /\ UNCHANGED rerun
  /\ UNCHANGED <<tables, effects, attempted, batch, batchFailed, drainFailed,
                 onBus, callers, faults>>

\* The promise settles, its holders go on, finally resets it.
Resolve ==
  /\ pc = "done"
  /\ pc' = "idle"
  /\ waiting' = {} /\ requested' = {}
  /\ UNCHANGED <<tables, effects, loop, onBus, faults>>

\* The process stops anywhere and is started again.
Crash ==
  /\ pc # "idle"
  /\ interruptions < MaxInterruptions
  /\ interruptions' = interruptions + 1
  /\ pc' = "idle"
  /\ attempted' = {} /\ batch' = {}
  /\ batchFailed' = FALSE /\ drainFailed' = FALSE /\ rerun' = FALSE
  /\ current' = NoEvent /\ todo' = {} /\ eventFailed' = FALSE
  /\ waiting' = {} /\ requested' = {}
  /\ UNCHANGED <<tables, effects, throws>>

HandlerStep(f) ==
  \/ SkipApplied(f) \/ RunHandler(f) \/ HandlerThrows(f)
  \/ MarkApplied(f) \/ MarkThrows(f)

DrainStep ==
  \/ List
  \/ \E e \in Event : Publish(e)
  \/ \E f \in Effect : HandlerStep(f)
  \/ MarkDispatched \/ RecordFailure \/ EndBatch \/ LoopTest \/ Resolve

Next ==
  \/ \E e \in Event : Emit(e)
  \/ \E c \in Caller : StartDrain(c) \/ JoinDrain(c)
  \/ DrainStep
  \/ Crash

(***************************************************************************)
(* A drain that has started goes on: its promise chain is run by the event *)
(* loop.  A new one starts only when some request calls dispatchPending;   *)
(* nothing in the process does so by itself, so this is an assumption on   *)
(* the traffic of the terminals.                                           *)
(***************************************************************************)
Fairness ==
  /\ WF_vars(DrainStep)
  /\ WF_vars(\E c \in Caller : StartDrain(c))

Spec == Init /\ [][Next]_vars
FairSpec == Spec /\ Fairness

-----------------------------------------------------------------------------
(* Type invariant of the tables and the drain; no handler's rows are ever  *)
(* written a second time.                                                  *)
TypeOK ==
  /\ emitted \subseteq Event /\ dispatched \subseteq emitted
  /\ occurredAt \in [Event -> Nat] /\ clock \in Nat
  /\ applied \subseteq Pair
  /\ changes \in [Pair -> {0, 1}] /\ bodies \in [Pair -> Nat]
  /\ pc \in {"idle", "list", "event", "handler", "mark", "test", "done"}
  /\ attempted \subseteq Event /\ batch \subseteq Event
  /\ batchFailed \in BOOLEAN /\ drainFailed \in BOOLEAN /\ rerun \in BOOLEAN
  /\ current \in Event \union {NoEvent}
  /\ todo \subseteq Effect
  /\ eventFailed \in BOOLEAN
  /\ waiting \subseteq Caller /\ requested \subseteq Event
  /\ throws \in Nat /\ interruptions \in Nat

(* domain-event-dispatcher.js marks an event only after every subscriber   *)
(* succeeded: a dispatched event has each of its effects in the data,      *)
(* written exactly once, whatever crashed or threw on the way.             *)
DispatchedIsComplete ==
  \A e \in dispatched : \A f \in Subscribed[e] : changes[<<e, f>>] = 1

(* idempotent-domain-effect.js: a handler that ran to its end is entered   *)
(* again only after a crash or a markApplied that threw, however often the *)
(* event is retried because another of its subscribers keeps failing.      *)
RerunsAreExplained == \A p \in Pair : bodies[p] <= 1 + interruptions

(* When an event goes onto the bus, each older one of the outbox has had   *)
(* its turn in this drain: it was listed and waits in the batch no more. A *)
(* failing event is overtaken only after it was tried, neither by an event *)
(* of its own batch nor by one of a later listing.                         *)
OldestFirst ==
  [][ pc = "event" /\ pc' = "handler" =>
        \A d \in Pending :
          occurredAt[d] < occurredAt[current'] => d \in attempted \ batch ]_vars

(* A drain in which nothing failed does not leave its loop before it has   *)
(* tried every event that was pending when one of its callers asked.       *)
CleanExitLeavesNothing ==
  [][ pc = "test" /\ pc' = "done" =>
        drainFailed \/ requested \subseteq attempted \union dispatched ]_vars

(* The do-while loop of _drainPending ends although requests join it.      *)
DrainTerminates == (pc # "idle") ~> (pc = "idle")

(* An event none of whose handlers fails for good is dispatched in the     *)
(* end, past crashes and past events that fail for ever.                   *)
EveryEventDispatched ==
  \A e \in Event :
    (e \in emitted /\ \A f \in Effect : <<e, f>> \notin Poison) ~> (e \in dispatched)

(* The dispatcher implements the abstract promise of the outbox.           *)
Delivery == INSTANCE EffectDelivery WITH performed <- changes

ImplementsDelivery == Delivery!Spec

=============================================================================
