----------------------- MODULE EventDispatcher_proofs -----------------------
(***************************************************************************)
(* Proofs about EventDispatcher for any set of events, subscribers and     *)
(* requests, any batch size and any pattern of failures and crashes: what  *)
(* is dispatched is complete, the dispatcher implements EffectDelivery,    *)
(* older events come first, a clean drain leaves nothing behind, and what  *)
(* runs again was cut off.                                                 *)
(***************************************************************************)
EXTENDS EventDispatcher, FiniteSetTheorems, TLAPS

(***************************************************************************)
(* The inductive invariant of the data: what the bus has in hand is        *)
(* pending, a marked effect is in the data, and so is each handler of the  *)
(* event on the bus that is done and did not fail.                         *)
(***************************************************************************)
OnBus == pc \in {"handler", "mark"}

BusOK ==
  /\ batch \subseteq Pending
  /\ OnBus => /\ current \in Pending
              /\ current \notin batch
              /\ todo \subseteq Subscribed[current]

AppliedIsWritten == \A p \in applied : changes[p] = 1

MarkedNext == pc = "mark" => \A f \in Effect : NextHandler(f) => changes[<<current, f>>] = 1

HandlersDone ==
  OnBus /\ ~eventFailed =>
    \A f \in Subscribed[current] \ todo : changes[<<current, f>>] = 1

DataInv ==
  /\ TypeOK
  /\ BusOK
  /\ AppliedIsWritten
  /\ MarkedNext
  /\ HandlersDone
  /\ DispatchedIsComplete

(***************************************************************************)
(* The inductive invariant of the loop: timestamps follow the clock, what  *)
(* is older than an event of the batch has been tried, and what a drain    *)
(* without failures has tried is dispatched or in hand.                    *)
(***************************************************************************)
LoopInv ==
  /\ attempted \subseteq emitted
  /\ \A e \in emitted : occurredAt[e] <= clock
  /\ \A e \in batch : \A d \in Pending : occurredAt[d] < occurredAt[e] => d \in attempted
  /\ batchFailed => drainFailed
  /\ (pc # "idle" /\ ~drainFailed) =>
        \A e \in attempted : e \in batch \/ e \in dispatched \/ (OnBus /\ e = current)
  /\ pc \in {"list", "test"} => batch = {}
  /\ (pc = "test" /\ ~drainFailed /\ ~rerun) => requested \subseteq attempted \union dispatched
  /\ requested \subseteq emitted


LEMMA DataInit == Init => DataInv
<1> SUFFICES ASSUME Init PROVE DataInv
  OBVIOUS
<1> USE DispatcherAssumption DEF Init, DrainInit
<1>1. TypeOK
  BY DEF TypeOK
<1>2. BusOK /\ AppliedIsWritten /\ MarkedNext /\ HandlersDone /\ DispatchedIsComplete
  BY DEF BusOK, OnBus, AppliedIsWritten, MarkedNext, HandlersDone, DispatchedIsComplete, Pending
<1>3. QED
  BY <1>1, <1>2 DEF DataInv

\* The handler that is next is unique.
LEMMA NextIsUnique ==
  ASSUME NEW f \in Effect, NEW g \in Effect, NextHandler(f), NextHandler(g)
  PROVE  f = g
BY DispatcherAssumption DEF NextHandler

\* A handler writes its rows once, and only its own.
LEMMA WritesOnce ==
  ASSUME TypeOK, NEW p \in Pair, WriteOnce(p)
  PROVE  /\ changes' \in [Pair -> {0, 1}]
         /\ changes'[p] = 1
         /\ \A q \in Pair : q # p => changes'[q] = changes[q]
         /\ \A q \in Pair : changes[q] = 1 => changes'[q] = 1
<1>1. changes \in [Pair -> {0, 1}]
  BY DEF TypeOK
<1>2. CASE changes[p] = 0
  BY <1>1, <1>2 DEF WriteOnce
<1>3. CASE changes[p] = 1
  BY <1>1, <1>3 DEF WriteOnce
<1>4. QED
  BY <1>1, <1>2, <1>3

LEMMA DataStep == DataInv /\ [Next]_vars => DataInv'
<1> SUFFICES ASSUME DataInv, [Next]_vars PROVE DataInv'
  OBVIOUS
<1> USE DispatcherAssumption
<1>inv. TypeOK /\ BusOK /\ AppliedIsWritten /\ MarkedNext /\ HandlersDone /\ DispatchedIsComplete
  BY DEF DataInv
<1> DEFINE Rest == BusOK /\ AppliedIsWritten /\ MarkedNext /\ HandlersDone /\ DispatchedIsComplete
<1>1. ASSUME NEW e \in Event, Emit(e) PROVE DataInv'
  <2>1. TypeOK'
    BY <1>1, <1>inv DEF TypeOK, Emit, effects, loop, onBus, callers, faults
  <2>2. Rest'
    BY <1>1, <1>inv DEF BusOK, OnBus, AppliedIsWritten, MarkedNext, NextHandler, HandlersDone,
       DispatchedIsComplete, Emit, effects, loop, onBus, callers, faults, Pending
  <2>3. QED
    BY <2>1, <2>2 DEF DataInv
<1>2. ASSUME NEW c \in Caller, StartDrain(c) \/ JoinDrain(c) PROVE DataInv'
  <2>1. TypeOK'
    BY <1>2, <1>inv DEF TypeOK, StartDrain, JoinDrain, Pending, tables, effects, onBus, faults
  <2>2. Rest'
    BY <1>2, <1>inv DEF BusOK, OnBus, AppliedIsWritten, MarkedNext, NextHandler, HandlersDone,
       DispatchedIsComplete, StartDrain, JoinDrain, tables, effects, onBus, faults, Pending
  <2>3. QED
    BY <2>1, <2>2 DEF DataInv
<1>3. CASE List
  <2>1. PICK listed \in Listings : /\ batch' = listed \ attempted
                                   /\ attempted' = attempted \union listed
    BY <1>3 DEF List
  <2>2. listed \subseteq Pending
    BY <2>1 DEF Listings
  <2>3. batch' \subseteq Pending /\ attempted' \subseteq Event
    BY <2>1, <2>2, <1>inv DEF TypeOK, Pending
  <2>4. TypeOK'
    BY <1>3, <1>inv, <2>3 DEF TypeOK, List, tables, effects, onBus, callers, faults, Pending
  <2>5. Rest'
    BY <1>3, <1>inv, <2>3 DEF BusOK, OnBus, AppliedIsWritten, MarkedNext, NextHandler,
       HandlersDone, DispatchedIsComplete, List, tables, effects, onBus, callers, faults, Pending
  <2>6. QED
    BY <2>4, <2>5 DEF DataInv
<1>4. ASSUME NEW e \in Event, Publish(e) PROVE DataInv'
  <2>1. TypeOK'
    BY <1>4, <1>inv DEF TypeOK, Publish, tables, effects, callers, faults
  <2>2. Rest'
    BY <1>4, <1>inv DEF BusOK, OnBus, AppliedIsWritten, MarkedNext, NextHandler, HandlersDone,
       DispatchedIsComplete, Publish, tables, effects, callers, faults, Pending
  <2>3. QED
    BY <2>1, <2>2 DEF DataInv
<1>5. ASSUME NEW f \in Effect, SkipApplied(f) PROVE DataInv'
  <2>1. TypeOK'
    BY <1>5, <1>inv DEF TypeOK, SkipApplied, tables, effects, loop, callers, faults
  <2>2. Rest'
    BY <1>5, <1>inv DEF BusOK, OnBus, AppliedIsWritten, MarkedNext, NextHandler, HandlersDone,
       DispatchedIsComplete, SkipApplied, tables, effects, loop, callers, faults, Pending
  <2>3. QED
    BY <2>1, <2>2 DEF DataInv
<1>6. ASSUME NEW f \in Effect, RunHandler(f) PROVE DataInv'
  <2>0. <<current, f>> \in Pair
    BY <1>6, <1>inv DEF RunHandler, BusOK, OnBus, Pending, TypeOK, Pair
  <2>1. /\ changes' \in [Pair -> {0, 1}]
        /\ changes'[<<current, f>>] = 1
        /\ \A q \in Pair : changes[q] = 1 => changes'[q] = 1
    BY <1>6, <1>inv, <2>0, WritesOnce DEF RunHandler
  <2>2. bodies' \in [Pair -> Nat]
    BY <1>6, <1>inv, <2>0 DEF RunHandler, TypeOK, Pair
  <2>3. TypeOK'
    BY <1>6, <1>inv, <2>1, <2>2 DEF TypeOK, RunHandler, tables, loop, onBus, callers, faults
  <2>4. BusOK' /\ AppliedIsWritten'
    BY <1>6, <1>inv, <2>1 DEF BusOK, OnBus, AppliedIsWritten, RunHandler, tables, loop, onBus,
       Pending, TypeOK
  <2>5. MarkedNext'
    <3>1. \A g \in Effect : NextHandler(g)' => g = f
      BY <1>6, NextIsUnique DEF RunHandler, NextHandler, onBus
    <3>2. QED
      BY <1>6, <2>1, <3>1 DEF MarkedNext, RunHandler, onBus
  <2>6. HandlersDone' /\ DispatchedIsComplete'
    BY <1>6, <1>inv, <2>1 DEF HandlersDone, DispatchedIsComplete, OnBus, RunHandler, tables,
       onBus, BusOK, Pending, TypeOK, Pair
  <2>7. QED
    BY <2>3, <2>4, <2>5, <2>6 DEF DataInv
<1>7. ASSUME NEW f \in Effect, HandlerThrows(f) \/ MarkThrows(f) PROVE DataInv'
  <2>1. TypeOK'
    <3>1. CASE HandlerThrows(f)
      BY <3>1, <1>inv DEF TypeOK, HandlerThrows, tables, effects, loop, callers
    <3>2. CASE MarkThrows(f)
      BY <3>2, <1>inv DEF TypeOK, MarkThrows, tables, effects, loop, callers
    <3>3. QED
      BY <1>7, <3>1, <3>2
  <2>2. Rest'
    BY <1>7, <1>inv DEF BusOK, OnBus, AppliedIsWritten, MarkedNext, NextHandler, HandlersDone,
       DispatchedIsComplete, HandlerThrows, MarkThrows, tables, effects, loop, callers, Pending
  <2>3. QED
    BY <2>1, <2>2 DEF DataInv
<1>8. ASSUME NEW f \in Effect, MarkApplied(f) PROVE DataInv'
  <2>0. <<current, f>> \in Pair /\ changes[<<current, f>>] = 1
    BY <1>8, <1>inv DEF MarkApplied, BusOK, OnBus, Pending, TypeOK, Pair, MarkedNext
  <2>1. TypeOK'
    BY <1>8, <1>inv, <2>0 DEF TypeOK, MarkApplied, tables, loop, callers, faults
  <2>2. Rest'
    BY <1>8, <1>inv, <2>0 DEF BusOK, OnBus, AppliedIsWritten, MarkedNext, HandlersDone,
       DispatchedIsComplete, MarkApplied, tables, loop, callers, faults, Pending
  <2>3. QED
    BY <2>1, <2>2 DEF DataInv
<1>9. CASE MarkDispatched
  <2>0. current \in Pending /\ \A f \in Subscribed[current] : changes[<<current, f>>] = 1
    BY <1>9, <1>inv DEF MarkDispatched, BusOK, OnBus, HandlersDone
  <2>1. TypeOK'
    BY <1>9, <1>inv, <2>0 DEF TypeOK, MarkDispatched, effects, loop, callers, faults, Pending
  <2>2. Rest'
    BY <1>9, <1>inv, <2>0 DEF BusOK, OnBus, AppliedIsWritten, MarkedNext, HandlersDone,
       DispatchedIsComplete, MarkDispatched, effects, loop, callers, faults, Pending
  <2>3. QED
    BY <2>1, <2>2 DEF DataInv
<1>10. CASE RecordFailure \/ EndBatch \/ LoopTest \/ Resolve \/ Crash
  <2>1. TypeOK'
    <3>1. CASE RecordFailure \/ EndBatch
      BY <3>1, <1>inv DEF TypeOK, RecordFailure, EndBatch, tables, effects, loop, onBus,
         callers, faults
    <3>2. CASE LoopTest
      <4>1. rerun' \in BOOLEAN /\ pc' \in {"list", "done"}
        BY <3>2, <1>inv, Zenon DEF LoopTest, TypeOK
      <4>2. QED
        BY <3>2, <4>1, <1>inv DEF TypeOK, LoopTest, tables, effects, onBus, callers, faults
    <3>3. CASE Resolve
      BY <3>3, <1>inv DEF TypeOK, Resolve, tables, effects, loop, onBus, faults
    <3>4. CASE Crash
      <4>1. interruptions' \in Nat
        BY <3>4, <1>inv DEF TypeOK, Crash
      <4>2. batchFailed' \in BOOLEAN /\ drainFailed' \in BOOLEAN /\ rerun' \in BOOLEAN
            /\ eventFailed' \in BOOLEAN
        BY <3>4, Zenon DEF Crash
      <4>3. QED
        BY <3>4, <1>inv, <4>1, <4>2 DEF TypeOK, Crash, tables, effects
    <3>5. QED
      BY <1>10, <3>1, <3>2, <3>3, <3>4
  <2>2. Rest'
    BY <1>10, <1>inv DEF BusOK, OnBus, AppliedIsWritten, MarkedNext, NextHandler, HandlersDone,
       DispatchedIsComplete, RecordFailure, EndBatch, LoopTest, Resolve, Crash, tables, effects,
       loop, onBus, callers, faults, Pending
  <2>3. QED
    BY <2>1, <2>2 DEF DataInv
<1>11. CASE UNCHANGED vars
  BY <1>11, <1>inv DEF DataInv, TypeOK, BusOK, OnBus, AppliedIsWritten, MarkedNext, NextHandler,
     HandlersDone, DispatchedIsComplete, vars, tables, effects, loop, onBus, callers, faults, Pending
<1>12. QED
  BY <1>1, <1>2, <1>3, <1>4, <1>5, <1>6, <1>7, <1>8, <1>9, <1>10, <1>11
     DEF Next, DrainStep, HandlerStep

THEOREM DataInvariant == Spec => []DataInv
BY DataInit, DataStep, PTL DEF Spec

(***************************************************************************)
(* The variables keep their types; no handler's rows are written twice.    *)
(***************************************************************************)
THEOREM TypeCorrect == Spec => []TypeOK
BY DataInvariant, PTL DEF DataInv

(***************************************************************************)
(* A dispatched event has all of its effects in the data, once.            *)
(***************************************************************************)
THEOREM DispatchedEventsAreComplete == Spec => []DispatchedIsComplete
BY DataInvariant, PTL DEF DataInv

(***************************************************************************)
(* Every step of the dispatcher is a step of EffectDelivery or leaves the  *)
(* outbox and the data as they are: a handler that is entered again after  *)
(* a crash finds its rows and writes nothing.                              *)
(***************************************************************************)
LEMMA StepRefines == DataInv /\ [Next]_vars => [Delivery!Next]_Delivery!vars
<1> SUFFICES ASSUME DataInv, [Next]_vars PROVE [Delivery!Next]_Delivery!vars
  OBVIOUS
<1> USE DispatcherAssumption
<1>inv. TypeOK /\ BusOK /\ HandlersDone /\ DispatchedIsComplete
  BY DEF DataInv
<1>1. ASSUME NEW e \in Event, Emit(e) PROVE Delivery!Next
  <2>1. Delivery!Emit(e)
    BY <1>1 DEF Emit, Delivery!Emit, effects
  <2>2. QED
    BY <2>1 DEF Delivery!Next
<1>2. ASSUME NEW f \in Effect, RunHandler(f) PROVE [Delivery!Next]_Delivery!vars
  <2>0. current \in Pending /\ f \in Subscribed[current] /\ <<current, f>> \in Pair
    BY <1>2, <1>inv DEF RunHandler, NextHandler, BusOK, OnBus, Pending, TypeOK, Pair
  <2>1. CASE changes[<<current, f>>] = 0
    <3>1. Delivery!Perform(current, f)
      BY <1>2, <2>0, <2>1 DEF RunHandler, WriteOnce, Delivery!Perform, Pending, tables
    <3>2. current \in Event
      BY <2>0 DEF Pair
    <3>3. QED
      BY <3>1, <3>2 DEF Delivery!Next
  <2>2. CASE changes[<<current, f>>] # 0
    BY <1>2, <2>2 DEF RunHandler, WriteOnce, tables, Delivery!vars
  <2>3. QED
    BY <2>1, <2>2
<1>3. CASE MarkDispatched
  <2>1. current \in Pending /\ \A f \in Subscribed[current] : changes[<<current, f>>] = 1
    BY <1>3, <1>inv DEF MarkDispatched, BusOK, OnBus, HandlersDone
  <2>2. current \in Event
    BY <2>1, <1>inv DEF Pending, TypeOK
  <2>3. Delivery!Dispatch(current)
    BY <1>3, <2>1 DEF MarkDispatched, Delivery!Dispatch, Pending, effects
  <2>4. QED
    BY <2>2, <2>3 DEF Delivery!Next
<1>4. ASSUME NEW c \in Caller, StartDrain(c) \/ JoinDrain(c) PROVE UNCHANGED Delivery!vars
  BY <1>4 DEF StartDrain, JoinDrain, tables, effects, Delivery!vars
<1>5. ASSUME NEW e \in Event, Publish(e) PROVE UNCHANGED Delivery!vars
  BY <1>5 DEF Publish, tables, effects, Delivery!vars
<1>6. ASSUME NEW f \in Effect, SkipApplied(f) \/ HandlerThrows(f) \/ MarkApplied(f) \/ MarkThrows(f)
      PROVE UNCHANGED Delivery!vars
  BY <1>6 DEF SkipApplied, HandlerThrows, MarkApplied, MarkThrows, tables, effects, Delivery!vars
<1>7. CASE List \/ RecordFailure \/ EndBatch \/ LoopTest \/ Resolve \/ Crash \/ UNCHANGED vars
  BY <1>7 DEF List, RecordFailure, EndBatch, LoopTest, Resolve, Crash, vars, tables, effects,
     Delivery!vars
<1>8. QED
  BY <1>1, <1>2, <1>3, <1>4, <1>5, <1>6, <1>7 DEF Next, DrainStep, HandlerStep

(***************************************************************************)
(* The dispatcher implements the abstract promise of the outbox.           *)
(***************************************************************************)
THEOREM DispatcherImplementsDelivery == Spec => ImplementsDelivery
<1>1. Init => Delivery!Init
  BY DEF Init, Delivery!Init, Pair
<1>2. QED
  BY <1>1, StepRefines, DataInvariant, PTL DEF Spec, ImplementsDelivery, Delivery!Spec

-----------------------------------------------------------------------------
(***************************************************************************)
(* A listing is a set of pending events that leaves no older one out, and  *)
(* it is empty only if nothing is pending.                                 *)
(***************************************************************************)
LEMMA ListingFacts ==
  ASSUME NEW listed \in Listings
  PROVE  /\ listed \subseteq Pending
         /\ listed = {} => Pending = {}
         /\ \A d \in listed : \A p \in Pending \ listed : occurredAt[d] <= occurredAt[p]
<1>1. Cardinality({}) = 0
  BY FS_EmptySet
<1>2. QED
  BY <1>1, DispatcherAssumption DEF Listings

LEMMA LoopInit == Init => LoopInv
BY DEF Init, DrainInit, LoopInv, OnBus

LEMMA LoopStep == DataInv /\ LoopInv /\ [Next]_vars => LoopInv'
<1> SUFFICES ASSUME DataInv, LoopInv, [Next]_vars PROVE LoopInv'
  OBVIOUS
<1> USE DispatcherAssumption
<1>inv. TypeOK /\ BusOK
  BY DEF DataInv
<1>1. ASSUME NEW e \in Event, Emit(e) PROVE LoopInv'
  <2>1. /\ clock' \in Nat /\ clock <= clock'
        /\ occurredAt'[e] = clock'
        /\ \A d \in Event : d # e => occurredAt'[d] = occurredAt[d]
    BY <1>1, <1>inv DEF Emit, TypeOK
  <2>2. \A d \in emitted' : occurredAt'[d] <= clock'
    BY <1>1, <1>inv, <2>1 DEF Emit, TypeOK, LoopInv
  <2>3. \A b \in batch' : \A d \in Pending' : occurredAt'[d] < occurredAt'[b] => d \in attempted'
    <3> SUFFICES ASSUME NEW b \in batch, NEW d \in Pending', occurredAt'[d] < occurredAt'[b]
                 PROVE  d \in attempted
      BY <1>1 DEF Emit, loop
    <3>1. b \in emitted /\ b # e /\ b \in Event
      BY <1>1, <1>inv DEF Emit, BusOK, Pending, TypeOK
    <3>2. occurredAt'[b] = occurredAt[b] /\ occurredAt[b] \in Nat /\ occurredAt[b] <= clock
      BY <2>1, <3>1, <1>inv DEF LoopInv, TypeOK
    <3>3. d # e
      BY <2>1, <3>2, <1>inv DEF TypeOK
    <3>4. d \in Pending /\ d \in Event
      BY <1>1, <1>inv, <3>3 DEF Emit, Pending, TypeOK
    <3>5. QED
      BY <2>1, <3>2, <3>3, <3>4 DEF LoopInv
  <2>4. QED
    BY <1>1, <2>2, <2>3 DEF LoopInv, Emit, OnBus, effects, loop, onBus, callers, faults
<1>2. ASSUME NEW c \in Caller, StartDrain(c) PROVE LoopInv'
  BY <1>2, <1>inv DEF LoopInv, StartDrain, Pending, OnBus, tables, effects, onBus, faults
<1>3. ASSUME NEW c \in Caller, JoinDrain(c) PROVE LoopInv'
  BY <1>3, <1>inv DEF LoopInv, JoinDrain, Pending, OnBus, tables, effects, onBus, faults
<1>4. CASE List
  <2>1. PICK listed \in Listings : /\ batch' = listed \ attempted
                                   /\ attempted' = attempted \union listed
    BY <1>4 DEF List
  <2>2. /\ listed \subseteq Pending
        /\ listed = {} => Pending = {}
        /\ \A d \in listed : \A p \in Pending \ listed : occurredAt[d] <= occurredAt[p]
    BY <2>1, ListingFacts
  <2>3. \A b \in batch' : \A d \in Pending' : occurredAt'[d] < occurredAt'[b] => d \in attempted'
    <3> SUFFICES ASSUME NEW b \in batch', NEW d \in Pending, occurredAt[d] < occurredAt[b],
                        d \notin listed
                 PROVE  FALSE
      BY <1>4, <2>1 DEF List, tables, Pending
    <3>1. occurredAt[b] <= occurredAt[d]
      BY <2>1, <2>2
    <3>2. occurredAt[b] \in Nat /\ occurredAt[d] \in Nat
      BY <2>1, <2>2, <1>inv DEF TypeOK, Pending
    <3>3. QED
      BY <3>1, <3>2
  <2>4. pc' = "test" /\ ~drainFailed' /\ ~rerun' => requested' \subseteq attempted' \union dispatched'
    <3> SUFFICES ASSUME pc' = "test", ~drainFailed PROVE requested \subseteq attempted' \union dispatched
      BY <1>4 DEF List, tables, callers
    <3>1. batch' = {}
      BY <1>4 DEF List
    <3>2. \A e \in attempted : e \in dispatched
      BY <1>4 DEF LoopInv, List, OnBus
    <3>3. listed \subseteq attempted
      BY <2>1, <3>1
    <3>4. listed = {}
      BY <2>2, <3>2, <3>3 DEF Pending
    <3>5. emitted \subseteq dispatched
      BY <2>2, <3>4 DEF Pending
    <3>6. QED
      BY <3>5 DEF LoopInv
  <2>5. \A e \in attempted' : (pc' # "idle" /\ ~drainFailed') =>
           e \in batch' \/ e \in dispatched' \/ (OnBus' /\ e = current')
    <3> SUFFICES ASSUME NEW e \in attempted', ~drainFailed PROVE e \in batch' \/ e \in dispatched
      BY <1>4 DEF List, tables
    <3>1. e \in attempted => e \in dispatched
      BY <1>4 DEF LoopInv, List, OnBus
    <3>2. QED
      BY <3>1, <2>1
  <2>6. attempted' \subseteq emitted'
    BY <1>4, <2>1, <2>2 DEF LoopInv, List, tables, Pending
  <2>7. QED
    BY <1>4, <2>3, <2>4, <2>5, <2>6 DEF LoopInv, List, OnBus, tables, effects, onBus, callers
<1>5. ASSUME NEW e \in Event, Publish(e) PROVE LoopInv'
  BY <1>5, <1>inv DEF LoopInv, Publish, Pending, OnBus, BusOK, tables, effects, callers, faults
<1>6. ASSUME NEW f \in Effect, HandlerStep(f) PROVE LoopInv'
  BY <1>6, <1>inv DEF LoopInv, HandlerStep, SkipApplied, RunHandler, HandlerThrows, MarkApplied,
     MarkThrows, Pending, OnBus, tables, effects, loop, onBus, callers, faults
<1>7. CASE MarkDispatched
  BY <1>7, <1>inv DEF LoopInv, MarkDispatched, Pending, OnBus, BusOK, effects, loop, callers, faults
<1>8. CASE RecordFailure
  BY <1>8, <1>inv DEF LoopInv, RecordFailure, Pending, OnBus, tables, effects, callers, faults
<1>9. CASE EndBatch
  BY <1>9, <1>inv DEF LoopInv, EndBatch, Pending, OnBus, tables, effects, loop, onBus, callers, faults
<1>10. CASE LoopTest
  BY <1>10, <1>inv DEF LoopInv, LoopTest, Pending, OnBus, tables, effects, onBus, callers, faults
<1>11. CASE Resolve \/ Crash
  BY <1>11, <1>inv DEF LoopInv, Resolve, Crash, Pending, OnBus, tables, effects, loop, onBus, faults
<1>12. CASE UNCHANGED vars
  BY <1>12 DEF LoopInv, vars, Pending, OnBus, tables, effects, loop, onBus, callers, faults
<1>13. QED
  BY <1>1, <1>2, <1>3, <1>4, <1>5, <1>6, <1>7, <1>8, <1>9, <1>10, <1>11, <1>12
     DEF Next, DrainStep

THEOREM LoopInvariant == Spec => []LoopInv
BY DataInvariant, LoopInit, LoopStep, PTL DEF Spec

(***************************************************************************)
(* No event goes onto the bus before an older one that still waits, in the *)
(* batch of this drain or outside of it.  Only Publish puts one there: it  *)
(* takes the oldest of the batch, and LoopInv has what is older than the   *)
(* batch among the events this drain has listed.                           *)
(***************************************************************************)
THEOREM OldestComesFirst == Spec => OldestFirst
<1>1. DataInv /\ LoopInv /\ [Next]_vars =>
        [pc = "event" /\ pc' = "handler" =>
           \A d \in Pending :
             occurredAt[d] < occurredAt[current'] => d \in attempted \ batch]_vars
  <2> SUFFICES ASSUME DataInv, LoopInv, Next, pc = "event", pc' = "handler",
                      NEW d \in Pending, occurredAt[d] < occurredAt[current']
               PROVE  d \in attempted \ batch
    BY DEF vars
  <2>1. PICK e \in Event : Publish(e)
    BY DEF Next, Emit, StartDrain, JoinDrain, DrainStep, List, HandlerStep, SkipApplied, RunHandler,
       HandlerThrows, MarkApplied, MarkThrows, MarkDispatched, RecordFailure, EndBatch, LoopTest,
       Resolve, Crash
  <2>2. d \in attempted
    BY <2>1 DEF LoopInv, Publish
  <2>3. d \notin batch
    <3>1. d \in Event /\ e \in Event /\ occurredAt \in [Event -> Nat]
      BY DEF DataInv, TypeOK, Pending
    <3>2. d \in batch => occurredAt[e] <= occurredAt[d]
      BY <2>1 DEF Publish
    <3>3. occurredAt[d] < occurredAt[e]
      BY <2>1 DEF Publish
    <3>4. occurredAt[d] \in Nat /\ occurredAt[e] \in Nat
      BY <3>1
    <3>5. QED
      BY <3>2, <3>3, <3>4
  <2>4. QED
    BY <2>2, <2>3
<1>2. QED
  BY <1>1, DataInvariant, LoopInvariant, PTL DEF Spec, OldestFirst

(***************************************************************************)
(* A drain without failures serves every request that shared it before its *)
(* last loop test.                                                         *)
(***************************************************************************)
THEOREM CleanDrainLeavesNothing == Spec => CleanExitLeavesNothing
<1>1. DataInv /\ LoopInv /\ [Next]_vars =>
        [pc = "test" /\ pc' = "done" =>
           drainFailed \/ requested \subseteq attempted \union dispatched]_vars
  <2> SUFFICES ASSUME LoopInv, Next, pc = "test", pc' = "done", ~drainFailed
               PROVE  requested \subseteq attempted \union dispatched
    BY DEF vars
  <2>1. LoopTest
    BY DEF Next, Emit, StartDrain, JoinDrain, DrainStep, List, Publish, HandlerStep, SkipApplied,
       RunHandler, HandlerThrows, MarkApplied, MarkThrows, MarkDispatched, RecordFailure, EndBatch,
       Resolve, Crash
  <2>2. ~rerun
    BY <2>1 DEF LoopTest
  <2>3. QED
    BY <2>2 DEF LoopInv
<1>2. QED
  BY <1>1, DataInvariant, LoopInvariant, PTL DEF Spec, CleanExitLeavesNothing

-----------------------------------------------------------------------------
(***************************************************************************)
(* A handler that ran to its end and is neither recorded as applied nor    *)
(* about to be was cut off by a crash or by a markApplied that threw.      *)
(***************************************************************************)
AboutToMark(e, f) == pc = "mark" /\ e = current /\ NextHandler(f)

CutsExplainBodies ==
  \A e \in Event, f \in Effect :
    /\ bodies[<<e, f>>] <= 1 + interruptions
    /\ <<e, f>> \in applied \/ AboutToMark(e, f) \/ bodies[<<e, f>>] <= interruptions

LEMMA CutsInit == Init => CutsExplainBodies
  BY DispatcherAssumption DEF Init, CutsExplainBodies, Pair

LEMMA CutsStep == DataInv /\ CutsExplainBodies /\ [Next]_vars => CutsExplainBodies'
<1> SUFFICES ASSUME DataInv, CutsExplainBodies, [Next]_vars,
                    NEW e \in Event, NEW f \in Effect
             PROVE  /\ bodies'[<<e, f>>] <= 1 + interruptions'
                    /\ <<e, f>> \in applied' \/ AboutToMark(e, f)' \/ bodies'[<<e, f>>] <= interruptions'
  BY DEF CutsExplainBodies
<1>1. /\ TypeOK /\ BusOK
      /\ bodies[<<e, f>>] \in Nat /\ interruptions \in Nat
      /\ bodies[<<e, f>>] <= 1 + interruptions
      /\ <<e, f>> \in applied \/ AboutToMark(e, f) \/ bodies[<<e, f>>] <= interruptions
  BY DEF DataInv, CutsExplainBodies, TypeOK, Pair
<1>2. ASSUME NEW g \in Effect, RunHandler(g)
      PROVE  /\ bodies'[<<e, f>>] <= 1 + interruptions'
             /\ <<e, f>> \in applied' \/ AboutToMark(e, f)' \/ bodies'[<<e, f>>] <= interruptions'
  <2>1. /\ pc = "handler" /\ pc' = "mark" /\ current' = current /\ NextHandler(g)'
        /\ <<current, g>> \in Pair /\ <<current, g>> \notin applied
        /\ interruptions' = interruptions /\ applied' = applied
    BY <1>1, <1>2 DEF RunHandler, NextHandler, BusOK, OnBus, Pending, TypeOK, Pair, onBus, faults
  <2>2. bodies'[<<e, f>>] = bodies[<<e, f>>] + (IF <<e, f>> = <<current, g>> THEN 1 ELSE 0)
    BY <1>1, <1>2, <2>1 DEF RunHandler, TypeOK, Pair
  <2>3. CASE <<e, f>> = <<current, g>>
    BY <1>1, <2>1, <2>2, <2>3 DEF AboutToMark
  <2>4. CASE <<e, f>> # <<current, g>>
    BY <1>1, <2>1, <2>2, <2>4 DEF AboutToMark
  <2>5. QED
    BY <2>3, <2>4
<1>3. ASSUME NEW g \in Effect, MarkApplied(g)
      PROVE  /\ bodies'[<<e, f>>] <= 1 + interruptions'
             /\ <<e, f>> \in applied' \/ AboutToMark(e, f)' \/ bodies'[<<e, f>>] <= interruptions'
  <2>1. AboutToMark(e, f) => <<e, f>> \in applied'
    BY <1>3, NextIsUnique DEF AboutToMark, MarkApplied
  <2>2. bodies' = bodies /\ interruptions' = interruptions /\ applied \subseteq applied'
    BY <1>3 DEF MarkApplied, faults
  <2>3. QED
    BY <1>1, <2>1, <2>2
<1>4. CASE (\E g \in Effect : MarkThrows(g)) \/ Crash
  <2>1. bodies' = bodies /\ interruptions' = interruptions + 1
    BY <1>4 DEF MarkThrows, Crash, effects
  <2>2. QED
    BY <1>1, <2>1
<1>5. ASSUME bodies' = bodies, interruptions' = interruptions, applied' = applied,
             AboutToMark(e, f) => AboutToMark(e, f)'
      PROVE  /\ bodies'[<<e, f>>] <= 1 + interruptions'
             /\ <<e, f>> \in applied' \/ AboutToMark(e, f)' \/ bodies'[<<e, f>>] <= interruptions'
  BY <1>1, <1>5
<1>6. CASE \E d \in Event : Emit(d) \/ Publish(d)
  BY <1>5, <1>6 DEF Emit, Publish, AboutToMark, NextHandler, effects, onBus, faults
<1>7. CASE \E c \in Caller : StartDrain(c) \/ JoinDrain(c)
  BY <1>5, <1>7 DEF StartDrain, JoinDrain, AboutToMark, NextHandler, effects, onBus, faults
<1>8. CASE \E g \in Effect : SkipApplied(g) \/ HandlerThrows(g)
  BY <1>5, <1>8 DEF SkipApplied, HandlerThrows, AboutToMark, NextHandler, effects, faults
<1>9. CASE List \/ MarkDispatched \/ RecordFailure
  BY <1>5, <1>9 DEF List, MarkDispatched, RecordFailure, AboutToMark, NextHandler, effects,
                    onBus, faults
<1>10. CASE EndBatch \/ LoopTest \/ Resolve \/ UNCHANGED vars
  BY <1>5, <1>10 DEF EndBatch, LoopTest, Resolve, vars, AboutToMark, NextHandler, effects,
                     onBus, faults
<1>11. QED
  BY <1>2, <1>3, <1>4, <1>6, <1>7, <1>8, <1>9, <1>10 DEF Next, DrainStep, HandlerStep

(***************************************************************************)
(* A handler that ran to its end is entered again only after a crash or a  *)
(* markApplied that threw, for any events, subscribers and failures.       *)
(***************************************************************************)
THEOREM RerunsStayExplained == Spec => []RerunsAreExplained
<1>1. DataInv /\ CutsExplainBodies => RerunsAreExplained
  BY DEF CutsExplainBodies, RerunsAreExplained, Pair
<1>2. QED
  BY <1>1, CutsInit, CutsStep, DataInvariant, PTL DEF Spec

=============================================================================
