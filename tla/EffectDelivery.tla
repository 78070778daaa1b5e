--------------------------- MODULE EffectDelivery ---------------------------
(***************************************************************************)
(* What the transactional outbox promises to the services that write to    *)
(* it: an event, once committed, has the effect of each of its subscribers *)
(* performed exactly once, and it is reported as dispatched only after the *)
(* last of them.  Nothing is said of the order, of retries or of restarts; *)
(* EventDispatcher and PointOfSale are shown to implement this module.     *)
(***************************************************************************)
EXTENDS Naturals

CONSTANTS
  Event,        \* the events a service may commit to the outbox
  Effect,       \* the effect keys of the subscribers
  Subscribed    \* Subscribed[e] : the effects registered for the type of e

VARIABLES
  emitted,      \* the events committed to the outbox
  performed,    \* performed[<<e, f>>] : how often effect f of e changed the data
  dispatched    \* the events reported as dispatched

vars == <<emitted, performed, dispatched>>

Init ==
  /\ emitted = {}
  /\ performed = [p \in Event \X Effect |-> 0]
  /\ dispatched = {}

Emit(e) ==
  /\ e \notin emitted
  /\ emitted' = emitted \union {e}
  /\ UNCHANGED <<performed, dispatched>>

Perform(e, f) ==
  /\ e \in emitted \ dispatched
  /\ f \in Subscribed[e]
  /\ performed[<<e, f>>] = 0
  /\ performed' = [performed EXCEPT ![<<e, f>>] = 1]
  /\ UNCHANGED <<emitted, dispatched>>

Dispatch(e) ==
  /\ e \in emitted \ dispatched
  /\ \A f \in Subscribed[e] : performed[<<e, f>>] = 1
  /\ dispatched' = dispatched \union {e}
  /\ UNCHANGED <<emitted, performed>>

Next ==
  \E e \in Event :
    \/ Emit(e)
    \/ \E f \in Effect : Perform(e, f)
    \/ Dispatch(e)

Spec == Init /\ [][Next]_vars

=============================================================================
