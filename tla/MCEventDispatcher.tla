------------------------- MODULE MCEventDispatcher -------------------------
(***************************************************************************)
(* Small instances of EventDispatcher for TLC: three events, two of a type *)
(* with two subscribers and one of a type with one; one handler that may   *)
(* fail for ever.                                                          *)
(***************************************************************************)
EXTENDS EventDispatcher

CONSTANTS e1, e2, e3

MCEvent == {e1, e2, e3}
MCTwoEvents == {e1, e2}
MCSubscribed == [e \in Event |-> IF e = e3 THEN {2} ELSE {1, 2}]
MCPoison == {<<e1, 2>>}

=============================================================================
