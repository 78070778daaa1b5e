----------------------------- MODULE MCRestaurant -----------------------------
(***************************************************************************)
(* The two halves of a restaurant, which share no state the models keep: a *)
(* behaviour is one of the dining room or one of the kitchen.              *)
(***************************************************************************)
EXTENDS TableSessions, Kitchen, TLC

VARIABLE half

MCInit ==
  /\ TablesInit /\ KitchenInit
  /\ half \in {"room", "kitchen"}
  /\ half = "room" => route = [p \in Product |-> Direct]

RoomStep == half = "room" /\ TablesNext /\ UNCHANGED <<kitchenVars, half>>

KitchenStep == half = "kitchen" /\ KitchenNext /\ UNCHANGED <<tableVars, half>>

MCSpec == MCInit /\ [][RoomStep \/ KitchenStep]_<<tableVars, kitchenVars, half>>

MCSymmetry ==
  UNION {Permutations(set) : set \in {Table, Session, Line, Sale, Product, Station}}

=============================================================================
