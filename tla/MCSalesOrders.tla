---------------------------- MODULE MCSalesOrders ----------------------------
(***************************************************************************)
(* Small instances of SalesOrders for TLC.                                 *)
(***************************************************************************)
EXTENDS SalesOrders, TLC

MCSymmetry == Permutations(Order) \union Permutations(Sale)

=============================================================================
