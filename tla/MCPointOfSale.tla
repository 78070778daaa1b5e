---------------------------- MODULE MCPointOfSale ----------------------------
(***************************************************************************)
(* Small instances of PointOfSale for TLC.                                 *)
(***************************************************************************)
EXTENDS PointOfSale, TLC

MCOpeningOne == [p \in Product |-> 1]
MCOneTender == {<<1, 0>>}
MCCashOnly == {<<1, 0>>, <<2, 0>>}
MCSymmetry ==
  Permutations(Sale) \union Permutations(Return)
    \union Permutations(Session) \union Permutations(Terminal)

=============================================================================
