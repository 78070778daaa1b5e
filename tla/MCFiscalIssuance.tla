--------------------------- MODULE MCFiscalIssuance ---------------------------
(***************************************************************************)
(* Small instances of FiscalIssuance for TLC.                              *)
(***************************************************************************)
EXTENDS FiscalIssuance, TLC

MCSymmetry == Permutations(Call)

=============================================================================
