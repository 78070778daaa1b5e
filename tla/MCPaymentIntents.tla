--------------------------- MODULE MCPaymentIntents ---------------------------
(***************************************************************************)
(* Small instances of PaymentIntents for TLC.                              *)
(***************************************************************************)
EXTENDS PaymentIntents, TLC

MCSymmetry == Permutations(Intent)

=============================================================================
