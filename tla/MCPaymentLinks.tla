--------------------------- MODULE MCPaymentLinks ---------------------------
(***************************************************************************)
(* PaymentLinks on a small instance: two links that two merchants create,  *)
(* replace and deactivate.                                                 *)
(***************************************************************************)
EXTENDS PaymentLinks, TLC

Symmetry == Permutations(LinkIds) \cup Permutations(Merchants)
=============================================================================
