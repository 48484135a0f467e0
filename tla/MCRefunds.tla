----------------------------- MODULE MCRefunds -----------------------------
(***************************************************************************)
(* Refunds on small instances.  Payments and arbitrators are only compared *)
(* for equality and looked up, so they may be permuted.                    *)
(***************************************************************************)
EXTENDS Refunds, TLC

NoOne == {}
PaymentSymmetry == Permutations(PaymentIds)
ArbitratorSymmetry == Permutations(Arbitrators)
=============================================================================
