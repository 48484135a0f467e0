----------------------------- MODULE MCPayments -----------------------------
(***************************************************************************)
(* Payments on small instances: two tokens, one of which allows more       *)
(* rounding, and receipts on both sides of every tolerance.                *)
(***************************************************************************)
EXTENDS Payments, TLC

CONSTANTS usdc, other, p1, p2, p3

MCTolerance == (usdc :> 1) @@ (other :> 2)
OneTolerance == usdc :> 1
MCLimits == {[min |-> 3, max |-> None], [min |-> None, max |-> 4]}
NoChoices == {}
\* Identifiers of payments are only compared for equality.
PaymentSymmetry == Permutations(PaymentIds)
=============================================================================
