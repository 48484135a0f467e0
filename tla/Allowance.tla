----------------------------- MODULE Allowance -----------------------------
(***************************************************************************)
(* What a pre-authorization promises: a customer lets a merchant take up   *)
(* to a limit in each period, counted from the moment of the grant, until  *)
(* the grant is revoked.  Here the budget is refilled at the very second   *)
(* a period ends; MerchantAuth.tla keeps a record that is brought up to    *)
(* date only when the merchant pulls, and implements this.                 *)
(***************************************************************************)
EXTENDS Integers

CONSTANTS
    Pairs,           \* a customer and a merchant
    Limits,          \* what a customer may allow per period
    Periods          \* lengths of a period

VARIABLES
    grant,           \* the standing grant of each pair
    left,            \* what the merchant may still take in this period
    elapsed          \* seconds of this period that have passed

vars == <<grant, left, elapsed>>

NoGrant == [period |-> 0]
Granted(p) == grant[p] # NoGrant

Init ==
    /\ grant = [p \in Pairs |-> NoGrant]
    /\ left = [p \in Pairs |-> 0]
    /\ elapsed = [p \in Pairs |-> 0]

Grant(p, limit, period) ==
    /\ ~Granted(p)
    /\ grant' = [grant EXCEPT ![p] = [limit |-> limit, period |-> period]]
    /\ left' = [left EXCEPT ![p] = limit]
    /\ elapsed' = [elapsed EXCEPT ![p] = 0]

Revoke(p) ==
    /\ Granted(p)
    /\ grant' = [grant EXCEPT ![p] = NoGrant]
    /\ left' = [left EXCEPT ![p] = 0]
    /\ elapsed' = [elapsed EXCEPT ![p] = 0]

Take(p, amount) ==
    /\ Granted(p)
    /\ amount \in 1 .. left[p]
    /\ left' = [left EXCEPT ![p] = @ - amount]
    /\ UNCHANGED <<grant, elapsed>>

\* A second passes for every grant; those whose period ends with it start
\* anew with the whole limit.
PeriodEnds(p) == Granted(p) /\ elapsed[p] + 1 = grant[p].period

Second ==
    /\ elapsed' = [p \in Pairs |->
           IF PeriodEnds(p) \/ ~Granted(p) THEN 0 ELSE elapsed[p] + 1]
    /\ left' = [p \in Pairs |-> IF PeriodEnds(p) THEN grant[p].limit ELSE left[p]]
    /\ UNCHANGED grant

Next ==
    \/ \E p \in Pairs :
          \/ \E limit \in Limits, period \in Periods : Grant(p, limit, period)
          \/ Revoke(p)
          \/ \E amount \in 1 .. left[p] : Take(p, amount)
    \/ Second

Spec == Init /\ [][Next]_vars
=============================================================================
