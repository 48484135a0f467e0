------------------------------- MODULE Claims -------------------------------
(***************************************************************************)
(* What the refund manager promises of each payment: an account of known   *)
(* worth, of which parts are claimed, given out, or given up, and of which *)
(* no more is ever claimed than there is, nor given than was claimed.      *)
(* There are no refunds, disputes, votes, lists or balances; Refunds.tla   *)
(* has all of these and implements this.                                   *)
(***************************************************************************)
EXTENDS Integers

CONSTANTS
    None,
    Accounts,
    Worths           \* what an account may be worth

VARIABLES
    worth,           \* None until the account is opened
    claimed,         \* what was claimed and not given up
    given            \* what was given out

vars == <<worth, claimed, given>>

Init ==
    /\ worth = [a \in Accounts |-> None]
    /\ claimed = [a \in Accounts |-> 0]
    /\ given = [a \in Accounts |-> 0]

Open(a, n) ==
    /\ worth[a] = None
    /\ worth' = [worth EXCEPT ![a] = n]
    /\ UNCHANGED <<claimed, given>>

\* A claim for n that fits, of which m is given at once.
Claim(a, n, m) ==
    /\ worth[a] # None
    /\ n > 0
    /\ m \in 0 .. n
    /\ claimed[a] + n =< worth[a]
    /\ claimed' = [claimed EXCEPT ![a] = @ + n]
    /\ given' = [given EXCEPT ![a] = @ + m]
    /\ UNCHANGED worth

\* Something is given of what was claimed.
Give(a, m) ==
    /\ m > 0
    /\ given[a] + m =< claimed[a]
    /\ given' = [given EXCEPT ![a] = @ + m]
    /\ UNCHANGED <<worth, claimed>>

\* A claim for n is given up, unless more was given than would stay claimed.
GiveUp(a, n) ==
    /\ n > 0
    /\ given[a] =< claimed[a] - n
    /\ claimed' = [claimed EXCEPT ![a] = @ - n]
    /\ UNCHANGED <<worth, given>>

\* The amounts of a step are what it adds to an account.
Next ==
    \E a \in Accounts :
        LET n == claimed'[a] - claimed[a]
            m == given'[a] - given[a]
        IN  \/ \E amount \in Worths : Open(a, amount)
            \/ Claim(a, n, m)
            \/ Give(a, m)
            \/ GiveUp(a, -n)

Spec == Init /\ [][Next]_vars
=============================================================================
