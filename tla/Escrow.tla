------------------------------- MODULE Escrow -------------------------------
(***************************************************************************)
(* What a stream promises: an account whose deposit drips, second by       *)
(* second, from what the sender may still get back to what the receiver    *)
(* may take.  Nothing is computed later than it happens; Streams.tla keeps *)
(* a checkpoint that is brought up to date when a handler looks at it, and *)
(* implements this.                                                        *)
(***************************************************************************)
EXTENDS Integers

CONSTANTS
    Accounts,
    Rates,           \* rates that may be asked for
    Amounts          \* what may be put into an account at once

VARIABLES
    rate,            \* what drips each second; 0 is no running account
    unearned,        \* the sender's part
    earned,          \* the receiver's part
    funded,          \* what was put in, in all
    received,        \* what was taken by receivers
    returned         \* what went back to senders

parts == <<unearned, earned>>
vars == <<rate, parts, funded, received, returned>>

Running(a) == rate[a] > 0
Lesser(m, n) == IF m =< n THEN m ELSE n

Init ==
    /\ rate = [a \in Accounts |-> 0]
    /\ unearned = [a \in Accounts |-> 0]
    /\ earned = [a \in Accounts |-> 0]
    /\ funded = [a \in Accounts |-> 0]
    /\ received = [a \in Accounts |-> 0]
    /\ returned = [a \in Accounts |-> 0]

Open(a, n, amount) ==
    /\ ~Running(a)
    /\ rate' = [rate EXCEPT ![a] = n]
    /\ unearned' = [unearned EXCEPT ![a] = amount]
    /\ funded' = [funded EXCEPT ![a] = @ + amount]
    /\ UNCHANGED <<earned, received, returned>>

\* A second passes for every account, as far as its deposit goes.
Drop(a) == Lesser(rate[a], unearned[a])

Second ==
    /\ earned' = [a \in Accounts |-> earned[a] + Drop(a)]
    /\ unearned' = [a \in Accounts |-> unearned[a] - Drop(a)]
    /\ UNCHANGED <<rate, funded, received, returned>>

\* Receivers take of what they earned; taking the last of a deposit ends the
\* account.
Taken(a) == received'[a] - received[a]

Take ==
    /\ received' = [a \in Accounts |-> received'[a]]
    /\ \A a \in Accounts : Taken(a) \in 0 .. earned[a]
    /\ earned' = [a \in Accounts |-> earned[a] - Taken(a)]
    /\ rate' = [a \in Accounts |->
           IF Taken(a) > 0 /\ Taken(a) = earned[a] + unearned[a] THEN 0 ELSE rate[a]]
    /\ UNCHANGED <<unearned, funded, returned>>

\* Another rate leaves what was earned alone.  A lower one returns what the
\* account does not need to run for the same whole seconds.
Kept(a, n) ==
    IF n < rate[a] THEN (unearned[a] \div rate[a]) * n ELSE unearned[a]

Change(a, n) ==
    /\ Running(a)
    /\ rate' = [rate EXCEPT ![a] = n]
    /\ unearned' = [unearned EXCEPT ![a] = Kept(a, n)]
    /\ returned' = [returned EXCEPT ![a] = @ + (unearned[a] - Kept(a, n))]
    /\ UNCHANGED <<earned, funded, received>>

\* What is added to running accounts is the sender's, unless an account had
\* run dry: then some of it may be earned at once, for the seconds since.
Late(a) == earned'[a] - earned[a]
Added(a) == funded'[a] - funded[a]

Add ==
    /\ funded' = [a \in Accounts |-> funded'[a]]
    /\ earned' = [a \in Accounts |-> earned'[a]]
    /\ \A a \in Accounts :
           /\ Added(a) \in Amounts \cup {0}
           /\ Added(a) > 0 => Running(a)
           /\ Late(a) \in 0 .. Added(a)
           /\ Late(a) > 0 => unearned[a] = 0
    /\ unearned' = [a \in Accounts |-> unearned[a] + (Added(a) - Late(a))]
    /\ UNCHANGED <<rate, received, returned>>

\* Running accounts are divided between the two sides.
Close(S) ==
    /\ \A a \in S : Running(a)
    /\ rate' = [a \in Accounts |-> IF a \in S THEN 0 ELSE rate[a]]
    /\ received' = [a \in Accounts |->
           IF a \in S THEN received[a] + earned[a] ELSE received[a]]
    /\ returned' = [a \in Accounts |->
           IF a \in S THEN returned[a] + unearned[a] ELSE returned[a]]
    /\ earned' = [a \in Accounts |-> IF a \in S THEN 0 ELSE earned[a]]
    /\ unearned' = [a \in Accounts |-> IF a \in S THEN 0 ELSE unearned[a]]
    /\ UNCHANGED funded

Next ==
    \/ \E a \in Accounts, n \in Rates :
          \/ \E amount \in Amounts : Open(a, n, amount)
          \/ Change(a, n)
    \/ Second
    \/ Take
    \/ Add
    \/ \E S \in SUBSET Accounts : Close(S)

Spec == Init /\ [][Next]_vars
=============================================================================
