---------------------------- MODULE MerchantAuth ----------------------------
(***************************************************************************)
(* MerchantPreAuth (merchant_auth.rs), exported by PaymentProcessor: a     *)
(* customer authorizes a merchant once to pull up to a limit per period.   *)
(* The period is rolled over lazily, by the first pull after its end.      *)
(*                                                                         *)
(* A pull whose transfer fails undoes the whole call, so an action is a    *)
(* call that succeeds.                                                     *)
(*                                                                         *)
(* Operators whose name ends in _M are deliberate mistakes that            *)
(* PROJECT.json puts in the place of the definition that follows.          *)
(***************************************************************************)
EXTENDS Integers

CONSTANTS
    Customers,       \* accounts that grant
    Merchants,       \* accounts that pull
    Limits,          \* limit_per_period a customer may choose
    Periods,         \* period_secs a customer may choose
    Amounts,         \* what a merchant may ask for
    MaxTime          \* bound on the ledger clock

ASSUME MerchantAuthAssumption ==
    /\ Limits \subseteq Int
    /\ Periods \subseteq Nat
    /\ Amounts \subseteq Int
    /\ MaxTime \in Nat

VARIABLES
    authorization,   \* MerchantAuthDataKey::Authorization
    now,             \* the ledger timestamp
    pulled           \* history: tokens pulled since the latest grant

vars == <<authorization, now, pulled>>

-----------------------------------------------------------------------------
Pairs == Customers \X Merchants
NoAuthorization == [active |-> FALSE]

MerchantAuthorization ==
    [limitPerPeriod : Nat \ {0}, periodSecs : Nat \ {0}, periodStart : Nat,
     pulledThisPeriod : Nat, active : BOOLEAN, createdAt : Nat]

Active(p) == authorization[p].active

RolledOver(r, t) == t - r.periodStart >= r.periodSecs

CurrentPeriod_Late_M(r, t) ==
    IF t - r.periodStart > r.periodSecs
    THEN [r EXCEPT !.periodStart =
              @ + ((t - @) \div r.periodSecs) * r.periodSecs,
                   !.pulledThisPeriod = 0]
    ELSE r

CurrentPeriod_FromNow_M(r, t) ==
    IF RolledOver(r, t)
    THEN [r EXCEPT !.periodStart = t, !.pulledThisPeriod = 0]
    ELSE r

CurrentPeriod_Early_M(r, t) ==
    IF t - r.periodStart + 1 >= r.periodSecs
    THEN [r EXCEPT !.periodStart =
              @ + ((t - @ + 1) \div r.periodSecs) * r.periodSecs,
                   !.pulledThisPeriod = 0]
    ELSE r

\* The record brought up to date: periods stay on the grid of the grant.
CurrentPeriod(r, t) ==
    IF RolledOver(r, t)
    THEN [r EXCEPT !.periodStart =
              @ + ((t - @) \div r.periodSecs) * r.periodSecs,
                   !.pulledThisPeriod = 0]
    ELSE r

\* remaining_limit, which repeats the roll-over without storing it.
RemainingLimit(p) ==
    LET r == authorization[p]
    IN  IF r.active
        THEN r.limitPerPeriod - (IF RolledOver(r, now) THEN 0 ELSE r.pulledThisPeriod)
        ELSE 0

-----------------------------------------------------------------------------
Init ==
    /\ authorization = [p \in Pairs |-> NoAuthorization]
    /\ now = 0
    /\ pulled = [p \in Pairs |-> 0]

\* Replaces a revoked authorization, and with it what was pulled under it.
PreAuthorizeMerchant(p, limit, period) ==
    /\ limit > 0
    /\ period # 0
    /\ ~Active(p)
    /\ authorization' = [authorization EXCEPT ![p] =
           [limitPerPeriod |-> limit, periodSecs |-> period, periodStart |-> now,
            pulledThisPeriod |-> 0, active |-> TRUE, createdAt |-> now]]
    /\ pulled' = [pulled EXCEPT ![p] = 0]
    /\ UNCHANGED now

RevokeAuthorization(p) ==
    /\ Active(p)
    /\ authorization' = [authorization EXCEPT ![p].active = FALSE]
    /\ UNCHANGED <<now, pulled>>

PullPayment(p, amount) ==
    LET r == CurrentPeriod(authorization[p], now)
    IN  /\ amount > 0
        /\ Active(p)
        /\ amount =< r.limitPerPeriod - r.pulledThisPeriod
        /\ authorization' = [authorization EXCEPT ![p] =
               [r EXCEPT !.pulledThisPeriod = @ + amount]]
        /\ pulled' = [pulled EXCEPT ![p] = @ + amount]
        /\ UNCHANGED now

Tick ==
    /\ now < MaxTime
    /\ now' = now + 1
    /\ UNCHANGED <<authorization, pulled>>

Next ==
    \/ \E p \in Pairs :
          \/ \E limit \in Limits, period \in Periods :
                PreAuthorizeMerchant(p, limit, period)
          \/ RevokeAuthorization(p)
          \/ \E amount \in Amounts : PullPayment(p, amount)
    \/ Tick

Spec == Init /\ [][Next]_vars
-----------------------------------------------------------------------------
(* Properties *)

\* Every stored value has its type, and a period never starts in the future.
TypeOK ==
    /\ authorization \in [Pairs -> MerchantAuthorization \cup {NoAuthorization}]
    /\ now \in Nat
    /\ pulled \in [Pairs -> Nat]
    /\ \A p \in Pairs : Active(p) => authorization[p].periodStart =< now

\* From the grant on, a merchant never has more than the limit times the
\* periods begun so far, however seldom or often it pulls (pull_payment's
\* lazy reset of pulled_this_period).
PulledWithinLimit ==
    \A p \in Pairs : Active(p) =>
        LET r == authorization[p]
        IN  pulled[p] =< r.limitPerPeriod * ((now - r.createdAt) \div r.periodSecs + 1)

\* What remaining_limit answers is what the next pull may take: the read and
\* the pull, which roll the period over each in its own way, agree.
ReadAgreesWithPull ==
    \A p \in Pairs : Active(p) =>
        LET r == CurrentPeriod(authorization[p], now)
        IN  RemainingLimit(p) = r.limitPerPeriod - r.pulledThisPeriod

\* The lazily kept records behave as budgets refilled on the second: what is
\* left is remaining_limit, and the time into the period is what has passed of
\* the grid that starts with the grant.
GrantBar ==
    [p \in Pairs |->
        IF Active(p)
        THEN [limit |-> authorization[p].limitPerPeriod,
              period |-> authorization[p].periodSecs]
        ELSE [period |-> 0]]

LeftBar == [p \in Pairs |-> RemainingLimit(p)]

ElapsedBar ==
    [p \in Pairs |->
        IF Active(p)
        THEN (now - authorization[p].periodStart) % authorization[p].periodSecs
        ELSE 0]

A == INSTANCE Allowance WITH
    grant <- GrantBar, left <- LeftBar, elapsed <- ElapsedBar

\* merchant_auth.rs:78: permission "to pull up to limit_per_period tokens per
\* period_secs-second window", as Allowance.tla spells it out.
ImplementsAllowance == A!Spec
=============================================================================
