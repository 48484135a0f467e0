-------------------------------- MODULE Swaps --------------------------------
(***************************************************************************)
(* FXOracle (fx_oracle.rs) and the payments that swap_and_pay of           *)
(* PaymentProcessor (lib.rs) makes against it: the payer's tokens go       *)
(* through a router, and where the payer names an oracle the router's      *)
(* quote has to be close to the oracle's rate, which has to be recent.     *)
(*                                                                         *)
(* The router is external: it quotes and delivers any amount it likes.     *)
(* create_payment, which ends the call and may refuse it as a whole, is    *)
(* the subject of module Payments; of it only the check that the           *)
(* identifier is free is kept.  Roles of the oracle are never taken back,  *)
(* so it only matters whether an account holds ORACLE yet.                 *)
(*                                                                         *)
(* Operators whose name ends in _M are deliberate mistakes that            *)
(* PROJECT.json puts in the place of the definition that follows.          *)
(***************************************************************************)
EXTENDS Integers, SequencesExt

CONSTANTS
    PaymentIds,
    Paths,           \* router paths, sequences of tokens
    Pairs,           \* pairs the oracle has rates for
    Rates,           \* rates an operator may set: no sign is checked
    Decimals,
    Amounts,         \* what payments ask, and the router quotes and delivers
    AmountsIn,
    Deviations,      \* values of max_deviation_bps
    Thresholds,      \* staleness thresholds
    DefaultThreshold,
    MaxRates,        \* bound: rates set in a run
    MaxTime,         \* bound on the ledger clock
    None             \* an Option that is not set

ASSUME SwapsAssumption ==
    /\ Paths \subseteq Seq(STRING)
    /\ Rates \subseteq Int
    /\ Decimals \subseteq Nat
    /\ Amounts \subseteq Nat \ {0}
    /\ AmountsIn \subseteq Nat \ {0}
    /\ Deviations \subseteq Nat
    /\ Thresholds \subseteq Nat
    /\ DefaultThreshold \in Nat
    /\ MaxRates \in Nat
    /\ MaxTime \in Nat
    /\ None \notin Pairs

VARIABLES
    rates,           \* OracleDataKey::Rate
    threshold,       \* OracleDataKey::StalenessThreshold
    stage,           \* what roles of the oracle are held
    payments,        \* the payments made, with what was given for them
    now,             \* the ledger timestamp
    published        \* history: every rate that was set

vars == <<rates, threshold, stage, payments, now, published>>
oracle == <<rates, threshold, stage, published>>

-----------------------------------------------------------------------------
NoRate == [pair |-> None]
NoPayment == [amount |-> None]

RateData == [pair : Pairs, rate : Rates, decimals : Decimals, updatedAt : Nat]

Bps == 10000

Fresh_Later_M(r) == r.pair # None /\ now <= r.updatedAt + threshold + 1

\* get_rate: the rate is there and not stale.
Fresh(r) == r.pair # None /\ now <= r.updatedAt + threshold

\* The loop that turns the decimals of a rate into its divisor.
Divisor[n \in Nat] == IF n = 0 THEN 1 ELSE 10 * Divisor[n - 1]

\* Rounded down here and towards 0 in the code, which is the same unless the
\* amount is negative, and such a rate is refused either way.
Expected(r, amountIn) == (amountIn * r.rate) \div Divisor[r.decimals]

Distance(a, b) == IF a > b THEN a - b ELSE b - a

\* validate_oracle_swap_rate
CloseToRate(r, amountIn, quoted, deviation) ==
    LET expected == Expected(r, amountIn)
    IN  /\ Fresh(r)
        /\ expected > 0
        /\ (Distance(quoted, expected) * Bps) \div expected <= deviation

\* validate_path_returns, of the path
ValidPath(path, tokenIn) ==
    /\ Len(path) >= 2
    /\ Head(path) = tokenIn
    /\ IsInjective(path)

-----------------------------------------------------------------------------
Init ==
    /\ rates = [pair \in Pairs |-> NoRate]
    /\ threshold = DefaultThreshold
    /\ stage = "absent"
    /\ payments = [p \in PaymentIds |-> NoPayment]
    /\ now = 0
    /\ published = {}

\* At any time, and by anybody, who becomes an admin.
OracleInitialize(t) ==
    /\ threshold' = t
    /\ stage' = IF stage = "absent" THEN "initialized" ELSE stage
    /\ UNCHANGED <<rates, payments, now, published>>

\* Of the role ORACLE.
OracleGrantRole ==
    /\ stage = "initialized"
    /\ stage' = "operated"
    /\ UNCHANGED <<rates, threshold, payments, now, published>>

SetRate(pair, rate, decimals) ==
    LET r == [pair |-> pair, rate |-> rate, decimals |-> decimals, updatedAt |-> now]
    IN  /\ stage = "operated"
        /\ Cardinality(published) < MaxRates
        /\ rates' = [rates EXCEPT ![pair] = r]
        /\ published' = published \cup {r}
        /\ UNCHANGED <<threshold, stage, payments, now>>

SetStalenessThreshold(t) ==
    /\ stage # "absent"
    /\ threshold' = t
    /\ UNCHANGED <<rates, stage, payments, now, published>>

\* The payer asks for at least minimum, the router quotes quoted and then
\* reports that it delivered out.  The oracle is asked about the quote, before the swap.
SwapAndPay(p, amount, amountIn, minimum, path, tokenIn, pair, deviation, quoted, out) ==
    /\ payments[p] = NoPayment
    /\ minimum >= amount
    /\ ValidPath(path, tokenIn)
    /\ quoted >= minimum
    /\ pair # None => CloseToRate(rates[pair], amountIn, quoted, deviation)
    /\ out >= minimum
    /\ out >= quoted
    /\ payments' = [payments EXCEPT ![p] =
           [amount |-> amount, amountIn |-> amountIn, tokenIn |-> tokenIn,
            token |-> Last(path), pair |-> pair, deviation |-> deviation,
            out |-> out, at |-> now, threshold |-> threshold]]
    /\ UNCHANGED <<oracle, now>>

Tick ==
    /\ now < MaxTime
    /\ now' = now + 1
    /\ UNCHANGED <<oracle, payments>>

Next ==
    \/ \E t \in Thresholds : SetStalenessThreshold(t) \/ OracleInitialize(t)
    \/ OracleGrantRole
    \/ \E pair \in Pairs, rate \in Rates, decimals \in Decimals :
          SetRate(pair, rate, decimals)
    \/ \E p \in PaymentIds, amount, minimum, quoted, out \in Amounts,
          amountIn \in AmountsIn, path \in Paths, pair \in Pairs \cup {None},
          deviation \in Deviations :
          \E tokenIn \in ToSet(path) :
             SwapAndPay(p, amount, amountIn, minimum, path, tokenIn, pair,
                        deviation, quoted, out)
    \/ Tick

Spec == Init /\ [][Next]_vars

-----------------------------------------------------------------------------
(* Properties *)

\* A rate that was the last one of its pair at some time up to that of
\* payment s, and no older then than the threshold allowed.
ReferenceRate(r, s) ==
    /\ r.pair = s.pair
    /\ r.updatedAt <= s.at
    /\ s.at <= r.updatedAt + s.threshold
    /\ \A later \in published :
          ~(later.pair = s.pair /\ r.updatedAt < later.updatedAt /\ later.updatedAt < s.at)

\* However rates, thresholds, the clock and payments interleave, a payment
\* made by a swap covers its amount, in another token than the payer gave,
\* and where an oracle was named the output the router reports (nobody looks
\* at a balance) is what the payer's tokens are worth at a rate that was
\* recent and the last of its pair -- up to the deviation the payer allowed,
\* one unit and one basis point, which the two divisions round away.
SwapsSettleAtTheRate ==
    \A p \in PaymentIds : payments[p] # NoPayment =>
        LET s == payments[p]
        IN  /\ s.out >= s.amount
            /\ s.token # s.tokenIn
            /\ s.pair # None => \E r \in published :
                  /\ ReferenceRate(r, s)
                  /\ s.out * Bps * Divisor[r.decimals]
                        > (Bps - s.deviation - 1)
                             * (s.amountIn * r.rate - Divisor[r.decimals])
=============================================================================
