--------------------------- MODULE Subscriptions ---------------------------
(***************************************************************************)
(* Subscriptions of RefundManager (lib.rs): a payer subscribes to a        *)
(* merchant's plan, and an operator charges the subscription once per      *)
(* interval until a cap is reached or the payer cancels.  Payers pause,    *)
(* for good or until a date, and resume; nothing happens at that date by   *)
(* itself, the next charge notices it.                                     *)
(*                                                                         *)
(* A call is one transaction.  charge_subscription swallows failures of    *)
(* its transfers, but answers a failed pull with an error, and an error    *)
(* undoes everything the call stored (Stored).                             *)
(*                                                                         *)
(* Plans never hold payout splits: no call stores any.                     *)
(*                                                                         *)
(* Operators whose name ends in _M are deliberate mistakes that            *)
(* PROJECT.json puts in the place of the definition that follows.          *)
(***************************************************************************)
EXTENDS Integers, Sequences

CONSTANTS
    Plans,           \* caller-supplied plan identifiers
    Merchants,       \* accounts that offer plans
    Payers,          \* accounts that subscribe
    Amounts,         \* prices of plans
    Metered,         \* units times price that an operator may report
    Intervals,       \* lengths of the billing intervals
    Fees,            \* basis points a subscriber may name for an affiliate
    Caps,            \* max_payments a subscriber may name
    Balances,        \* what the contract may hold for others to begin with
    MaxRetries,      \* SUBSCRIPTION_MAX_RETRIES
    RetryInterval,   \* SUBSCRIPTION_RETRY_INTERVAL_SECS
    MaxSubs,         \* bound on the subscription counter
    MaxTime,         \* bound on the ledger clock
    None             \* no value

ASSUME SubscriptionsAssumption ==
    /\ Amounts \subseteq Nat \ {0}
    /\ Metered \subseteq Nat \ {0}
    /\ Intervals \subseteq Nat \ {0}
    /\ Fees \subseteq Nat
    /\ Caps \subseteq Nat
    /\ Balances \subseteq Nat
    /\ MaxRetries \in Nat \ {0}
    /\ RetryInterval \in Nat
    /\ MaxSubs \in Nat
    /\ MaxTime \in Nat
    /\ None \notin Nat

VARIABLES
    plan,            \* DataKey::SubscriptionPlan
    subscription,    \* DataKey::Subscription
    counter,         \* DataKey::SubscriptionCounter
    payerSubs,       \* DataKey::PayerSubscriptions
    held,            \* the contract's balance of the token
    now,             \* the ledger timestamp
    charges,         \* history: the times of the successful charges
    leaps            \* history: resumes that moved the next payment back

vars == <<plan, subscription, counter, payerSubs, held, now, charges, leaps>>
rest == <<plan, counter, payerSubs, now>>
histories == <<charges, leaps>>

-----------------------------------------------------------------------------
SubscriptionIds == 1 .. MaxSubs
NoPlan == [active |-> FALSE]
NoSubscription == [status |-> "None"]

SubscriptionPlan ==
    [merchant : Merchants, amount : Nat \ {0}, intervalSecs : Nat \ {0},
     active : BOOLEAN]

Subscription ==
    [merchant : Merchants, payer : Payers, amount : Nat \ {0},
     intervalSecs : Nat \ {0}, nextPaymentAt : Nat,
     status : {"Active", "Paused", "Cancelled", "Expired"}, createdAt : Nat,
     totalPayments : Nat, maxPayments : Nat \cup {None}, retryCount : Nat,
     nextRetryAt : Nat \cup {None}, resumeAt : Nat \cup {None},
     affiliateFeeBps : Nat \cup {None}]

Exists(s) == subscription[s].status # "None"
Status(s) == subscription[s].status

Greater(a, b) == IF a >= b THEN a ELSE b

-----------------------------------------------------------------------------
Init ==
    /\ plan = [q \in Plans |-> NoPlan]
    /\ subscription = [s \in SubscriptionIds |-> NoSubscription]
    /\ counter = 0
    /\ payerSubs = [a \in Payers |-> <<>>]
    /\ held \in Balances
    /\ now = 0
    /\ charges = [s \in SubscriptionIds |-> <<>>]
    /\ leaps = [s \in SubscriptionIds |-> 0]

\* No check that the identifier is free: a plan is replaced, whoever owns it.
CreateSubscriptionPlan(q, m, amount, interval) ==
    /\ plan' = [plan EXCEPT ![q] =
           [merchant |-> m, amount |-> amount, intervalSecs |-> interval,
            active |-> TRUE]]
    /\ UNCHANGED <<subscription, counter, payerSubs, held, now, histories>>

DeactivateSubscriptionPlan(q) ==
    /\ plan[q] # NoPlan
    /\ plan' = [plan EXCEPT ![q].active = FALSE]
    /\ UNCHANGED <<subscription, counter, payerSubs, held, now, histories>>

\* An affiliate without basis points, or the reverse, is no affiliate.
Subscribe(a, q, cap, fee) ==
    /\ plan[q].active
    /\ counter < MaxSubs
    /\ counter' = counter + 1
    /\ subscription' = [subscription EXCEPT ![counter + 1] =
           [merchant |-> plan[q].merchant, payer |-> a, amount |-> plan[q].amount,
            intervalSecs |-> plan[q].intervalSecs,
            nextPaymentAt |-> now + plan[q].intervalSecs,
            status |-> "Active", createdAt |-> now,
            totalPayments |-> 0, maxPayments |-> cap, retryCount |-> 0,
            nextRetryAt |-> None, resumeAt |-> None, affiliateFeeBps |-> fee]]
    /\ payerSubs' = [payerSubs EXCEPT ![a] = Append(@, counter + 1)]
    /\ UNCHANGED <<plan, held, now, histories>>

\* Keeps a resume date that an earlier pause may have left.
PauseSubscription(s) ==
    /\ Status(s) = "Active"
    /\ subscription' = [subscription EXCEPT ![s].status = "Paused"]
    /\ UNCHANGED <<rest, held, histories>>

PauseSubscriptionWithResumeDate(s, date) ==
    /\ date > now
    /\ Status(s) = "Active"
    /\ subscription' = [subscription EXCEPT ![s].status = "Paused",
                                            ![s].resumeAt = date]
    /\ UNCHANGED <<rest, held, histories>>

\* Leaves the resume date where it is.
ResumeSubscription(s) ==
    /\ Status(s) = "Paused"
    /\ subscription' = [subscription EXCEPT ![s].status = "Active",
           ![s].nextPaymentAt = now + subscription[s].intervalSecs]
    /\ UNCHANGED <<rest, held, histories>>

\* Whatever the status is.
CancelSubscription(s) ==
    /\ Exists(s)
    /\ subscription' = [subscription EXCEPT ![s].status = "Cancelled"]
    /\ UNCHANGED <<rest, held, histories>>

-----------------------------------------------------------------------------
(* charge_subscription *)

\* The record once a pause whose date has come is over.
Resumed(r) ==
    IF r.status = "Paused" /\ r.resumeAt # None /\ now >= r.resumeAt
    THEN [r EXCEPT !.status = "Active", !.resumeAt = None,
                   !.nextPaymentAt = r.resumeAt + r.intervalSecs]
    ELSE r

DueAt(r) == IF r.nextRetryAt # None THEN r.nextRetryAt ELSE r.nextPaymentAt

Chargeable_Paused_M(r) == r.status # "Cancelled" /\ now >= DueAt(r)
Chargeable(r) == r.status = "Active" /\ now >= DueAt(r)

Charged_FromDue_M(r) ==
    LET total == r.totalPayments + 1
    IN  [r EXCEPT !.totalPayments = total,
                  !.retryCount = 0,
                  !.nextRetryAt = None,
                  !.nextPaymentAt = r.nextPaymentAt + r.intervalSecs,
                  !.status = IF r.maxPayments # None /\ total >= r.maxPayments
                             THEN "Expired" ELSE @]

Charged_OffByOne_M(r) ==
    LET total == r.totalPayments + 1
    IN  [r EXCEPT !.totalPayments = total,
                  !.retryCount = 0,
                  !.nextRetryAt = None,
                  !.nextPaymentAt = now + r.intervalSecs,
                  !.status = IF r.maxPayments # None /\ total > r.maxPayments
                             THEN "Expired" ELSE @]

\* The record after a payment: the next one is an interval from now, not from
\* when this one was due.
Charged(r) ==
    LET total == r.totalPayments + 1
    IN  [r EXCEPT !.totalPayments = total,
                  !.retryCount = 0,
                  !.nextRetryAt = None,
                  !.nextPaymentAt = now + r.intervalSecs,
                  !.status = IF r.maxPayments # None /\ total >= r.maxPayments
                             THEN "Expired" ELSE @]

\* The record after a failed pull: a retry later, or the end.
Failed(r) ==
    LET count == r.retryCount + 1
    IN  IF count >= MaxRetries
        THEN [r EXCEPT !.retryCount = count, !.status = "Cancelled",
                       !.nextRetryAt = None]
        ELSE [r EXCEPT !.retryCount = count,
                       !.nextRetryAt = now + RetryInterval]

\* What a call that returned Ok, or an error, leaves of the record it stored.
Stored(s, r, ok) ==
    IF ok THEN [subscription EXCEPT ![s] = r] ELSE subscription

Fee(r) == (r.amount * r.affiliateFeeBps) \div 10000

Sendable_Overdrawn_M(amount, balance) == IF 0 =< amount THEN {0, amount} ELSE {0}

\* Sending amount out of a balance: what may have left.  A negative amount or
\* one the balance does not cover is refused, others may be.
Sendable(amount, balance) ==
    IF 0 =< amount /\ amount =< balance THEN {0, amount} ELSE {0}

Distributed_Whole_M(r, balance) ==
    IF r.affiliateFeeBps = None
    THEN Sendable(r.amount, balance)
    ELSE UNION {{f + x : x \in Sendable(r.amount, balance - f)} :
                    f \in Sendable(Fee(r), balance)}

\* The affiliate's fee and then the merchant's rest, each of which may fail.
Distributed(r, balance) ==
    IF r.affiliateFeeBps = None
    THEN Sendable(r.amount, balance)
    ELSE UNION {{f + x : x \in Sendable(r.amount - Fee(r), balance - f)} :
                    f \in Sendable(Fee(r), balance)}

\* The three outcomes of a charge of the record given.
Charge(s, given) ==
    LET r == Resumed(given)
        moved == r.nextPaymentAt < given.nextPaymentAt
    IN  \/ /\ ~Chargeable(r)
           /\ subscription' = Stored(s, r, TRUE)
           /\ leaps' = [leaps EXCEPT ![s] = IF moved THEN @ + 1 ELSE @]
           /\ UNCHANGED <<rest, held, charges>>
        \/ /\ Chargeable(r)
           /\ subscription' = Stored(s, Charged(r), TRUE)
           /\ \E sent \in Distributed(r, held + r.amount) :
                 held' = held + r.amount - sent
           /\ charges' = [charges EXCEPT ![s] = Append(@, now)]
           /\ leaps' = [leaps EXCEPT ![s] = IF moved THEN @ + 1 ELSE @]
           /\ UNCHANGED rest
        \/ /\ Chargeable(r)
           /\ subscription' = Stored(s, Failed(r), FALSE)
           /\ UNCHANGED <<rest, held, histories>>

ChargeSubscription(s) ==
    /\ Exists(s)
    /\ Charge(s, subscription[s])

\* The metered amount replaces the price, then the subscription is charged.
SubmitUsageMetrics(s, metered) ==
    /\ Exists(s)
    /\ Charge(s, [subscription[s] EXCEPT !.amount = metered])

Tick ==
    /\ now < MaxTime
    /\ now' = now + 1
    /\ UNCHANGED <<plan, subscription, counter, payerSubs, held, histories>>

Next ==
    \/ \E q \in Plans :
          \/ \E m \in Merchants, amount \in Amounts, interval \in Intervals :
                CreateSubscriptionPlan(q, m, amount, interval)
          \/ DeactivateSubscriptionPlan(q)
          \/ \E a \in Payers, cap \in Caps \cup {None}, fee \in Fees \cup {None} :
                Subscribe(a, q, cap, fee)
    \/ \E s \in SubscriptionIds :
          \/ PauseSubscription(s)
          \/ \E date \in 0 .. MaxTime : PauseSubscriptionWithResumeDate(s, date)
          \/ ResumeSubscription(s)
          \/ CancelSubscription(s)
          \/ ChargeSubscription(s)
          \/ \E metered \in Metered : SubmitUsageMetrics(s, metered)
    \/ Tick

Spec == Init /\ [][Next]_vars
-----------------------------------------------------------------------------
(* Properties *)

\* Every stored value has its type.
TypeOK ==
    /\ plan \in [Plans -> SubscriptionPlan \cup {NoPlan}]
    /\ subscription \in [SubscriptionIds -> Subscription \cup {NoSubscription}]
    /\ counter \in 0 .. MaxSubs
    /\ payerSubs \in [Payers -> Seq(SubscriptionIds)]
    /\ held \in Nat
    /\ now \in Nat
    /\ charges \in [SubscriptionIds -> Seq(Nat)]
    /\ leaps \in [SubscriptionIds -> Nat]

\* When the k-th charge was, the 0-th being the subscription itself.
ChargeTime(s, k) == IF k = 0 THEN subscription[s].createdAt ELSE charges[s][k]

\* However a payer pauses, resumes and sets dates, and whenever operators
\* charge: between any two charges lie as many intervals as charges, less one
\* for each time a resume date left by an earlier pause moved the next payment
\* back (charge_subscription, its automatic resume).  Retries do not come in
\* between: a failed charge is undone as a whole, so none is ever scheduled.
ChargesPaced ==
    \A s \in SubscriptionIds :
        /\ Exists(s) => subscription[s].nextRetryAt = None
        /\ \A j \in 1 .. Len(charges[s]) : \A i \in 0 .. j - 1 :
              (j - i - leaps[s]) * subscription[s].intervalSecs
                  =< charges[s][j] - ChargeTime(s, i)

\* A subscription is charged at most as often as its cap says (a cap of 0
\* still allows one payment), and ends as Expired exactly by reaching it.
CapHolds ==
    \A s \in SubscriptionIds : Exists(s) =>
        LET r == subscription[s]
            capped == r.maxPayments # None
        IN  /\ r.totalPayments = Len(charges[s])
            /\ capped => r.totalPayments =< Greater(r.maxPayments, 1)
            /\ r.status = "Expired" => capped /\ r.totalPayments >= r.maxPayments
            /\ r.status \in {"Active", "Paused"} /\ capped =>
                  r.totalPayments = 0 \/ r.totalPayments < r.maxPayments

\* A subscription that was cancelled or has expired is never charged and never
\* runs again, and neither a new plan under the old identifier nor a change of
\* the plan reaches the parties and the interval of an existing subscription.
LifeCycle ==
    [][\A s \in SubscriptionIds : Exists(s) =>
          /\ Status(s) \in {"Cancelled", "Expired"} =>
                /\ charges'[s] = charges[s]
                /\ subscription'[s].status \in {"Cancelled", Status(s)}
          /\ subscription'[s].merchant = subscription[s].merchant
          /\ subscription'[s].payer = subscription[s].payer
          /\ subscription'[s].intervalSecs = subscription[s].intervalSecs
          /\ subscription'[s].maxPayments = subscription[s].maxPayments]_vars

\* A charge is paid out of itself: whatever part of its distribution fails,
\* what the contract holds for others falls only for an affiliate that was
\* promised more than the payment.
PaidFromTheCharge ==
    [][held' < held => \E s \in SubscriptionIds :
          /\ charges'[s] # charges[s]
          /\ subscription[s].affiliateFeeBps # None
          /\ subscription[s].affiliateFeeBps > 10000]_vars
=============================================================================
