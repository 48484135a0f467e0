------------------------------ MODULE Payments ------------------------------
(***************************************************************************)
(* PaymentProcessor (lib.rs): the life of a payment charge, from its       *)
(* creation by a merchant to its verification by an oracle, its            *)
(* cancellation or expiry, and its settlement; with the merchant's index,  *)
(* the idempotency keys, the creation rate limit, the amount limits and    *)
(* the two pauses.                                                         *)
(*                                                                         *)
(* A handler is one ledger transaction and an error undoes it, so actions  *)
(* are the calls that succeed.  No tokens move here: an oracle reports     *)
(* what arrived at the deposit address.                                    *)
(*                                                                         *)
(* Operators whose name ends in _M are deliberate mistakes that            *)
(* PROJECT.json puts in the place of the definition that follows.          *)
(***************************************************************************)
EXTENDS Integers, Sequences, FiniteSets, FiniteSetsExt

CONSTANTS
    PaymentIds, Merchants,
    ClientKeys,          \* values of client_token
    Tokens,              \* tokens a payment may be in
    DefaultToken,        \* the one a request without token_address means
    Tolerance,           \* Tolerance[k]: the rounding a token's decimals allow
    Amounts,             \* amounts a merchant asks for
    Receipts,            \* amounts an oracle reports
    Durations,           \* seconds from creation to expiry
    LimitChoices,        \* [min, max] limits, either bound possibly None
    None,                \* no key, no bound, no limits, nothing received
    WindowSecs,          \* CREATE_PAYMENT_WINDOW_SECS
    MaxPerWindow,        \* CREATE_PAYMENT_MAX_PER_WINDOW
    MaxBatch,            \* bound on the length of a batch
    MaxTime              \* bound on the ledger clock

ASSUME PaymentsAssumption ==
    /\ Amounts \subseteq Int
    /\ Receipts \subseteq Int
    /\ DefaultToken \in Tokens
    /\ Tolerance \in [Tokens -> Nat]
    /\ Durations \subseteq Nat \ {0}
    /\ LimitChoices \subseteq [min : Int \cup {None}, max : Int \cup {None}]
    /\ None \notin Int /\ None \notin ClientKeys /\ None \notin PaymentIds
    /\ None \notin LimitChoices
    /\ WindowSecs \in Nat \ {0}
    /\ MaxPerWindow \in Nat \ {0}
    /\ MaxBatch \in Nat
    /\ MaxTime \in Nat

VARIABLES
    payment,             \* DataKey::Payment
    merchantPayments,    \* DataKey::MerchantPayments: how often each is listed
    idempotencyKey,      \* DataKey::IdempotencyKey
    rateLimit,           \* DataKey::MerchantRateLimit
    merchantLimits,      \* DataKey::MerchantAmountLimits
    globalLimits,        \* DataKey::GlobalAmountLimits
    allowedTokens,       \* DataKey::AllowedToken
    paused,              \* DataKey::Paused
    creationPaused,      \* DataKey::CreationPaused
    merchantRole,        \* merchants that hold the MERCHANT role
    inStanding,          \* merchants the registry reports verified and active
    now,                 \* the ledger timestamp
    creations            \* history: the times of each merchant's creations

vars == <<payment, merchantPayments, idempotencyKey, rateLimit, merchantLimits,
          globalLimits, allowedTokens, paused, creationPaused, merchantRole,
          inStanding, now, creations>>
settings == <<merchantLimits, globalLimits, allowedTokens, paused,
              creationPaused, merchantRole, inStanding>>
records == <<payment, merchantPayments, idempotencyKey, rateLimit, creations>>

-----------------------------------------------------------------------------
NoPayment == [status |-> "None"]

Statuses == {"Pending", "Confirmed", "Expired", "Failed", "Settled",
             "PartiallyPaid", "Overpaid"}

PaymentCharge ==
    [merchant : Merchants, amount : Nat \ {0}, token : Tokens, status : Statuses,
     createdAt : Nat, expiresAt : Nat, received : Receipts \cup {None},
     confirmedAt : Nat \cup {None}, key : ClientKeys \cup {None}]

CreatePaymentArgs ==
    [id : PaymentIds, merchant : Merchants, amount : Amounts, token : Tokens,
     duration : Durations, key : ClientKeys \cup {None}]

Exists(p) == payment[p].status # "None"

Within(amount, limits) ==
    limits # None =>
        /\ limits.min # None => limits.min =< amount
        /\ limits.max # None => amount =< limits.max

Ordered(limits) ==
    limits.min # None /\ limits.max # None => limits.min =< limits.max

\* enforce_amount_limits: the merchant's limits, even with no bound in them,
\* replace the global ones.
WithinLimits(m, amount) ==
    Within(amount, IF merchantLimits[m] # None THEN merchantLimits[m] ELSE globalLimits)

CountAt_EarlyReset_M(limit, t) == IF t - limit.last >= WindowSecs - 1 THEN 0 ELSE limit.count

\* The count that a creation at time t starts from.
CountAt(limit, t) == IF t - limit.last >= WindowSecs THEN 0 ELSE limit.count

-----------------------------------------------------------------------------
Init ==
    /\ payment = [p \in PaymentIds |-> NoPayment]
    /\ merchantPayments = [m \in Merchants |-> [p \in PaymentIds |-> 0]]
    /\ idempotencyKey = [k \in ClientKeys |-> None]
    /\ rateLimit = [m \in Merchants |-> [last |-> 0, count |-> 0]]
    /\ merchantLimits = [m \in Merchants |-> None]
    /\ globalLimits = None
    /\ allowedTokens = {DefaultToken}           \* needs no allowance
    /\ paused = FALSE
    /\ creationPaused = FALSE
    /\ merchantRole = {}
    /\ inStanding = {}
    /\ now = 0
    /\ creations = [m \in Merchants |-> <<>>]

Acceptable_ZeroAmount_M(a) ==
    /\ a.merchant \in merchantRole \cap inStanding
    /\ a.token \in allowedTokens
    /\ WithinLimits(a.merchant, a.amount)
    /\ ~Exists(a.id)
    /\ a.key # None => idempotencyKey[a.key] = None

Acceptable_AnyKey_M(a) ==
    /\ a.merchant \in merchantRole \cap inStanding
    /\ a.token \in allowedTokens
    /\ a.amount > 0
    /\ WithinLimits(a.merchant, a.amount)
    /\ ~Exists(a.id)

\* What create_payment and create_payments_batch ask of one request.  A key
\* already stored names a payment that exists, so a fresh request needs a key
\* nobody used.
Acceptable(a) ==
    /\ a.merchant \in merchantRole \cap inStanding
    /\ a.token \in allowedTokens
    /\ a.amount > 0
    /\ WithinLimits(a.merchant, a.amount)
    /\ ~Exists(a.id)
    /\ a.key # None => idempotencyKey[a.key] = None

ChargeOf(a) ==
    [merchant |-> a.merchant, amount |-> a.amount, token |-> a.token,
     status |-> "Pending", createdAt |-> now, expiresAt |-> now + a.duration,
     received |-> None, confirmedAt |-> None, key |-> a.key]

\* create_payments_batch: every request is checked against the state before the
\* batch, then all are written in order, so a later one overwrites an earlier
\* one with the same id or the same key.  The rate limit is counted per write.
CreatePaymentsBatch(batch) ==
    LET last(S) == CHOOSE i \in S : \A j \in S : j =< i
        forId(p) == {i \in DOMAIN batch : batch[i].id = p}
        forKey(k) == {i \in DOMAIN batch : batch[i].key = k}
        of(m) == {i \in DOMAIN batch : batch[i].merchant = m}
        count(m) == Cardinality(of(m))
    IN  /\ ~paused /\ ~creationPaused
        /\ \A i \in DOMAIN batch : Acceptable(batch[i])
        /\ \A m \in Merchants :
               count(m) > 0 => CountAt(rateLimit[m], now) + count(m) =< MaxPerWindow
        /\ payment' = [p \in PaymentIds |->
               IF forId(p) # {} THEN ChargeOf(batch[last(forId(p))]) ELSE payment[p]]
        /\ idempotencyKey' = [k \in ClientKeys |->
               IF forKey(k) # {} THEN batch[last(forKey(k))].id ELSE idempotencyKey[k]]
        /\ merchantPayments' = [m \in Merchants |->
               [p \in PaymentIds |->
                   merchantPayments[m][p] + Cardinality(of(m) \cap forId(p))]]
        /\ rateLimit' = [m \in Merchants |->
               IF count(m) > 0
               THEN [last |-> now, count |-> CountAt(rateLimit[m], now) + count(m)]
               ELSE rateLimit[m]]
        /\ creations' = [m \in Merchants |->
               creations[m] \o [i \in 1 .. count(m) |-> now]]
        /\ UNCHANGED <<settings, now>>

\* create_payment, by a merchant or from swap_and_pay, which passes no key.  A
\* repeated request with its own key returns the stored payment: no step.
CreatePayment(a) ==
    LET m == a.merchant
        count == CountAt(rateLimit[m], now)
    IN  /\ ~paused /\ ~creationPaused
        /\ Acceptable(a)
        /\ count < MaxPerWindow
        /\ payment' = [payment EXCEPT ![a.id] = ChargeOf(a)]
        /\ merchantPayments' = [merchantPayments EXCEPT ![m][a.id] = @ + 1]
        /\ idempotencyKey' = [k \in ClientKeys |->
               IF k = a.key THEN a.id ELSE idempotencyKey[k]]
        /\ rateLimit' = [rateLimit EXCEPT ![m] = [last |-> now, count |-> count + 1]]
        /\ creations' = [creations EXCEPT ![m] = Append(@, now)]
        /\ UNCHANGED <<settings, now>>

-----------------------------------------------------------------------------
\* Within the tolerance either way the payment counts as paid in full.
Outcome(diff, tolerance) ==
    IF diff > tolerance THEN "Overpaid"
    ELSE IF diff >= -tolerance THEN "Confirmed"
    ELSE "PartiallyPaid"

VerifyPayment_Late_M(p, received) ==
    /\ ~paused
    /\ payment[p].status = "Pending"
    /\ payment' = [payment EXCEPT
           ![p].status = Outcome(received - payment[p].amount, Tolerance[payment[p].token]),
           ![p].received = received,
           ![p].confirmedAt = now]
    /\ UNCHANGED <<merchantPayments, idempotencyKey, rateLimit, creations, settings, now>>

VerifyPayment_Again_M(p, received) ==
    /\ ~paused
    /\ Exists(p) /\ payment[p].status # "Confirmed"
    /\ now =< payment[p].expiresAt
    /\ payment' = [payment EXCEPT
           ![p].status = Outcome(received - payment[p].amount, Tolerance[payment[p].token]),
           ![p].received = received,
           ![p].confirmedAt = now]
    /\ UNCHANGED <<merchantPayments, idempotencyKey, rateLimit, creations, settings, now>>

\* A report on a Confirmed payment returns its status and changes nothing.
VerifyPayment(p, received) ==
    /\ ~paused
    /\ payment[p].status = "Pending"
    /\ now =< payment[p].expiresAt
    /\ payment' = [payment EXCEPT
           ![p].status = Outcome(received - payment[p].amount, Tolerance[payment[p].token]),
           ![p].received = received,
           ![p].confirmedAt = now]
    /\ UNCHANGED <<merchantPayments, idempotencyKey, rateLimit, creations, settings, now>>

\* By the merchant or an oracle before the expiry, by anyone from then on.
CancelPayment(p) ==
    /\ ~paused
    /\ payment[p].status = "Pending"
    /\ payment' = [payment EXCEPT ![p].status =
           IF now >= payment[p].expiresAt THEN "Expired" ELSE "Failed"]
    /\ UNCHANGED <<merchantPayments, idempotencyKey, rateLimit, creations, settings, now>>

ExpirePayment_Paused_M(p) ==
    /\ ~paused
    /\ payment[p].status = "Pending"
    /\ now > payment[p].expiresAt
    /\ payment' = [payment EXCEPT ![p].status = "Expired"]
    /\ UNCHANGED <<merchantPayments, idempotencyKey, rateLimit, creations, settings, now>>

\* By anyone, paused or not.
ExpirePayment(p) ==
    /\ payment[p].status = "Pending"
    /\ now > payment[p].expiresAt
    /\ payment' = [payment EXCEPT ![p].status = "Expired"]
    /\ UNCHANGED <<merchantPayments, idempotencyKey, rateLimit, creations, settings, now>>

\* The operator's splits are positive and add up to the amount; only the
\* status is stored.
SettlePayment(p, split) ==
    /\ payment[p].status = "Confirmed"
    /\ DOMAIN split # {}
    /\ MapThenSumSet(LAMBDA i : split[i], DOMAIN split) = payment[p].amount
    /\ payment' = [payment EXCEPT ![p].status = "Settled"]
    /\ UNCHANGED <<merchantPayments, idempotencyKey, rateLimit, creations, settings, now>>

-----------------------------------------------------------------------------
SetMerchantAmountLimits(m, limits) ==
    /\ m \in merchantRole
    /\ Ordered(limits)
    /\ merchantLimits' = [merchantLimits EXCEPT ![m] = limits]
    /\ UNCHANGED <<records, now, globalLimits, allowedTokens, paused,
                   creationPaused, merchantRole, inStanding>>

SetGlobalAmountLimits(limits) ==
    /\ Ordered(limits)
    /\ globalLimits' = limits
    /\ UNCHANGED <<records, now, merchantLimits, allowedTokens, paused,
                   creationPaused, merchantRole, inStanding>>

AllowToken(k) ==
    /\ allowedTokens' = allowedTokens \cup {k}    \* no call takes one out
    /\ UNCHANGED <<records, now, merchantLimits, globalLimits, paused,
                   creationPaused, merchantRole, inStanding>>

SetGlobalPause(value) ==
    /\ paused' = value
    /\ UNCHANGED <<records, now, merchantLimits, globalLimits, allowedTokens,
                   creationPaused, merchantRole, inStanding>>

SetCreationPause(value) ==
    /\ creationPaused' = value
    /\ UNCHANGED <<records, now, merchantLimits, globalLimits, allowedTokens,
                   paused, merchantRole, inStanding>>

\* grant_role and revoke_role of MERCHANT.
ChangeMerchantRole(holders) ==
    /\ merchantRole' = holders
    /\ UNCHANGED <<records, now, merchantLimits, globalLimits, allowedTokens,
                   paused, creationPaused, inStanding>>

\* External: the registry's answer about a merchant changes, or the registry
\* address is set, which makes its answers count.
ChangeStanding(merchants) ==
    /\ inStanding' = merchants
    /\ UNCHANGED <<records, now, merchantLimits, globalLimits, allowedTokens,
                   paused, creationPaused, merchantRole>>

Tick ==
    /\ now < MaxTime
    /\ now' = now + 1
    /\ UNCHANGED <<records, settings>>

-----------------------------------------------------------------------------
Next ==
    \/ \E a \in CreatePaymentArgs : CreatePayment(a)
    \/ \E n \in 1 .. MaxBatch : \E batch \in [1 .. n -> CreatePaymentArgs] :
          CreatePaymentsBatch(batch)
    \/ \E p \in PaymentIds :
          \/ \E received \in Receipts : VerifyPayment(p, received)
          \/ CancelPayment(p)
          \/ ExpirePayment(p)
          \/ \E n \in 1 .. 2 : \E split \in [1 .. n -> Amounts \cap (Nat \ {0})] :
                SettlePayment(p, split)
    \/ \E limits \in LimitChoices :
          \/ SetGlobalAmountLimits(limits)
          \/ \E m \in Merchants : SetMerchantAmountLimits(m, limits)
    \/ \E k \in Tokens : AllowToken(k)
    \/ \E value \in BOOLEAN : SetGlobalPause(value) \/ SetCreationPause(value)
    \/ \E S \in SUBSET Merchants : ChangeMerchantRole(S) \/ ChangeStanding(S)
    \/ Tick

Spec == Init /\ [][Next]_vars

\* Time passes, and somebody -- anybody may -- expires what is overdue.
FairSpec == Spec /\ WF_vars(Tick) /\ \A p \in PaymentIds : WF_vars(ExpirePayment(p))
-----------------------------------------------------------------------------
(* Properties *)

Limits == LimitChoices \cup {None}

TypeOK ==
    /\ payment \in [PaymentIds -> PaymentCharge \cup {NoPayment}]
    /\ merchantPayments \in [Merchants -> [PaymentIds -> Nat]]
    /\ idempotencyKey \in [ClientKeys -> PaymentIds \cup {None}]
    /\ rateLimit \in [Merchants -> [last : Nat, count : 0 .. MaxPerWindow]]
    /\ merchantLimits \in [Merchants -> Limits]
    /\ globalLimits \in Limits
    /\ allowedTokens \in SUBSET Tokens
    /\ paused \in BOOLEAN
    /\ creationPaused \in BOOLEAN
    /\ merchantRole \in SUBSET Merchants
    /\ inStanding \in SUBSET Merchants
    /\ now \in Nat
    /\ creations \in [Merchants -> Seq(Nat)]

\* What a status says about the money and the clock stays true for good: a
\* payment that counts as paid in full (settled ones too) received its amount
\* within the token's tolerance and in time, one reported over or under did
\* not, one that failed or expired received nothing.
StatusTruth(p) ==
    LET c == payment[p]
        diff == c.received - c.amount
        tol == Tolerance[c.token]
    IN  /\ c.status \in {"Pending", "Failed", "Expired"} <=> c.received = None
        /\ c.status \in {"Confirmed", "Settled"} => -tol =< diff /\ diff =< tol
        /\ c.status = "Overpaid" => diff > tol
        /\ c.status = "PartiallyPaid" => diff < -tol
        /\ c.received # None =>
               c.createdAt =< c.confirmedAt /\ c.confirmedAt =< c.expiresAt
        /\ c.status = "Expired" => c.expiresAt =< now

StatusIsTrue == \A p \in PaymentIds : Exists(p) => StatusTruth(p)

\* The documented spam limit: no window of WindowSecs seconds holds more than
\* MaxPerWindow creations of one merchant, single or in batches, although the
\* contract keeps only a counter and the time of the last creation.
WindowRespected ==
    \A m \in Merchants : \A i \in DOMAIN creations[m] :
        i + MaxPerWindow \in DOMAIN creations[m] =>
            creations[m][i + MaxPerWindow] - creations[m][i] >= WindowSecs

\* A key answers for good: it names an existing payment, every payment created
\* with a key finds that key stored, and no creation, single or in a batch, ever
\* makes a key in use name another payment.
KeysAnswer ==
    [][/\ \A p \in PaymentIds :
              Exists(p)' /\ payment'[p].key # None => idempotencyKey'[payment'[p].key] # None
       /\ \A k \in ClientKeys : idempotencyKey[k] # None =>
              /\ Exists(idempotencyKey[k])
              /\ idempotencyKey'[k] = idempotencyKey[k]]_vars

\* The life of a payment: what was agreed at its creation never changes, a
\* report is final, and only a Confirmed payment is settled.  "When paused,
\* create_payment, verify_payment, and cancel_payment are blocked": a paused
\* processor lets payments only expire or settle.
LifeCycle ==
    [][/\ \A p \in PaymentIds : Exists(p) =>
              LET c == payment[p]
                  d == payment'[p]
              IN  /\ <<d.merchant, d.amount, d.token, d.createdAt, d.expiresAt, d.key>>
                         = <<c.merchant, c.amount, c.token, c.createdAt, c.expiresAt, c.key>>
                  /\ c.status # "Pending" =>
                         \/ d = c
                         \/ c.status = "Confirmed" /\ d = [c EXCEPT !.status = "Settled"]
                  /\ c.status = "Pending" => d.status # "Settled"
       /\ paused => \A p \in PaymentIds :
              payment'[p].status \in {payment[p].status, "Expired", "Settled"}]_vars

\* Nothing keeps a payment open for good, no pause, no limit and no role that
\* is taken away: one whose time comes within the run is decided in the end.
Overdue(p) == Exists(p) /\ payment[p].status = "Pending" /\ payment[p].expiresAt < MaxTime

PendingEnds == \A p \in PaymentIds : Overdue(p) ~> ~Overdue(p)
=============================================================================
