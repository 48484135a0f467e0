------------------------ MODULE MerchantAuth_proofs ------------------------
(***************************************************************************)
(* Theorems about MerchantAuth.  What a merchant has pulled is bounded by  *)
(* an argument about one record: its period stays on the grid that starts  *)
(* with the grant, and every period before the current one gave at most    *)
(* the limit.  The refinement of Allowance compares, for one record, the   *)
(* lazy roll-over with the budget refilled second by second.               *)
(***************************************************************************)
EXTENDS MerchantAuth, TLAPS

LEMMA ConstantFacts ==
  /\ \A limit \in Limits : limit \in Int
  /\ \A period \in Periods : period \in Nat
  /\ \A amount \in Amounts : amount \in Int
BY MerchantAuthAssumption

-----------------------------------------------------------------------------
(* Quotients and remainders *)

LEMMA DivMod ==
  ASSUME NEW a \in Nat, NEW b \in Nat \ {0}
  PROVE  /\ a \div b \in Nat
         /\ a % b \in Nat
         /\ a % b < b
         /\ a = b * (a \div b) + (a % b)
BY SMT

LEMMA ModUnique ==
  ASSUME NEW b \in Nat \ {0}, NEW q \in Int, NEW x \in Nat, x < b,
         NEW a \in Int, a = b * q + x
  PROVE  a % b = x
BY SMT

LEMMA ModSmall ==
  ASSUME NEW b \in Nat \ {0}, NEW x \in Nat, x < b
  PROVE  x % b = x
BY SMT

LEMMA ProductGrows ==
  ASSUME NEW a \in Nat, NEW m \in Int, NEW n \in Int, m =< n
  PROVE  a * m =< a * n
BY SMT

LEMMA DivAtLeast ==
  ASSUME NEW a \in Nat, NEW b \in Nat \ {0}, NEW q \in Nat, b * q =< a
  PROVE  q =< a \div b
BY SMT

LEMMA NextPeriod ==
  ASSUME NEW a \in Int, NEW m \in Int, NEW k \in Int
  PROVE  a * m + a * k = a * (m + k)
BY SMT

-----------------------------------------------------------------------------
(* One record *)

\* An authorization r under which g tokens were pulled up to time t.
Grounded(r, g, t) ==
    /\ r \in MerchantAuthorization
    /\ g \in Nat
    /\ t \in Nat
    /\ r.periodStart =< t
    /\ r.pulledThisPeriod =< r.limitPerPeriod
    /\ \E m \in Nat :
          /\ r.periodStart = r.createdAt + r.periodSecs * m
          /\ g =< r.limitPerPeriod * m + r.pulledThisPeriod

LEMMA FieldTypes ==
  ASSUME NEW r \in MerchantAuthorization
  PROVE  /\ r.limitPerPeriod \in Nat \ {0}
         /\ r.periodSecs \in Nat \ {0}
         /\ r.periodStart \in Nat
         /\ r.pulledThisPeriod \in Nat
         /\ r.active \in BOOLEAN
         /\ r.createdAt \in Nat
BY DEF MerchantAuthorization

\* The time since the period began is a number of whole periods, and the
\* time into the period at hand.
LEMMA RollOver ==
  ASSUME NEW r \in MerchantAuthorization, NEW t \in Nat, r.periodStart =< t
  PROVE  LET c == CurrentPeriod(r, t)
         IN  /\ c \in MerchantAuthorization
             /\ c.limitPerPeriod = r.limitPerPeriod
             /\ c.periodSecs = r.periodSecs
             /\ c.active = r.active
             /\ c.createdAt = r.createdAt
             /\ c.pulledThisPeriod = IF RolledOver(r, t) THEN 0 ELSE r.pulledThisPeriod
             /\ c.periodStart =< t
             /\ t - c.periodStart < c.periodSecs
             /\ t - c.periodStart = (t - r.periodStart) % r.periodSecs
             /\ \E k \in Nat : /\ c.periodStart = r.periodStart + r.periodSecs * k
                               /\ RolledOver(r, t) => k >= 1
                               /\ ~RolledOver(r, t) => k = 0
<1> DEFINE P == r.periodSecs
           d == t - r.periodStart
           c == CurrentPeriod(r, t)
<1>1. P \in Nat \ {0} /\ d \in Nat /\ r.periodStart \in Nat /\ (d >= P <=> RolledOver(r, t))
  BY FieldTypes DEF RolledOver
<1>2. CASE RolledOver(r, t)
  <2> DEFINE k == d \div P
             v == r.periodStart + k * P
  <2>1. c = [r EXCEPT !.periodStart = v, !.pulledThisPeriod = 0]
    BY <1>2, Zenon DEF CurrentPeriod
  <2> HIDE DEF P, d, c
  <2>2. k \in Nat /\ d % P \in Nat /\ d % P < P /\ d = P * k + (d % P)
    BY <1>1, DivMod
  <2>3. k >= 1
    <3>1. P * 1 =< d
      BY <1>1, <1>2
    <3>2. QED
      BY <3>1, <1>1, DivAtLeast
  <2> HIDE DEF k
  <2>4. k * P = P * k /\ P * k \in Nat
    BY <1>1, <2>2
  <2>5. v \in Nat /\ v = r.periodStart + P * k
    BY <1>1, <2>4
  <2>6. t - v = d % P /\ v =< t
    BY <1>1, <2>2, <2>4, <2>5 DEF d
  <2> HIDE DEF v
  <2>7. /\ c \in MerchantAuthorization
        /\ c.limitPerPeriod = r.limitPerPeriod
        /\ c.periodSecs = r.periodSecs
        /\ c.active = r.active
        /\ c.createdAt = r.createdAt
        /\ c.periodStart = v
        /\ c.pulledThisPeriod = 0
    <3>1. v \in Nat
      BY <2>5
    <3>2. QED
      BY <2>1, <3>1 DEF MerchantAuthorization
  <2>8. c.periodSecs = P
    BY <2>7 DEF P
  <2>9. t - c.periodStart < c.periodSecs
    BY <2>2, <2>6, <2>7, <2>8
  <2>10. \E j \in Nat : /\ c.periodStart = r.periodStart + P * j
                        /\ RolledOver(r, t) => j >= 1
                        /\ ~RolledOver(r, t) => j = 0
    BY <1>2, <2>2, <2>3, <2>5, <2>7
  <2>11. c.periodStart =< t /\ t - c.periodStart = d % P
    BY <2>6, <2>7
  <2>12. c.pulledThisPeriod = IF RolledOver(r, t) THEN 0 ELSE r.pulledThisPeriod
    BY <1>2, <2>7
  <2>13. QED
    BY <2>7, <2>9, <2>10, <2>11, <2>12 DEF c, P, d
<1>3. CASE ~RolledOver(r, t)
  <2>1. c = r
    BY <1>3 DEF CurrentPeriod
  <2>2. d < P /\ d % P = d
    <3> HIDE DEF P, d
    <3>1. QED
      BY <1>1, <1>3, ModSmall
  <2>3. r.periodStart = r.periodStart + P * 0 /\ 0 \in Nat
    BY <1>1
  <2> HIDE DEF c
  <2>4. QED
    BY <1>3, <2>1, <2>2, <2>3 DEF c
<1>4. QED
  BY <1>2, <1>3

LEMMA GroundedRollOver ==
  ASSUME NEW r, NEW g, NEW t, Grounded(r, g, t)
  PROVE  Grounded(CurrentPeriod(r, t), g, t)
<1> DEFINE P == r.periodSecs
           L == r.limitPerPeriod
           c == CurrentPeriod(r, t)
<1>1. /\ r \in MerchantAuthorization /\ g \in Nat /\ t \in Nat
      /\ r.periodStart =< t /\ r.pulledThisPeriod =< L
  BY DEF Grounded
<1>2. /\ P \in Nat \ {0} /\ L \in Nat \ {0} /\ r.createdAt \in Nat
      /\ r.pulledThisPeriod \in Nat
  BY <1>1, FieldTypes
<1>3. PICK m \in Nat : /\ r.periodStart = r.createdAt + P * m
                       /\ g =< L * m + r.pulledThisPeriod
  BY DEF Grounded
<1>4. c \in MerchantAuthorization /\ c.periodStart =< t
  BY <1>1, RollOver
<1>5. PICK k \in Nat : /\ c.periodStart = r.periodStart + P * k
                       /\ RolledOver(r, t) => k >= 1
                       /\ ~RolledOver(r, t) => k = 0
  BY <1>1, RollOver
<1>6. /\ c.limitPerPeriod = L /\ c.periodSecs = P /\ c.createdAt = r.createdAt
      /\ c.pulledThisPeriod = IF RolledOver(r, t) THEN 0 ELSE r.pulledThisPeriod
  BY <1>1, RollOver
<1> HIDE DEF P, L, c
<1>7. c.periodStart = c.createdAt + P * (m + k)
  <2>1. P * m + P * k = P * (m + k)
    BY <1>2, NextPeriod
  <2>2. P * m \in Int /\ P * k \in Int
    BY <1>2
  <2>3. QED
    BY <1>2, <1>3, <1>5, <1>6, <2>1, <2>2
<1>8. g =< L * (m + k) + c.pulledThisPeriod
  <2>1. L * m + L * k = L * (m + k) /\ L * m \in Int /\ L * k \in Int
    BY <1>2, NextPeriod
  <2>2. CASE RolledOver(r, t)
    <3>1. L * 1 =< L * k
      BY <1>2, <1>5, <2>2, ProductGrows
    <3>2. QED
      BY <1>1, <1>2, <1>3, <1>6, <2>1, <2>2, <3>1
  <2>3. CASE ~RolledOver(r, t)
    BY <1>2, <1>3, <1>5, <1>6, <2>1, <2>3
  <2>4. QED
    BY <2>2, <2>3
<1>9. c.pulledThisPeriod =< c.limitPerPeriod
  BY <1>1, <1>2, <1>6
<1>10. m + k \in Nat
  OBVIOUS
<1>11. Grounded(c, g, t)
  <2> DEFINE n == m + k
  <2>1. /\ n \in Nat /\ c.periodStart = c.createdAt + c.periodSecs * n
        /\ g =< c.limitPerPeriod * n + c.pulledThisPeriod
    BY <1>6, <1>7, <1>8, <1>10
  <2> HIDE DEF n
  <2>2. QED
    BY <1>1, <1>4, <1>9, <2>1 DEF Grounded
<1>12. QED
  BY <1>11 DEF c

LEMMA GroundedPull ==
  ASSUME NEW r, NEW g, NEW t, Grounded(r, g, t), NEW a \in Nat,
         a =< r.limitPerPeriod - r.pulledThisPeriod,
         NEW u, u = [r EXCEPT !.pulledThisPeriod = @ + a]
  PROVE  Grounded(u, g + a, t)
<1>1. r \in MerchantAuthorization /\ g \in Nat /\ t \in Nat /\ r.periodStart =< t
  BY DEF Grounded
<1>2. r.pulledThisPeriod \in Nat /\ r.limitPerPeriod \in Nat
  BY <1>1, FieldTypes
<1>3. PICK m \in Nat : /\ r.periodStart = r.createdAt + r.periodSecs * m
                       /\ g =< r.limitPerPeriod * m + r.pulledThisPeriod
  BY DEF Grounded
<1>4. /\ u.pulledThisPeriod = r.pulledThisPeriod + a
      /\ u.limitPerPeriod = r.limitPerPeriod
      /\ u.periodSecs = r.periodSecs
      /\ u.periodStart = r.periodStart
      /\ u.createdAt = r.createdAt
  BY <1>1 DEF MerchantAuthorization
<1>5. u \in MerchantAuthorization
  BY <1>1, <1>2 DEF MerchantAuthorization
<1>6. r.limitPerPeriod * m \in Int
  BY <1>2
<1>7. g + a =< u.limitPerPeriod * m + u.pulledThisPeriod
  BY <1>1, <1>2, <1>3, <1>4, <1>6
<1>8. u.pulledThisPeriod =< u.limitPerPeriod
  BY <1>2, <1>4
<1>9. u.periodStart = u.createdAt + u.periodSecs * m /\ u.periodStart =< t
  BY <1>1, <1>3, <1>4
<1>10. QED
  BY <1>1, <1>5, <1>7, <1>8, <1>9 DEF Grounded

LEMMA GroundedLater ==
  ASSUME NEW r, NEW g, NEW t, NEW u \in Nat, Grounded(r, g, t), t =< u
  PROVE  Grounded(r, g, u)
<1>1. r.periodStart \in Nat /\ t \in Nat /\ r.periodStart =< t
  BY FieldTypes DEF Grounded
<1>2. r.periodStart =< u
  BY <1>1
<1>3. QED
  BY <1>2 DEF Grounded

LEMMA GroundedBound ==
  ASSUME NEW r, NEW g, NEW t, Grounded(r, g, t)
  PROVE  g =< r.limitPerPeriod * ((t - r.createdAt) \div r.periodSecs + 1)
<1> DEFINE P == r.periodSecs
           L == r.limitPerPeriod
           d == t - r.createdAt
<1>1. /\ r \in MerchantAuthorization /\ g \in Nat /\ t \in Nat
      /\ r.periodStart =< t /\ r.pulledThisPeriod =< L
  BY DEF Grounded
<1>2. /\ P \in Nat \ {0} /\ L \in Nat \ {0} /\ r.createdAt \in Nat
      /\ r.pulledThisPeriod \in Nat /\ r.periodStart \in Nat
  BY <1>1, FieldTypes
<1>3. PICK m \in Nat : /\ r.periodStart = r.createdAt + P * m
                       /\ g =< L * m + r.pulledThisPeriod
  BY DEF Grounded
<1> HIDE DEF P, L
<1>4. P * m =< d /\ d \in Nat
  <2>1. P * m \in Nat
    BY <1>2
  <2>2. QED
    BY <2>1, <1>1, <1>2, <1>3
<1>5. m =< d \div P /\ d \div P \in Nat
  <2> HIDE DEF d
  <2>1. QED
    BY <1>2, <1>4, DivAtLeast, DivMod
<1> HIDE DEF d
<1>6. L * (m + 1) =< L * (d \div P + 1)
  <2>1. m + 1 =< d \div P + 1
    BY <1>5
  <2>2. m + 1 \in Int /\ d \div P + 1 \in Int /\ L \in Nat
    BY <1>2, <1>5
  <2>3. QED
    BY <2>1, <2>2, ProductGrows
<1>7. L * m + L = L * (m + 1) /\ L * m \in Int
  BY <1>2
<1>8. L * (d \div P + 1) \in Int
  BY <1>2, <1>5
<1>9. g =< L * (d \div P + 1)
  BY <1>1, <1>2, <1>3, <1>6, <1>7, <1>8
<1>10. QED
  BY <1>9 DEF P, L, d

-----------------------------------------------------------------------------
(* The invariant *)

\* Every authorization in force is grounded, and every stored value typed.
Inv ==
    /\ authorization \in [Pairs -> MerchantAuthorization \cup {NoAuthorization}]
    /\ now \in Nat
    /\ pulled \in [Pairs -> Nat]
    /\ \A p \in Pairs : Active(p) => Grounded(authorization[p], pulled[p], now)

LEMMA InvInit == Init => Inv
BY Zenon, SMT DEF Init, Inv, Active, NoAuthorization

\* An authorization whose terms and pulls are set to r and g.
LEMMA InvSet ==
  ASSUME Inv, NEW p \in Pairs, NEW r \in MerchantAuthorization, NEW g \in Nat,
         r.active => Grounded(r, g, now),
         authorization' = [authorization EXCEPT ![p] = r],
         pulled' = [pulled EXCEPT ![p] = g],
         now' = now
  PROVE  Inv'
<1>1. authorization' \in [Pairs -> MerchantAuthorization \cup {NoAuthorization}]
  BY DEF Inv
<1>2. pulled' \in [Pairs -> Nat] /\ now' \in Nat
  BY DEF Inv
<1>3. ASSUME NEW q \in Pairs, Active(q)'
      PROVE  Grounded(authorization[q], pulled[q], now)'
  <2>1. CASE q = p
    <3>1. authorization'[q] = r /\ pulled'[q] = g
      BY <2>1 DEF Inv
    <3>2. QED
      BY <1>3, <3>1 DEF Active
  <2>2. CASE q # p
    <3>1. authorization'[q] = authorization[q] /\ pulled'[q] = pulled[q]
      BY <2>2 DEF Inv
    <3>2. QED
      BY <1>3, <3>1 DEF Inv, Active
  <2>3. QED
    BY <2>1, <2>2
<1>4. QED
  BY <1>1, <1>2, <1>3 DEF Inv

\* What an authorization in force looks like.
LEMMA InForce ==
  ASSUME Inv, NEW p \in Pairs, Active(p)
  PROVE  /\ authorization[p] \in MerchantAuthorization
         /\ Grounded(authorization[p], pulled[p], now)
BY DEF Inv, Grounded

\* A new grant.
LEMMA InvGrant ==
  ASSUME Inv, NEW p \in Pairs, NEW limit \in Limits, NEW period \in Periods,
         PreAuthorizeMerchant(p, limit, period)
  PROVE  Inv'
<1> DEFINE r == [limitPerPeriod |-> limit, periodSecs |-> period, periodStart |-> now,
                 pulledThisPeriod |-> 0, active |-> TRUE, createdAt |-> now]
<1>1. limit \in Nat \ {0} /\ period \in Nat \ {0} /\ now \in Nat
  BY ConstantFacts DEF PreAuthorizeMerchant, Inv
<1>2. r \in MerchantAuthorization
  BY <1>1 DEF MerchantAuthorization
<1>3. /\ r.limitPerPeriod = limit /\ r.periodSecs = period /\ r.periodStart = now
      /\ r.pulledThisPeriod = 0 /\ r.createdAt = now
  OBVIOUS
<1>4. authorization' = [authorization EXCEPT ![p] = r]
  BY DEF PreAuthorizeMerchant
<1> HIDE DEF r
<1>5. r.periodStart = r.createdAt + r.periodSecs * 0
      /\ 0 =< r.limitPerPeriod * 0 + r.pulledThisPeriod
  BY <1>1, <1>3
<1>6. Grounded(r, 0, now)
  BY <1>1, <1>2, <1>3, <1>5 DEF Grounded
<1>7. pulled' = [pulled EXCEPT ![p] = 0] /\ now' = now
  BY DEF PreAuthorizeMerchant
<1>8. QED
  BY <1>2, <1>4, <1>6, <1>7, InvSet

\* A revocation.
LEMMA InvRevoke ==
  ASSUME Inv, NEW p \in Pairs, RevokeAuthorization(p)
  PROVE  Inv'
<1> DEFINE c == authorization[p]
           r == [c EXCEPT !.active = FALSE]
<1>1. c \in MerchantAuthorization
  BY InForce DEF RevokeAuthorization
<1>2. authorization' = [authorization EXCEPT ![p] = r]
  BY DEF RevokeAuthorization
<1>3. pulled[p] \in Nat /\ pulled' = [pulled EXCEPT ![p] = pulled[p]] /\ now' = now
  BY DEF Inv, RevokeAuthorization
<1> HIDE DEF c
<1>4. r \in MerchantAuthorization /\ ~r.active
  BY <1>1 DEF MerchantAuthorization
<1> HIDE DEF r
<1>5. QED
  BY <1>2, <1>3, <1>4, InvSet

\* A pull, as a change of one record.
LEMMA PullRecord ==
  ASSUME Inv, NEW p \in Pairs, NEW amount \in Amounts, PullPayment(p, amount),
         NEW c, c = CurrentPeriod(authorization[p], now)
  PROVE  /\ Active(p)
         /\ amount \in Nat \ {0}
         /\ Grounded(c, pulled[p], now)
         /\ amount =< c.limitPerPeriod - c.pulledThisPeriod
         /\ authorization' =
                [authorization EXCEPT ![p] = [c EXCEPT !.pulledThisPeriod = @ + amount]]
         /\ pulled' = [pulled EXCEPT ![p] = pulled[p] + amount]
         /\ now' = now
<1>1. Active(p) /\ amount > 0 /\ amount \in Int
  BY ConstantFacts DEF PullPayment
<1>2. Grounded(c, pulled[p], now)
  BY <1>1, InForce, GroundedRollOver
<1>3. QED
  BY <1>1, <1>2 DEF PullPayment

LEMMA InvPull ==
  ASSUME Inv, NEW p \in Pairs, NEW amount \in Amounts, PullPayment(p, amount)
  PROVE  Inv'
<1> DEFINE c == CurrentPeriod(authorization[p], now)
           r == [c EXCEPT !.pulledThisPeriod = @ + amount]
           g == pulled[p] + amount
<1>1. /\ amount \in Nat
      /\ Grounded(c, pulled[p], now)
      /\ amount =< c.limitPerPeriod - c.pulledThisPeriod
      /\ authorization' = [authorization EXCEPT ![p] = r]
      /\ pulled' = [pulled EXCEPT ![p] = g]
      /\ now' = now
  BY PullRecord
<1> HIDE DEF c
<1>2. Grounded(r, g, now)
  BY <1>1, GroundedPull
<1> HIDE DEF r, g
<1>3. r \in MerchantAuthorization /\ g \in Nat
  BY <1>2 DEF Grounded
<1>4. QED
  BY <1>1, <1>2, <1>3, InvSet

LEMMA InvTick ==
  ASSUME Inv, Tick
  PROVE  Inv'
<1>1. now \in Nat /\ now' \in Nat /\ now =< now'
  BY DEF Inv, Tick
<1>2. authorization' = authorization /\ pulled' = pulled
  BY DEF Tick
<1>3. ASSUME NEW p \in Pairs, Active(p)
      PROVE  Grounded(authorization[p], pulled[p], now')
  BY <1>1, <1>3, InForce, GroundedLater
<1>4. QED
  BY <1>1, <1>2, <1>3 DEF Inv, Active

LEMMA InvNext == Inv /\ [Next]_vars => Inv'
<1> SUFFICES ASSUME Inv, [Next]_vars
             PROVE  Inv'
  OBVIOUS
<1> DEFINE Goal == Inv'
<1>1. ASSUME NEW p \in Pairs, NEW limit \in Limits, NEW period \in Periods,
             PreAuthorizeMerchant(p, limit, period)
      PROVE  Goal
  BY <1>1, InvGrant
<1>2. ASSUME NEW p \in Pairs, RevokeAuthorization(p)
      PROVE  Goal
  BY <1>2, InvRevoke
<1>3. ASSUME NEW p \in Pairs, NEW amount \in Amounts, PullPayment(p, amount)
      PROVE  Goal
  BY <1>3, InvPull
<1>4. ASSUME Tick
      PROVE  Goal
  BY <1>4, InvTick
<1>5. ASSUME UNCHANGED vars
      PROVE  Goal
  BY <1>5 DEF vars, Inv, Active
<1> HIDE DEF Goal
<1>6. Goal
  BY <1>1, <1>2, <1>3, <1>4, <1>5, Zenon DEF Next
<1>7. QED
  BY <1>6 DEF Goal

THEOREM Invariance == Spec => []Inv
BY InvInit, InvNext, PTL DEF Spec

\* Every stored authorization is complete, no period starts in the future.
THEOREM AuthTypeCorrect == Spec => []TypeOK
<1>1. Inv => TypeOK
  BY DEF Inv, TypeOK, Grounded
<1>2. QED
  BY <1>1, Invariance, PTL

\* For any limits and periods, and however the pulls are spread, a merchant has
\* taken at most the limit for every period begun since the grant.
THEOREM AuthPulledWithinLimit == Spec => []PulledWithinLimit
<1>1. Inv => PulledWithinLimit
  BY InForce, GroundedBound, Zenon DEF PulledWithinLimit
<1>2. QED
  BY <1>1, Invariance, PTL

\* remaining_limit and pull_payment never disagree on what is left.
THEOREM AuthReadAgreesWithPull == Spec => []ReadAgreesWithPull
<1>1. ASSUME Inv, NEW p \in Pairs, Active(p)
      PROVE  RemainingLimit(p) = CurrentPeriod(authorization[p], now).limitPerPeriod
                                 - CurrentPeriod(authorization[p], now).pulledThisPeriod
  <2> DEFINE r == authorization[p]
             c == CurrentPeriod(r, now)
  <2>1. r \in MerchantAuthorization /\ now \in Nat /\ r.periodStart =< now
    BY <1>1, InForce DEF Grounded
  <2>2. /\ c.limitPerPeriod = r.limitPerPeriod
        /\ c.pulledThisPeriod = IF RolledOver(r, now) THEN 0 ELSE r.pulledThisPeriod
    <3> HIDE DEF r
    <3>1. QED
      BY <2>1, RollOver
  <2>3. RemainingLimit(p) =
            r.limitPerPeriod - (IF RolledOver(r, now) THEN 0 ELSE r.pulledThisPeriod)
    BY <1>1 DEF RemainingLimit, Active
  <2> HIDE DEF c, r
  <2>4. RemainingLimit(p) = c.limitPerPeriod - c.pulledThisPeriod
    BY <2>2, <2>3
  <2>5. QED
    BY <2>4 DEF c, r
<1>2. Inv => ReadAgreesWithPull
  BY <1>1, Zenon DEF ReadAgreesWithPull
<1>3. QED
  BY <1>2, Invariance, PTL

-----------------------------------------------------------------------------
(* The refinement of Allowance *)

\* The budget a record stands for at time t.
Left(r, t) == r.limitPerPeriod - (IF RolledOver(r, t) THEN 0 ELSE r.pulledThisPeriod)
Elapsed(r, t) == (t - r.periodStart) % r.periodSecs

LEMMA BarsInForce ==
  ASSUME NEW p \in Pairs, Active(p)
  PROVE  /\ GrantBar[p] = [limit |-> authorization[p].limitPerPeriod,
                           period |-> authorization[p].periodSecs]
         /\ LeftBar[p] = Left(authorization[p], now)
         /\ ElapsedBar[p] = Elapsed(authorization[p], now)
BY DEF GrantBar, LeftBar, ElapsedBar, RemainingLimit, Left, Elapsed, Active

LEMMA BarsNotInForce ==
  ASSUME NEW p \in Pairs, ~Active(p)
  PROVE  GrantBar[p] = [period |-> 0] /\ LeftBar[p] = 0 /\ ElapsedBar[p] = 0
BY DEF GrantBar, LeftBar, ElapsedBar, RemainingLimit, Active

LEMMA GrantedIffActive ==
  ASSUME Inv, NEW p \in Pairs
  PROVE  GrantBar[p] # [period |-> 0] <=> Active(p)
<1>1. ASSUME Active(p)
      PROVE  GrantBar[p] # [period |-> 0]
  <2>1. GrantBar[p].period = authorization[p].periodSecs
    <3>1. GrantBar[p] = [limit |-> authorization[p].limitPerPeriod,
                         period |-> authorization[p].periodSecs]
      BY <1>1, BarsInForce
    <3>2. QED
      BY <3>1
  <2>2. authorization[p].periodSecs # 0
    BY <1>1, InForce, FieldTypes
  <2>3. [period |-> 0].period = 0
    OBVIOUS
  <2>4. QED
    BY <2>1, <2>2, <2>3
<1>2. QED
  BY <1>1, BarsNotInForce

\* A step that changes what p's authorization stands for, and no other's.
LEMMA BarsSet ==
  ASSUME NEW p \in Pairs, NEW g, NEW left, NEW e,
         GrantBar'[p] = g, LeftBar'[p] = left, ElapsedBar'[p] = e,
         \A q \in Pairs : q # p => authorization'[q] = authorization[q],
         now' = now
  PROVE  /\ GrantBar' = [GrantBar EXCEPT ![p] = g]
         /\ LeftBar' = [LeftBar EXCEPT ![p] = left]
         /\ ElapsedBar' = [ElapsedBar EXCEPT ![p] = e]
<1>1. ASSUME NEW q \in Pairs, q # p
      PROVE  /\ GrantBar'[q] = GrantBar[q]
             /\ LeftBar'[q] = LeftBar[q]
             /\ ElapsedBar'[q] = ElapsedBar[q]
  <2>1. authorization'[q] = authorization[q]
    BY <1>1
  <2>2. GrantBar'[q] = GrantBar[q]
    BY <2>1 DEF GrantBar, Active
  <2>3. RemainingLimit(q)' = RemainingLimit(q)
    BY <2>1 DEF RemainingLimit
  <2>4. LeftBar'[q] = LeftBar[q]
    BY <2>3 DEF LeftBar
  <2>5. ElapsedBar'[q] = ElapsedBar[q]
    BY <2>1 DEF ElapsedBar, Active
  <2>6. QED
    BY <2>2, <2>4, <2>5
<1>2. GrantBar' = [GrantBar EXCEPT ![p] = g]
  <2>1. /\ GrantBar = [q \in Pairs |-> GrantBar[q]]
        /\ GrantBar' = [q \in Pairs |-> GrantBar'[q]]
    BY DEF GrantBar
  <2>2. QED
    BY <1>1, <2>1
<1>3. LeftBar' = [LeftBar EXCEPT ![p] = left]
  <2>1. /\ LeftBar = [q \in Pairs |-> LeftBar[q]]
        /\ LeftBar' = [q \in Pairs |-> LeftBar'[q]]
    BY DEF LeftBar
  <2>2. QED
    BY <1>1, <2>1
<1>4. ElapsedBar' = [ElapsedBar EXCEPT ![p] = e]
  <2>1. /\ ElapsedBar = [q \in Pairs |-> ElapsedBar[q]]
        /\ ElapsedBar' = [q \in Pairs |-> ElapsedBar'[q]]
    BY DEF ElapsedBar
  <2>2. QED
    BY <1>1, <2>1
<1>5. QED
  BY <1>2, <1>3, <1>4

LEMMA RefineInit == Init => A!Init
<1> SUFFICES ASSUME Init
             PROVE  A!Init
  OBVIOUS
<1>1. \A p \in Pairs : ~Active(p)
  BY DEF Init, Active, NoAuthorization
<1>2. GrantBar = [p \in Pairs |-> A!NoGrant]
  BY <1>1 DEF GrantBar, A!NoGrant
<1>3. LeftBar = [p \in Pairs |-> 0]
  BY <1>1 DEF LeftBar, RemainingLimit, Active
<1>4. ElapsedBar = [p \in Pairs |-> 0]
  BY <1>1 DEF ElapsedBar
<1>5. QED
  BY <1>2, <1>3, <1>4 DEF A!Init

LEMMA RefineGrant ==
  ASSUME Inv, NEW p \in Pairs, NEW limit \in Limits, NEW period \in Periods,
         PreAuthorizeMerchant(p, limit, period)
  PROVE  A!Grant(p, limit, period)
<1>1. limit \in Nat \ {0} /\ period \in Nat \ {0} /\ now \in Nat
  BY ConstantFacts DEF PreAuthorizeMerchant, Inv
<1>2. /\ authorization'[p] =
             [limitPerPeriod |-> limit, periodSecs |-> period, periodStart |-> now,
              pulledThisPeriod |-> 0, active |-> TRUE, createdAt |-> now]
      /\ \A q \in Pairs : q # p => authorization'[q] = authorization[q]
      /\ now' = now
  BY DEF PreAuthorizeMerchant, Inv
<1>3. Active(p)'
  BY <1>2 DEF Active
<1>4. GrantBar'[p] = [limit |-> limit, period |-> period]
  BY <1>2, <1>3 DEF GrantBar
<1>5. ~RolledOver(authorization'[p], now')
  BY <1>1, <1>2 DEF RolledOver
<1>6. LeftBar'[p] = limit
  <2>1. RemainingLimit(p)' = limit - 0
    BY <1>2, <1>5 DEF RemainingLimit
  <2>2. QED
    BY <1>1, <2>1 DEF LeftBar
<1>7. ElapsedBar'[p] = 0
  <2>1. ElapsedBar'[p] = (now - now) % period
    BY <1>2, <1>3 DEF ElapsedBar
  <2>2. 0 % period = 0
    BY <1>1, ModSmall
  <2>3. QED
    BY <1>1, <2>1, <2>2
<1>8. ~A!Granted(p)
  BY GrantedIffActive DEF PreAuthorizeMerchant, A!Granted, A!NoGrant
<1>9. QED
  BY <1>2, <1>4, <1>6, <1>7, <1>8, BarsSet DEF A!Grant

LEMMA RefineRevoke ==
  ASSUME Inv, NEW p \in Pairs, RevokeAuthorization(p)
  PROVE  A!Revoke(p)
<1>1. Active(p) /\ authorization[p] \in MerchantAuthorization
  BY InForce DEF RevokeAuthorization
<1>2. /\ authorization' = [authorization EXCEPT ![p] = [authorization[p] EXCEPT !.active = FALSE]]
      /\ now' = now
  BY DEF RevokeAuthorization
<1>3. /\ authorization'[p] = [authorization[p] EXCEPT !.active = FALSE]
      /\ \A q \in Pairs : q # p => authorization'[q] = authorization[q]
  BY <1>2 DEF Inv
<1>4. ~Active(p)'
  <2> DEFINE r == authorization[p]
  <2>1. r \in MerchantAuthorization
    BY <1>1
  <2> HIDE DEF r
  <2>2. ~[r EXCEPT !.active = FALSE].active
    BY <2>1 DEF MerchantAuthorization
  <2>3. QED
    BY <1>3, <2>2 DEF Active, r
<1>5. GrantBar'[p] = A!NoGrant
  BY <1>4 DEF GrantBar, A!NoGrant
<1>6. LeftBar'[p] = 0
  BY <1>4 DEF LeftBar, RemainingLimit, Active
<1>7. ElapsedBar'[p] = 0
  BY <1>4 DEF ElapsedBar
<1>8. A!Granted(p)
  BY <1>1, GrantedIffActive DEF A!Granted, A!NoGrant
<1>9. QED
  BY <1>2, <1>3, <1>5, <1>6, <1>7, <1>8, BarsSet DEF A!Revoke

\* Rolling a record over changes neither the budget it stands for nor the time
\* into its period.
LEMMA RollOverKeepsBudget ==
  ASSUME NEW r \in MerchantAuthorization, NEW t \in Nat, r.periodStart =< t,
         NEW c, c = CurrentPeriod(r, t)
  PROVE  /\ c.limitPerPeriod - c.pulledThisPeriod = Left(r, t)
         /\ ~RolledOver(c, t)
         /\ Elapsed(c, t) = Elapsed(r, t)
<1>1. /\ c \in MerchantAuthorization
      /\ c.limitPerPeriod = r.limitPerPeriod
      /\ c.periodSecs = r.periodSecs
      /\ c.pulledThisPeriod = IF RolledOver(r, t) THEN 0 ELSE r.pulledThisPeriod
      /\ c.periodStart =< t
      /\ t - c.periodStart < c.periodSecs
      /\ t - c.periodStart = (t - r.periodStart) % r.periodSecs
  BY RollOver
<1>2. c.periodStart \in Nat /\ c.periodSecs \in Nat \ {0}
  BY <1>1, FieldTypes
<1>3. c.limitPerPeriod - c.pulledThisPeriod = Left(r, t)
  BY <1>1 DEF Left
<1>4. ~RolledOver(c, t)
  BY <1>1, <1>2 DEF RolledOver
<1>5. Elapsed(c, t) = Elapsed(r, t)
  <2> DEFINE x == t - c.periodStart
  <2>1. x \in Nat /\ x < c.periodSecs
    BY <1>1, <1>2
  <2> HIDE DEF x
  <2>2. x % c.periodSecs = x
    BY <1>2, <2>1, ModSmall
  <2>3. QED
    BY <1>1, <2>2 DEF x, Elapsed
<1>6. QED
  BY <1>3, <1>4, <1>5

LEMMA RefinePull ==
  ASSUME Inv, NEW p \in Pairs, NEW amount \in Amounts, PullPayment(p, amount)
  PROVE  amount \in 1 .. LeftBar[p] /\ A!Take(p, amount)
<1> DEFINE r == authorization[p]
           c == CurrentPeriod(r, now)
           u == [c EXCEPT !.pulledThisPeriod = @ + amount]
<1>1. /\ Active(p)
      /\ amount \in Nat \ {0}
      /\ Grounded(c, pulled[p], now)
      /\ amount =< c.limitPerPeriod - c.pulledThisPeriod
      /\ authorization' = [authorization EXCEPT ![p] = u]
      /\ now' = now
  BY PullRecord
<1>2. /\ GrantBar[p] = [limit |-> r.limitPerPeriod, period |-> r.periodSecs]
      /\ LeftBar[p] = Left(r, now)
      /\ ElapsedBar[p] = Elapsed(r, now)
  BY <1>1, BarsInForce
<1>3. /\ authorization'[p] = u
      /\ \A q \in Pairs : q # p => authorization'[q] = authorization[q]
  <2> HIDE DEF u
  <2>1. QED
    BY <1>1 DEF Inv
<1>4. r \in MerchantAuthorization /\ now \in Nat /\ r.periodStart =< now /\ r.active
  BY <1>1, InForce DEF Grounded, Active
<1> HIDE DEF r
<1>5. /\ c \in MerchantAuthorization
      /\ c.limitPerPeriod = r.limitPerPeriod
      /\ c.periodSecs = r.periodSecs
      /\ c.active = r.active
  BY <1>4, RollOver
<1>6. /\ c.limitPerPeriod - c.pulledThisPeriod = Left(r, now)
      /\ ~RolledOver(c, now)
      /\ Elapsed(c, now) = Elapsed(r, now)
  BY <1>4, RollOverKeepsBudget
<1> HIDE DEF c
<1>7. /\ c.pulledThisPeriod \in Nat /\ c.limitPerPeriod \in Nat /\ c.periodStart \in Nat
      /\ c.periodSecs \in Nat
  BY <1>5, FieldTypes
<1>8. /\ u.pulledThisPeriod = c.pulledThisPeriod + amount
      /\ u.limitPerPeriod = c.limitPerPeriod
      /\ u.periodSecs = c.periodSecs
      /\ u.periodStart = c.periodStart
      /\ u.active = c.active
  BY <1>5 DEF MerchantAuthorization
<1> HIDE DEF u
<1>9. Left(r, now) \in Int /\ amount \in 1 .. LeftBar[p]
  BY <1>1, <1>2, <1>6, <1>7
<1>10. Active(p)'
  BY <1>3, <1>4, <1>5, <1>8 DEF Active
<1>11. ~RolledOver(u, now)
  BY <1>6, <1>8 DEF RolledOver
<1>12. LeftBar'[p] = LeftBar[p] - amount
  <2>1. RemainingLimit(p)' = u.limitPerPeriod - u.pulledThisPeriod
    BY <1>1, <1>3, <1>10, <1>11 DEF RemainingLimit, Active
  <2>2. LeftBar'[p] = RemainingLimit(p)'
    BY DEF LeftBar
  <2>3. QED
    BY <1>1, <1>2, <1>6, <1>7, <1>8, <2>1, <2>2
<1>13. GrantBar'[p] = GrantBar[p]
  BY <1>2, <1>3, <1>5, <1>8, <1>10 DEF GrantBar
<1>14. ElapsedBar'[p] = ElapsedBar[p]
  <2>1. ElapsedBar'[p] = Elapsed(u, now)
    BY <1>1, <1>3, <1>10 DEF ElapsedBar, Elapsed
  <2>2. Elapsed(u, now) = Elapsed(c, now)
    BY <1>8 DEF Elapsed
  <2>3. QED
    BY <1>2, <1>6, <2>1, <2>2
<1>15. A!Granted(p)
  BY <1>1, GrantedIffActive DEF A!Granted, A!NoGrant
<1>16. /\ GrantBar' = [GrantBar EXCEPT ![p] = GrantBar[p]]
       /\ LeftBar' = [LeftBar EXCEPT ![p] = LeftBar[p] - amount]
       /\ ElapsedBar' = [ElapsedBar EXCEPT ![p] = ElapsedBar[p]]
  BY <1>1, <1>3, <1>12, <1>13, <1>14, BarsSet
<1>17. GrantBar' = GrantBar /\ ElapsedBar' = ElapsedBar
  <2>1. /\ GrantBar = [q \in Pairs |-> GrantBar[q]]
        /\ ElapsedBar = [q \in Pairs |-> ElapsedBar[q]]
    BY DEF GrantBar, ElapsedBar
  <2>2. QED
    BY <1>16, <2>1
<1>18. QED
  BY <1>9, <1>15, <1>16, <1>17 DEF A!Take

\* What one second does to one record.
LEMMA SecondPasses ==
  ASSUME NEW r \in MerchantAuthorization, NEW t \in Nat, r.periodStart =< t
  PROVE  /\ Elapsed(r, t) + 1 = r.periodSecs =>
                Elapsed(r, t + 1) = 0 /\ Left(r, t + 1) = r.limitPerPeriod
         /\ Elapsed(r, t) + 1 # r.periodSecs =>
                Elapsed(r, t + 1) = Elapsed(r, t) + 1 /\ Left(r, t + 1) = Left(r, t)
<1> DEFINE P == r.periodSecs
           d == t - r.periodStart
           q == d \div P
           e == d % P
<1>1. /\ P \in Nat \ {0} /\ r.periodStart \in Nat /\ r.limitPerPeriod \in Nat
      /\ r.pulledThisPeriod \in Nat /\ d \in Nat /\ (t + 1) - r.periodStart = d + 1
  BY FieldTypes
<1>2. /\ Elapsed(r, t) = e /\ Elapsed(r, t + 1) = (d + 1) % P
      /\ (RolledOver(r, t) <=> d >= P) /\ (RolledOver(r, t + 1) <=> d + 1 >= P)
  BY <1>1 DEF Elapsed, RolledOver
<1> HIDE DEF P, d
<1>3. q \in Nat /\ e \in Nat /\ e < P /\ d = P * q + e
  BY <1>1, DivMod
<1> HIDE DEF q, e
<1>4. P * q \in Nat
  BY <1>1, <1>3
<1>5. ASSUME e + 1 = P
      PROVE  Elapsed(r, t + 1) = 0 /\ Left(r, t + 1) = r.limitPerPeriod
  <2>1. d + 1 = P * (q + 1) + 0 /\ q + 1 \in Int
    BY <1>1, <1>3, <1>5
  <2>2. (d + 1) % P = 0
    <3>1. d + 1 \in Int /\ 0 \in Nat /\ 0 < P
      BY <1>1
    <3>2. QED
      BY <1>1, <2>1, <3>1, ModUnique
  <2>3. d + 1 >= P
    BY <1>1, <1>3, <1>4, <1>5
  <2>4. QED
    BY <1>1, <1>2, <2>2, <2>3 DEF Left
<1>6. ASSUME e + 1 # P
      PROVE  Elapsed(r, t + 1) = e + 1 /\ Left(r, t + 1) = Left(r, t)
  <2>1. d + 1 = P * q + (e + 1) /\ e + 1 \in Nat /\ e + 1 < P
    BY <1>1, <1>3, <1>4, <1>6
  <2>2. (d + 1) % P = e + 1
    <3> DEFINE a == d + 1
               x == e + 1
    <3>1. a \in Int /\ q \in Int /\ x \in Nat /\ x < P /\ a = P * q + x
      BY <1>1, <1>3, <2>1
    <3> HIDE DEF a, x
    <3>2. a % P = x
      BY <1>1, <3>1, ModUnique
    <3>3. QED
      BY <3>2 DEF a, x
  <2>3. d + 1 >= P <=> d >= P
    <3>1. CASE q = 0
      BY <1>1, <1>3, <2>1, <3>1
    <3>2. CASE q # 0
      <4>1. P * 1 =< P * q
        BY <1>1, <1>3, <3>2, ProductGrows
      <4>2. QED
        BY <1>1, <1>3, <1>4, <4>1
    <3>3. QED
      BY <3>1, <3>2
  <2>4. QED
    BY <1>2, <2>2, <2>3 DEF Left
<1>7. QED
  BY <1>2, <1>5, <1>6 DEF P

LEMMA RefineTick ==
  ASSUME Inv, Tick
  PROVE  A!Second
<1>1. now \in Nat /\ now' = now + 1 /\ authorization' = authorization
  BY DEF Inv, Tick
<1>2. ASSUME NEW p \in Pairs
      PROVE  /\ GrantBar'[p] = GrantBar[p]
             /\ ElapsedBar'[p] = IF A!PeriodEnds(p) \/ ~A!Granted(p)
                                  THEN 0 ELSE ElapsedBar[p] + 1
             /\ LeftBar'[p] = IF A!PeriodEnds(p) THEN GrantBar[p].limit ELSE LeftBar[p]
  <2>1. A!Granted(p) <=> Active(p)
    BY GrantedIffActive DEF A!Granted, A!NoGrant
  <2>2. GrantBar'[p] = GrantBar[p]
    BY <1>1 DEF GrantBar, Active
  <2>3. CASE ~Active(p)
    <3>1. LeftBar[p] = 0
      BY <2>3, BarsNotInForce
    <3>2. LeftBar'[p] = 0 /\ ElapsedBar'[p] = 0
      BY <1>1, <2>3 DEF LeftBar, ElapsedBar, RemainingLimit, Active
    <3>3. QED
      BY <2>1, <2>2, <2>3, <3>1, <3>2 DEF A!PeriodEnds
  <2>4. CASE Active(p)
    <3> DEFINE r == authorization[p]
    <3>1. r \in MerchantAuthorization /\ r.periodStart =< now
      BY <2>4, InForce DEF Grounded
    <3>2. /\ GrantBar[p] = [limit |-> r.limitPerPeriod, period |-> r.periodSecs]
          /\ LeftBar[p] = Left(r, now)
          /\ ElapsedBar[p] = Elapsed(r, now)
      BY <2>4, BarsInForce
    <3>3. LeftBar'[p] = Left(r, now + 1)
      BY <1>1, <2>4 DEF LeftBar, RemainingLimit, Left, Active
    <3>4. ElapsedBar'[p] = Elapsed(r, now + 1)
      BY <1>1, <2>4 DEF ElapsedBar, Elapsed, Active
    <3> HIDE DEF r
    <3>5. GrantBar[p].limit = r.limitPerPeriod /\ GrantBar[p].period = r.periodSecs
      BY <3>2
    <3>6. A!PeriodEnds(p) <=> Elapsed(r, now) + 1 = r.periodSecs
      BY <2>1, <2>4, <3>2, <3>5 DEF A!PeriodEnds
    <3>7. QED
      BY <1>1, <2>1, <2>2, <2>4, <3>1, <3>2, <3>3, <3>4, <3>5, <3>6, SecondPasses
  <2>5. QED
    BY <2>3, <2>4
<1>3. GrantBar' = GrantBar
  <2>1. /\ GrantBar = [q \in Pairs |-> GrantBar[q]]
        /\ GrantBar' = [q \in Pairs |-> GrantBar'[q]]
    BY DEF GrantBar
  <2>2. QED
    BY <1>2, <2>1
<1>4. ElapsedBar' = [p \in Pairs |-> IF A!PeriodEnds(p) \/ ~A!Granted(p)
                                     THEN 0 ELSE ElapsedBar[p] + 1]
  <2>1. ElapsedBar' = [q \in Pairs |-> ElapsedBar'[q]]
    BY DEF ElapsedBar
  <2>2. QED
    BY <1>2, <2>1
<1>5. LeftBar' = [p \in Pairs |-> IF A!PeriodEnds(p) THEN GrantBar[p].limit ELSE LeftBar[p]]
  <2>1. LeftBar' = [q \in Pairs |-> LeftBar'[q]]
    BY DEF LeftBar
  <2>2. QED
    BY <1>2, <2>1
<1>6. QED
  BY <1>3, <1>4, <1>5 DEF A!Second

LEMMA RefineNext == Inv /\ [Next]_vars => [A!Next]_(A!vars)
<1> SUFFICES ASSUME Inv, [Next]_vars
             PROVE  [A!Next]_(A!vars)
  OBVIOUS
<1> DEFINE Goal == [A!Next]_(A!vars)
<1>1. ASSUME NEW p \in Pairs, NEW limit \in Limits, NEW period \in Periods,
             PreAuthorizeMerchant(p, limit, period)
      PROVE  Goal
  BY <1>1, RefineGrant, Zenon DEF A!Next
<1>2. ASSUME NEW p \in Pairs, RevokeAuthorization(p)
      PROVE  Goal
  BY <1>2, RefineRevoke, Zenon DEF A!Next
<1>3. ASSUME NEW p \in Pairs, NEW amount \in Amounts, PullPayment(p, amount)
      PROVE  Goal
  BY <1>3, RefinePull, Zenon DEF A!Next
<1>4. ASSUME Tick
      PROVE  Goal
  BY <1>4, RefineTick, Zenon DEF A!Next
<1>5. ASSUME UNCHANGED vars
      PROVE  Goal
  <2>1. GrantBar' = GrantBar /\ LeftBar' = LeftBar /\ ElapsedBar' = ElapsedBar
    BY <1>5 DEF vars, GrantBar, LeftBar, ElapsedBar, RemainingLimit, Active
  <2>2. QED
    BY <2>1 DEF A!vars
<1> HIDE DEF Goal
<1>6. Goal
  BY <1>1, <1>2, <1>3, <1>4, <1>5, Zenon DEF Next
<1>7. QED
  BY <1>6 DEF Goal

\* pre_authorize_merchant, pull_payment and remaining_limit, which keep one lazily
\* updated record, implement budgets that are refilled at the second a period ends.
THEOREM AuthImplementsAllowance == Spec => ImplementsAllowance
<1>1. Init => A!Init
  BY RefineInit
<1>2. Inv /\ [Next]_vars => [A!Next]_(A!vars)
  BY RefineNext
<1>3. QED
  BY <1>1, <1>2, Invariance, PTL DEF Spec, ImplementsAllowance, A!Spec
=============================================================================
