---------------------------- MODULE Swaps_proofs ----------------------------
(***************************************************************************)
(* Theorems about Swaps: a payment made by a swap settles at the rate of   *)
(* the oracle, for every pair, rate, threshold and deviation.  First the   *)
(* divisor, a recursive function of the decimals, then the arithmetic of   *)
(* the two rounded divisions, then the inductive invariant: what the       *)
(* oracle has published, and what is owed to each payment made.            *)
(***************************************************************************)
EXTENDS Swaps, FiniteSetTheorems, WellFoundedInduction, TLAPS

-----------------------------------------------------------------------------
(* The divisor of a rate *)

\* A set of naturals that is not empty has a least element: the interval up to
\* it is smallest among the intervals up to its elements.
LEMMA Least ==
  ASSUME NEW D \in SUBSET Nat, D # {}
  PROVE  \E m \in D : \A k \in D : m =< k
<1> DEFINE B == {1 .. m : m \in D}
<1>1. B # {} /\ B \subseteq FiniteSubsetsOf(Nat)
  <2>1. ASSUME NEW m \in D
        PROVE  1 .. m \in FiniteSubsetsOf(Nat)
    <3>1. 1 \in Int /\ m \in Int
      OBVIOUS
    <3>2. IsFiniteSet(1 .. m)
      BY <3>1, FS_Interval, Zenon
    <3>3. 1 .. m \in SUBSET Nat
      OBVIOUS
    <3>4. QED
      BY <3>2, <3>3, Zenon DEF FiniteSubsetsOf
  <2>2. B # {}
    OBVIOUS
  <2>3. QED
    BY <2>1, <2>2
<1>2. IsWellFoundedOn(StrictSubsetOrdering(Nat), FiniteSubsetsOf(Nat))
  BY FS_StrictSubsetOrderingWellFounded
<1>3. PICK T \in B : \A U \in B : ~(<<U, T>> \in StrictSubsetOrdering(Nat))
  <2> HIDE DEF B, StrictSubsetOrdering, FiniteSubsetsOf
  <2>1. QED
    BY <1>1, <1>2, WFMin
<1>4. PICK m \in D : T = 1 .. m
  OBVIOUS
<1>5. ASSUME NEW k \in D, k < m
      PROVE  FALSE
  <2>1. m \in 1 .. m /\ m \notin 1 .. k /\ 1 .. k \subseteq 1 .. m
    BY <1>5
  <2>2. 1 .. k \in SUBSET Nat /\ 1 .. m \in SUBSET Nat
    OBVIOUS
  <2>3. <<1 .. k, 1 .. m>> \in StrictSubsetOrdering(Nat)
    BY <2>1, <2>2, Zenon DEF StrictSubsetOrdering
  <2>4. QED
    BY <1>3, <1>4, <2>3
<1>6. QED
  BY <1>4, <1>5

\* g solves the equation of Divisor on the naturals in D.
Powers(g, D) == g = [n \in D |-> IF n = 0 THEN 1 ELSE 10 * g[n - 1]]

\* Two solutions agree wherever both are defined.
LEMMA PowersAgree ==
  ASSUME NEW g, NEW h, NEW a \in Nat, NEW b \in Nat,
         Powers(g, 0 .. a), Powers(h, 0 .. b), NEW n \in 0 .. a, n \in 0 .. b
  PROVE  g[n] = h[n]
<1> DEFINE B == {k \in 0 .. n : g[k] # h[k]}
<1>1. ASSUME B # {}
      PROVE  FALSE
  <2>1. PICK m \in B : \A k \in B : m =< k
    <3>1. B \in SUBSET Nat
      OBVIOUS
    <3> HIDE DEF B
    <3>2. QED
      BY <1>1, <3>1, Least
  <2>2. m \in 0 .. a /\ m \in 0 .. b
    OBVIOUS
  <2>3. /\ g[m] = IF m = 0 THEN 1 ELSE 10 * g[m - 1]
        /\ h[m] = IF m = 0 THEN 1 ELSE 10 * h[m - 1]
    BY <2>2 DEF Powers
  <2>4. m # 0
    BY <2>1, <2>3
  <2>5. m - 1 \in 0 .. n /\ m - 1 < m
    BY <2>4
  <2>6. g[m - 1] = h[m - 1]
    BY <2>1, <2>5
  <2>7. QED
    BY <2>1, <2>3, <2>4, <2>6
<1>2. QED
  BY <1>1

\* Every interval has a solution: the least one without would get it from the
\* one before.
LEMMA PowersExist ==
  ASSUME NEW a \in Nat
  PROVE  \E g : Powers(g, 0 .. a)
<1> DEFINE B == {k \in Nat : ~\E g : Powers(g, 0 .. k)}
<1>1. ASSUME B # {}
      PROVE  FALSE
  <2>1. PICK m \in B : \A k \in B : m =< k
    <3>1. B \in SUBSET Nat
      OBVIOUS
    <3> HIDE DEF B
    <3>2. QED
      BY <1>1, <3>1, Least
  <2>2. CASE m = 0
    <3> DEFINE g == [n \in 0 .. 0 |-> 1]
    <3>1. g = [n \in 0 .. 0 |-> IF n = 0 THEN 1 ELSE 10 * g[n - 1]]
      OBVIOUS
    <3> HIDE DEF g
    <3>2. Powers(g, 0 .. m)
      BY <2>2, <3>1 DEF Powers
    <3>3. QED
      BY <3>2
  <2>3. CASE m # 0
    <3>1. m - 1 \in Nat /\ m - 1 \notin B
      BY <2>1, <2>3
    <3>2. PICK g : Powers(g, 0 .. m - 1)
      BY <3>1
    <3> DEFINE h == [n \in 0 .. m |-> IF n = 0 THEN 1 ELSE 10 * g[n - 1]]
    <3>3. \A n \in 0 .. m - 1 : h[n] = g[n]
      BY <3>2 DEF Powers
    <3>4. ASSUME NEW n \in 0 .. m, n # 0
          PROVE  h[n - 1] = g[n - 1]
      <4>1. n - 1 \in 0 .. m - 1
        BY <3>4
      <4> HIDE DEF h
      <4>2. QED
        BY <3>3, <4>1
    <3>5. h = [n \in 0 .. m |-> IF n = 0 THEN 1 ELSE 10 * h[n - 1]]
      BY <3>4
    <3> HIDE DEF h
    <3>6. Powers(h, 0 .. m)
      BY <3>5 DEF Powers
    <3>7. QED
      BY <3>6
  <2>4. QED
    BY <2>2, <2>3
<1>2. QED
  BY <1>1

\* The equation has a solution on all naturals, and Divisor is one.
LEMMA DivisorUnfold ==
  Divisor = [n \in Nat |-> IF n = 0 THEN 1 ELSE 10 * Divisor[n - 1]]
<1> DEFINE G(k) == CHOOSE g : Powers(g, 0 .. k)
           h == [n \in Nat |-> G(n)[n]]
<1>1. ASSUME NEW k \in Nat
      PROVE  Powers(G(k), 0 .. k)
  <2>1. \E g : Powers(g, 0 .. k)
    BY PowersExist
  <2> HIDE DEF Powers
  <2>2. QED
    BY <2>1
<1>2. ASSUME NEW n \in Nat
      PROVE  h[n] = IF n = 0 THEN 1 ELSE 10 * h[n - 1]
  <2>1. n \in 0 .. n /\ Powers(G(n), 0 .. n)
    BY <1>1
  <2>2. CASE n = 0
    <3> HIDE DEF G
    <3>1. QED
      BY <2>1, <2>2 DEF Powers
  <2>3. CASE n # 0
    <3>1. n - 1 \in Nat /\ n - 1 \in 0 .. n /\ n - 1 \in 0 .. n - 1
      BY <2>3
    <3>2. Powers(G(n - 1), 0 .. n - 1)
      BY <1>1, <3>1
    <3> HIDE DEF G
    <3>3. G(n)[n] = 10 * G(n)[n - 1]
      BY <2>1, <2>3 DEF Powers
    <3>4. G(n)[n - 1] = G(n - 1)[n - 1]
      BY <2>1, <3>1, <3>2, PowersAgree
    <3>5. QED
      BY <2>3, <3>1, <3>3, <3>4
  <2>4. QED
    BY <2>2, <2>3
<1>3. h = [n \in Nat |-> IF n = 0 THEN 1 ELSE 10 * h[n - 1]]
  <2> HIDE DEF G
  <2>1. h = [n \in Nat |-> h[n]]
    OBVIOUS
  <2> HIDE DEF h
  <2>2. QED
    BY <1>2, <2>1
<1>4. \E f : f = [n \in Nat |-> IF n = 0 THEN 1 ELSE 10 * f[n - 1]]
  <2> HIDE DEF h
  <2>1. QED
    BY <1>3
<1>5. QED
  BY <1>4, Zenon DEF Divisor

LEMMA DivisorPositive ==
  ASSUME NEW n \in Nat
  PROVE  Divisor[n] \in Nat \ {0}
<1> DEFINE B == {k \in Nat : Divisor[k] \notin Nat \ {0}}
<1>1. ASSUME B # {}
      PROVE  FALSE
  <2>1. PICK m \in B : \A k \in B : m =< k
    <3>1. B \in SUBSET Nat
      OBVIOUS
    <3> HIDE DEF B
    <3>2. QED
      BY <1>1, <3>1, Least
  <2>2. Divisor[m] = IF m = 0 THEN 1 ELSE 10 * Divisor[m - 1]
    BY DivisorUnfold
  <2>3. m # 0
    BY <2>2
  <2>4. m - 1 \in Nat /\ m - 1 \notin B
    BY <2>1, <2>3
  <2>5. QED
    BY <2>2, <2>3, <2>4
<1>2. QED
  BY <1>1
-----------------------------------------------------------------------------
(* The two divisions of a swap *)

\* A positive quotient times its divisor lies within one divisor of what was
\* divided.
LEMMA QuotientFacts ==
  ASSUME NEW a \in Int, NEW d \in Nat \ {0}, a \div d > 0
  PROVE  LET e == a \div d
         IN  e \in Nat \ {0} /\ e * d =< a /\ a < e * d + d
<1> DEFINE e == a \div d
<1>1. e \in Int /\ d * e =< a /\ a < d * e + d
  BY Z3
<1> HIDE DEF e
<1>2. d * e = e * d
  BY <1>1
<1>3. e > 0
  BY DEF e
<1>4. QED
  BY <1>1, <1>2, <1>3 DEF e

\* What a quote of q is worth when it is within v basis points of e.
LEMMA QuoteFacts ==
  ASSUME NEW q \in Nat, NEW e \in Nat \ {0}, NEW v \in Nat,
         (Distance(q, e) * Bps) \div e <= v
  PROVE  q * Bps > (Bps - v - 1) * e
<1> DEFINE x == Distance(q, e) * Bps
           k == x \div e
<1>1. Distance(q, e) \in Nat /\ e - q =< Distance(q, e)
  BY DEF Distance
<1>2. x \in Nat /\ (e - q) * Bps =< x
  BY <1>1 DEF Bps
<1> HIDE DEF x
<1>3. k \in Int /\ x < e * k + e
  BY <1>2, Z3
<1>4. k =< v
  BY DEF x
<1> HIDE DEF k
<1>5. e * k =< e * v
  BY <1>3, <1>4, Z3
<1>6. (e - q) * Bps < e * v + e
  <2>1. e * k \in Int /\ e * v \in Int /\ (e - q) * Bps \in Int
    BY <1>3 DEF Bps
  <2> DEFINE ek == e * k
             ev == e * v
             y == (e - q) * Bps
  <2>2. y =< x /\ x < ek + e /\ ek =< ev /\ y \in Int /\ ek \in Int /\ ev \in Int
    BY <1>2, <1>3, <1>5, <2>1
  <2> HIDE DEF ek, ev, y
  <2>3. y < ev + e
    BY <1>2, <2>2
  <2>4. QED
    BY <2>3 DEF y, ev
<1>7. (Bps - v - 1) * e = Bps * e - e * v - e
  BY DEF Bps
<1>8. (e - q) * Bps = Bps * e - q * Bps
  BY DEF Bps
<1> DEFINE w == e * v
<1>9. w \in Int
  OBVIOUS
<1> HIDE DEF w
<1>10. 10000 * e - q * 10000 < w + e
  BY <1>6, <1>8 DEF Bps, w
<1>11. q * 10000 > 10000 * e - w - e
  BY <1>9, <1>10
<1>12. QED
  BY <1>7, <1>11 DEF Bps, w

\* Both at once: what is delivered covers the value at rate r / d of what was
\* given, less v + 1 basis points and less one unit.
LEMMA SettledFacts ==
  ASSUME NEW a \in Int, NEW d \in Nat \ {0}, a \div d > 0,
         NEW q \in Nat, NEW v \in Nat, NEW out \in Nat \ {0}, out >= q,
         (Distance(q, a \div d) * Bps) \div (a \div d) <= v
  PROVE  out * Bps * d > (Bps - v - 1) * (a - d)
<1> DEFINE e == a \div d
<1>1. e \in Nat \ {0} /\ e * d =< a /\ a < e * d + d
  BY QuotientFacts
<1> HIDE DEF e
<1>2. q * Bps > (Bps - v - 1) * e
  BY <1>1, QuoteFacts DEF e
<1> DEFINE z == out * Bps
           b == Bps - v - 1
           f == a - d
           g == e * d
<1>3. g \in Nat /\ d =< g
  BY <1>1, Z3
<1>4. f < g /\ f >= 0 /\ f \in Int
  BY <1>1, <1>3
<1>5. z \in Nat \ {0} /\ z > b * e /\ b \in Int
  BY <1>1, <1>2 DEF Bps
<1> HIDE DEF z, b, f
<1>6. CASE b >= 0
  <2>1. b * f =< b * g
    <3> HIDE DEF g
    <3>1. QED
      BY <1>3, <1>4, <1>5, <1>6, Z3
  <2>2. z * d > (b * e) * d
    <3> DEFINE be == b * e
    <3>1. be \in Int /\ z > be
      BY <1>1, <1>5
    <3> HIDE DEF be
    <3>2. z * d > be * d
      BY <1>5, <3>1, Z3
    <3>3. QED
      BY <3>2 DEF be
  <2>3. (b * e) * d = b * g
    BY <1>1, <1>5, Z3
  <2>4. b * f \in Int /\ b * g \in Int /\ z * d \in Int
    <3> HIDE DEF g
    <3>1. QED
      BY <1>3, <1>4, <1>5
  <2>5. z * d > b * f
    <3> DEFINE zd == z * d
               bf == b * f
               bg == b * g
    <3>1. zd \in Int /\ bf \in Int /\ bg \in Int /\ zd > bg /\ bf =< bg
      BY <2>1, <2>2, <2>3, <2>4
    <3> HIDE DEF zd, bf, bg
    <3>2. zd > bf
      BY <3>1
    <3>3. QED
      BY <3>2 DEF zd, bf
  <2>6. QED
    BY <2>5 DEF z, b, f
<1>7. CASE b < 0
  <2>1. b * f =< 0 /\ z * d > 0 /\ b * f \in Int /\ z * d \in Int
    BY <1>4, <1>5, <1>7, Z3
  <2> DEFINE zd == z * d
             bf == b * f
  <2>2. bf =< 0 /\ zd > 0 /\ bf \in Int /\ zd \in Int
    BY <2>1
  <2> HIDE DEF zd, bf
  <2>3. zd > bf
    BY <2>2
  <2>4. QED
    BY <2>3 DEF zd, bf, z, b, f
<1>8. QED
  BY <1>5, <1>6, <1>7
-----------------------------------------------------------------------------
(* The inductive invariant *)

PaymentData ==
    [amount : Amounts, amountIn : AmountsIn, tokenIn : STRING, token : STRING,
     pair : Pairs \cup {None}, deviation : Deviations, out : Amounts, at : Nat,
     threshold : Nat]

TypesPart ==
    /\ rates \in [Pairs -> RateData \cup {NoRate}]
    /\ threshold \in Nat
    /\ stage \in {"absent", "initialized", "operated"}
    /\ payments \in [PaymentIds -> PaymentData \cup {NoPayment}]
    /\ now \in Nat
    /\ published \in SUBSET RateData

\* Nothing was published later than now, and the rate of a pair is the last
\* that was published of it.
RatesPart ==
    /\ \A r \in published : r.updatedAt =< now
    /\ \A pair \in Pairs : rates[pair] # NoRate =>
          /\ rates[pair] \in published
          /\ rates[pair].pair = pair
          /\ \A r \in published : r.pair = pair => r.updatedAt =< rates[pair].updatedAt

Worth(r, s) ==
    s.out * Bps * Divisor[r.decimals]
        > (Bps - s.deviation - 1) * (s.amountIn * r.rate - Divisor[r.decimals])

\* What is owed to a payment, which was not made later than now.
Settled(s) ==
    /\ s.at \in Nat /\ s.at =< now
    /\ s.out >= s.amount
    /\ s.token # s.tokenIn
    /\ s.pair # None => \E r \in published : ReferenceRate(r, s) /\ Worth(r, s)

PaymentsPart == \A p \in PaymentIds : payments[p] # NoPayment => Settled(payments[p])

IInv == TypesPart /\ RatesPart /\ PaymentsPart

\* A rate that get_rate returns is what it says it is.
LEMMA FreshRate ==
  ASSUME TypesPart, RatesPart, NEW pair \in Pairs, Fresh(rates[pair])
  PROVE  /\ rates[pair] \in published /\ rates[pair] \in RateData
         /\ rates[pair].pair = pair
         /\ rates[pair].updatedAt =< now /\ now =< rates[pair].updatedAt + threshold
         /\ \A r \in published : r.pair = pair => r.updatedAt =< rates[pair].updatedAt
<1>1. rates[pair] # NoRate
  BY DEF Fresh, NoRate
<1>2. QED
  BY <1>1 DEF TypesPart, RatesPart, Fresh

\* The ends of a valid path differ.
LEMMA PathEnds ==
  ASSUME NEW path \in Seq(STRING), NEW tokenIn, ValidPath(path, tokenIn)
  PROVE  tokenIn \in STRING /\ Last(path) \in STRING /\ Last(path) # tokenIn
<1>1. Len(path) \in Nat /\ Len(path) >= 2 /\ tokenIn = path[1]
  BY DEF ValidPath
<1>2. 1 \in DOMAIN path /\ Len(path) \in DOMAIN path
  BY <1>1
<1>3. path[1] # path[Len(path)]
  BY <1>1, <1>2 DEF ValidPath, IsInjective
<1>4. QED
  BY <1>1, <1>2, <1>3 DEF Last

\* A payment that swap_and_pay makes is settled.
LEMMA SwapSettles ==
  ASSUME TypesPart, RatesPart, NEW p \in PaymentIds,
         NEW amount \in Amounts, NEW amountIn \in AmountsIn, NEW minimum \in Amounts,
         NEW path \in Paths, NEW tokenIn, NEW pair \in Pairs \cup {None},
         NEW deviation \in Deviations, NEW quoted \in Amounts, NEW out \in Amounts,
         SwapAndPay(p, amount, amountIn, minimum, path, tokenIn, pair, deviation,
                    quoted, out)
  PROVE  payments'[p] \in PaymentData /\ Settled(payments'[p])
<1> DEFINE s == [amount |-> amount, amountIn |-> amountIn, tokenIn |-> tokenIn,
                 token |-> Last(path), pair |-> pair, deviation |-> deviation,
                 out |-> out, at |-> now, threshold |-> threshold]
<1>1. payments'[p] = s
  BY DEF SwapAndPay, TypesPart
<1>2. /\ amount \in Nat /\ minimum \in Nat /\ amountIn \in Nat /\ deviation \in Nat
      /\ out \in Nat \ {0} /\ quoted \in Nat
  BY SwapsAssumption
<1>3. path \in Seq(STRING) /\ ValidPath(path, tokenIn)
  BY SwapsAssumption DEF SwapAndPay
<1>4. tokenIn \in STRING /\ Last(path) \in STRING /\ Last(path) # tokenIn
  BY <1>3, PathEnds
<1>5. now \in Nat /\ threshold \in Nat
  BY DEF TypesPart
<1>6. s \in PaymentData
  BY <1>4, <1>5 DEF PaymentData
<1>7. out >= amount /\ out >= quoted
  BY <1>2 DEF SwapAndPay
<1>8. ASSUME pair # None
      PROVE  \E r \in published : ReferenceRate(r, s) /\ Worth(r, s)
  <2> DEFINE r == rates[pair]
             d == Divisor[r.decimals]
             a == amountIn * r.rate
  <2>1. pair \in Pairs /\ CloseToRate(r, amountIn, quoted, deviation)
    BY <1>8 DEF SwapAndPay
  <2>2. Fresh(r)
    BY <2>1 DEF CloseToRate
  <2>3. /\ r \in published /\ r \in RateData /\ r.pair = pair
        /\ r.updatedAt =< now /\ now =< r.updatedAt + threshold
        /\ \A later \in published : later.pair = pair => later.updatedAt =< r.updatedAt
    BY <2>1, <2>2, FreshRate
  <2> HIDE DEF r
  <2>4. r.rate \in Int /\ r.decimals \in Nat /\ r.updatedAt \in Nat
    BY <2>3, SwapsAssumption DEF RateData
  <2>5. d \in Nat \ {0} /\ a \in Int
    BY <1>2, <2>4, DivisorPositive
  <2>6. a \div d > 0 /\ (Distance(quoted, a \div d) * Bps) \div (a \div d) <= deviation
    BY <2>1 DEF CloseToRate, Expected
  <2> HIDE DEF a, d
  <2>7. out * Bps * d > (Bps - deviation - 1) * (a - d)
    BY <1>2, <1>7, <2>5, <2>6, SettledFacts
  <2>8. Worth(r, s)
    BY <2>7 DEF Worth, a, d
  <2>9. ASSUME NEW later \in published, later.pair = pair
        PROVE  ~(r.updatedAt < later.updatedAt)
    <3>1. later.updatedAt \in Nat
      BY DEF TypesPart, RateData
    <3>2. QED
      BY <2>3, <2>4, <2>9, <3>1
  <2>10. ReferenceRate(r, s)
    BY <2>3, <2>9 DEF ReferenceRate
  <2>11. QED
    BY <2>3, <2>8, <2>10
<1>9. Settled(s)
  BY <1>4, <1>5, <1>7, <1>8 DEF Settled
<1>10. QED
  BY <1>1, <1>6, <1>9

\* What was settled stays settled while the clock does not run backwards and
\* what is published is published now.
LEMMA StaysSettled ==
  ASSUME TypesPart, NEW s, Settled(s), now' \in Nat, now =< now', published' \in SUBSET RateData,
         published \subseteq published',
         \A r \in published' \ published : r.updatedAt = now
  PROVE  Settled(s)'
<1>1. s.at \in Nat /\ s.at =< now /\ now \in Nat
  BY DEF Settled, TypesPart
<1>2. ASSUME s.pair # None
      PROVE  \E r \in published' : ReferenceRate(r, s)' /\ Worth(r, s)
  <2>1. PICK r \in published : ReferenceRate(r, s) /\ Worth(r, s)
    BY <1>2 DEF Settled
  <2>2. ASSUME NEW later \in published', later \notin published
        PROVE  ~(later.updatedAt < s.at)
    <3>1. later.updatedAt = now
      BY <2>2
    <3>2. QED
      BY <1>1, <3>1
  <2>3. ReferenceRate(r, s)'
    BY <2>1, <2>2 DEF ReferenceRate
  <2>4. QED
    BY <2>1, <2>3
<1>3. QED
  BY <1>1, <1>2 DEF Settled, Worth

\* A step that makes no payment keeps those that were made.
LEMMA PaymentsKept ==
  ASSUME TypesPart, PaymentsPart, payments' = payments, now' \in Nat, now =< now',
         published' \in SUBSET RateData, published \subseteq published',
         \A r \in published' \ published : r.updatedAt = now
  PROVE  PaymentsPart'
<1>1. ASSUME NEW p \in PaymentIds, payments[p] # NoPayment
      PROVE  Settled(payments[p])'
  <2>1. Settled(payments[p])
    BY <1>1 DEF PaymentsPart
  <2>2. QED
    BY <2>1, StaysSettled
<1>2. QED
  BY <1>1 DEF PaymentsPart
-----------------------------------------------------------------------------
(* The step, and the theorems *)

\* A step that publishes nothing and lets no time run back keeps the rates.
LEMMA RatesKept ==
  ASSUME TypesPart, RatesPart, rates' = rates, published' = published,
         now' \in Nat, now =< now'
  PROVE  RatesPart'
<1>1. ASSUME NEW r \in published
      PROVE  r.updatedAt =< now'
  <2>1. r.updatedAt \in Nat /\ r.updatedAt =< now /\ now \in Nat
    BY DEF TypesPart, RatesPart, RateData
  <2>2. QED
    BY <2>1
<1>2. QED
  BY <1>1 DEF RatesPart

LEMMA SetRateStep ==
  ASSUME IInv, NEW pair \in Pairs, NEW rate \in Rates, NEW decimals \in Decimals,
         SetRate(pair, rate, decimals)
  PROVE  IInv'
<1> DEFINE r == [pair |-> pair, rate |-> rate, decimals |-> decimals, updatedAt |-> now]
<1>0. TypesPart /\ RatesPart /\ PaymentsPart
  BY DEF IInv
<1>1. /\ rates' = [rates EXCEPT ![pair] = r] /\ published' = published \cup {r}
      /\ threshold' = threshold /\ stage' = stage /\ payments' = payments /\ now' = now
  BY DEF SetRate
<1>2. r \in RateData /\ r.pair = pair /\ r.updatedAt = now /\ now \in Nat
  BY <1>0 DEF TypesPart, RateData
<1> HIDE DEF r
<1>3. TypesPart'
  BY <1>0, <1>1, <1>2 DEF TypesPart
<1>4. /\ published' \in SUBSET RateData /\ published \subseteq published'
      /\ \A x \in published' \ published : x.updatedAt = now
  BY <1>1, <1>2, <1>3 DEF TypesPart
<1>5. PaymentsPart'
  BY <1>0, <1>1, <1>2, <1>4, PaymentsKept
<1>6. RatesPart'
  <2>1. \A x \in published' : x.updatedAt =< now'
    BY <1>0, <1>1, <1>2 DEF RatesPart
  <2>2. ASSUME NEW q \in Pairs, rates'[q] # NoRate
        PROVE  /\ rates'[q] \in published' /\ rates'[q].pair = q
               /\ \A x \in published' : x.pair = q => x.updatedAt =< rates'[q].updatedAt
    <3>1. CASE q = pair
      <4>1. rates'[q] = r
        BY <1>0, <1>1, <3>1 DEF TypesPart
      <4>2. QED
        BY <1>1, <1>2, <2>1, <3>1, <4>1
    <3>2. CASE q # pair
      <4>1. rates'[q] = rates[q]
        BY <1>0, <1>1, <3>2 DEF TypesPart
      <4>2. QED
        BY <1>0, <1>1, <1>2, <2>2, <3>2, <4>1 DEF RatesPart
    <3>3. QED
      BY <3>1, <3>2
  <2>3. QED
    BY <2>1, <2>2 DEF RatesPart
<1>7. QED
  BY <1>3, <1>5, <1>6 DEF IInv

LEMMA SwapStep ==
  ASSUME IInv, NEW p \in PaymentIds,
         NEW amount \in Amounts, NEW amountIn \in AmountsIn, NEW minimum \in Amounts,
         NEW path \in Paths, NEW tokenIn, NEW pair \in Pairs \cup {None},
         NEW deviation \in Deviations, NEW quoted \in Amounts, NEW out \in Amounts,
         SwapAndPay(p, amount, amountIn, minimum, path, tokenIn, pair, deviation,
                    quoted, out)
  PROVE  IInv'
<1>0. TypesPart /\ RatesPart /\ PaymentsPart
  BY DEF IInv
<1>1. /\ rates' = rates /\ threshold' = threshold /\ stage' = stage
      /\ published' = published /\ now' = now
      /\ payments' = [payments EXCEPT ![p] = payments'[p]]
  BY <1>0 DEF SwapAndPay, oracle, TypesPart
<1>2. payments'[p] \in PaymentData /\ Settled(payments'[p])
  BY <1>0, SwapSettles
<1>3. TypesPart'
  <2>1. payments' \in [PaymentIds -> PaymentData \cup {NoPayment}]
    BY <1>0, <1>1, <1>2 DEF TypesPart
  <2>2. QED
    BY <1>0, <1>1, <2>1 DEF TypesPart
<1>4. RatesPart'
  BY <1>1, <1>0 DEF RatesPart
<1>5. ASSUME NEW q \in PaymentIds, payments'[q] # NoPayment
      PROVE  Settled(payments'[q])
  <2>1. CASE q = p
    BY <1>2, <2>1
  <2>2. CASE q # p
    <3>1. payments'[q] = payments[q]
      BY <1>0, <1>1, <2>2 DEF TypesPart
    <3>2. QED
      BY <1>0, <1>5, <3>1 DEF PaymentsPart
  <2>3. QED
    BY <2>1, <2>2
<1>6. PaymentsPart'
  BY <1>1, <1>5 DEF PaymentsPart, Settled, ReferenceRate, Worth
<1>7. QED
  BY <1>3, <1>4, <1>6 DEF IInv

\* Steps that make no payment and publish nothing: the roles, the threshold,
\* the clock, a stutter.
LEMMA OtherStep ==
  ASSUME IInv, rates' = rates, payments' = payments, published' = published,
         threshold' \in Nat, stage' \in {"absent", "initialized", "operated"},
         now' \in Nat, now =< now'
  PROVE  IInv'
<1>0. TypesPart /\ RatesPart /\ PaymentsPart
  BY DEF IInv
<1>1. TypesPart' /\ published' \in SUBSET RateData
  BY <1>0 DEF TypesPart
<1>2. QED
  BY <1>0, <1>1, RatesKept, PaymentsKept DEF IInv

LEMMA NextStep ==
  ASSUME IInv, [Next]_vars
  PROVE  IInv'
<1>0. now \in Nat /\ now =< now /\ threshold \in Nat
      /\ stage \in {"absent", "initialized", "operated"}
  BY DEF IInv, TypesPart
<1>1. ASSUME NEW t \in Thresholds, SetStalenessThreshold(t) \/ OracleInitialize(t)
      PROVE  IInv'
  BY <1>0, <1>1, SwapsAssumption, OtherStep DEF SetStalenessThreshold, OracleInitialize
<1>2. CASE OracleGrantRole
  BY <1>0, <1>2, OtherStep DEF OracleGrantRole
<1>3. CASE Tick
  BY <1>0, <1>3, OtherStep DEF Tick, oracle
<1>4. CASE UNCHANGED vars
  BY <1>0, <1>4, OtherStep DEF vars
<1>5. QED
  BY <1>1, <1>2, <1>3, <1>4, SetRateStep, SwapStep DEF Next

LEMMA InitGood == Init => IInv
<1> SUFFICES ASSUME Init PROVE IInv
  OBVIOUS
<1>1. TypesPart
  BY SwapsAssumption DEF Init, TypesPart
<1>2. RatesPart /\ PaymentsPart
  BY DEF Init, RatesPart, PaymentsPart
<1>3. QED
  BY <1>1, <1>2 DEF IInv

\* Every reachable state of the oracle and the swaps satisfies the inductive
\* invariant, its typing among it, for all pairs, rates of either sign, paths
\* and amounts.
THEOREM SwapsInductive == Spec => []IInv
<1>1. IInv /\ [Next]_vars => IInv'
  BY NextStep
<1>2. QED
  BY <1>1, InitGood, PTL DEF Spec

\* A payment made by swap_and_pay covers its amount in another token, and where
\* an oracle was named the reported output is what was given at a recent rate, the
\* last of its pair, whatever was published or reconfigured since.
THEOREM SwapsSettle == Spec => []SwapsSettleAtTheRate
<1>1. IInv => SwapsSettleAtTheRate
  BY DEF IInv, PaymentsPart, Settled, Worth, SwapsSettleAtTheRate
<1>2. QED
  BY <1>1, SwapsInductive, PTL
=============================================================================
