-------------------------- MODULE Payments_proofs --------------------------
(***************************************************************************)
(* Theorems about Payments.  The pace of a merchant's creations is an      *)
(* argument about one sequence and one counter; the truth of a status is   *)
(* an argument about one record.  A step either creates payments or        *)
(* changes one of them, whichever handler it is.                           *)
(***************************************************************************)
EXTENDS Payments, TLAPS, SequenceTheorems, FiniteSetTheorems,
        WellFoundedInduction

-----------------------------------------------------------------------------
(* The last position of a set of positions *)

LEMMA LastExists ==
  ASSUME NEW n \in Nat, NEW S \in SUBSET (1 .. n), S # {}
  PROVE  \E i \in S : \A j \in S : j =< i
<1> DEFINE R == {ss \in Nat \X Nat : ss[1] < ss[2]}
           T == {x \in Nat : n - x \in S}
<1>1. IsWellFoundedOn(R, Nat)
  BY NatLessThanWellFounded DEF OpToRel
<1>2. T \subseteq Nat /\ T # {}
  <2>1. PICK i \in S : TRUE
    OBVIOUS
  <2>2. n - i \in T
    BY <2>1
  <2>3. QED
    BY <2>2
<1> HIDE DEF R
<1>3. PICK x \in T : \A y \in T : <<y, x>> \notin R
  <2> HIDE DEF T
  <2>1. QED
    BY <1>1, <1>2, WFMin
<1>4. \A y \in T : x =< y
  <2> SUFFICES ASSUME NEW y \in T
               PROVE  x =< y
    OBVIOUS
  <2>1. x \in Nat /\ y \in Nat /\ <<y, x>> \notin R
    BY <1>3
  <2>2. QED
    BY <2>1 DEF R
<1>5. n - x \in S /\ x \in Nat
  BY <1>3
<1>6. ASSUME NEW j \in S
      PROVE  j =< n - x
  <2>1. n - j \in T
    BY <1>6
  <2>2. x =< n - j
    BY <2>1, <1>4
  <2>3. QED
    BY <2>2, <1>5
<1>7. QED
  BY <1>5, <1>6

-----------------------------------------------------------------------------
(* The pace of creations *)

\* The times s of a merchant's creations and its counter.  The counter counts
\* the creations at the end of s; before the first of them no creation happened
\* for a whole window.
Spaced(s, limit) ==
    /\ s \in Seq(Nat)
    /\ limit \in [last : Nat, count : 0 .. MaxPerWindow]
    /\ \A i, j \in 1 .. Len(s) : i =< j => s[i] =< s[j]
    /\ limit.count =< Len(s)
    /\ Len(s) > 0 => limit.count > 0 /\ limit.last = s[Len(s)]
    /\ Len(s) > limit.count =>
           s[Len(s) - limit.count + 1] - s[Len(s) - limit.count] >= WindowSecs
    /\ \A i \in 1 .. Len(s) :
           i + MaxPerWindow =< Len(s) => s[i + MaxPerWindow] - s[i] >= WindowSecs

\* None of the creations is later than t.
Paced(s, limit, t) ==
    Spaced(s, limit) /\ t \in Nat /\ \A i \in 1 .. Len(s) : s[i] =< t

LEMMA GapWidens ==
  ASSUME NEW a \in Int, NEW b \in Int, NEW c \in Int, NEW d \in Int, NEW w \in Int,
         a =< b, c - b >= w, c =< d
  PROVE  d - a >= w
OBVIOUS

LEMMA Repeated ==
  ASSUME NEW s \in Seq(Nat), NEW c \in Nat, NEW t \in Nat,
         NEW u, u = s \o [i \in 1 .. c |-> t]
  PROVE  /\ u \in Seq(Nat)
         /\ Len(u) = Len(s) + c
         /\ \A i \in 1 .. Len(s) + c : u[i] = IF i =< Len(s) THEN s[i] ELSE t
<1> DEFINE r == [i \in 1 .. c |-> t]
<1>1. r \in Seq(Nat) /\ Len(r) = c /\ \A i \in 1 .. c : r[i] = t
  OBVIOUS
<1> HIDE DEF r
<1>2. Len(s) \in Nat
  OBVIOUS
<1>3. /\ s \o r \in Seq(Nat)
      /\ Len(s \o r) = Len(s) + Len(r)
      /\ \A i \in 1 .. Len(s) + Len(r) :
             (s \o r)[i] = IF i <= Len(s) THEN s[i] ELSE r[i - Len(s)]
  BY <1>1, ConcatProperties
<1>4. u = s \o r
  BY DEF r
<1>5. QED
  BY <1>1, <1>2, <1>3, <1>4

\* Some creations, as many as the counter still allows.
LEMMA PacedCreate ==
  ASSUME NEW s, NEW limit, NEW t, Paced(s, limit, t),
         NEW c \in Nat \ {0}, CountAt(limit, t) + c =< MaxPerWindow
  PROVE  Paced(s \o [i \in 1 .. c |-> t],
               [last |-> t, count |-> CountAt(limit, t) + c], t)
<1> DEFINE u == s \o [i \in 1 .. c |-> t]
           n == Len(s)
           b == CountAt(limit, t)
           new == [last |-> t, count |-> b + c]
           M == MaxPerWindow
           W == WindowSecs
<1>1. /\ s \in Seq(Nat) /\ t \in Nat /\ limit.last \in Nat /\ limit.count \in Nat
      /\ n \in Nat /\ M \in Nat \ {0} /\ W \in Nat \ {0}
  BY PaymentsAssumption DEF Paced, Spaced
<1>2. /\ u \in Seq(Nat) /\ Len(u) = n + c
      /\ \A i \in 1 .. n + c : u[i] = IF i =< n THEN s[i] ELSE t
  BY <1>1, Repeated
<1>3. \A i \in 1 .. n : s[i] \in Nat /\ s[i] =< t
  BY <1>1 DEF Paced, Spaced
<1>4. b \in Nat /\ (b = 0 \/ b = limit.count)
  BY <1>1 DEF CountAt
<1>5. b =< n
  BY <1>4, <1>1 DEF Paced, Spaced
<1>6. n > 0 => limit.count > 0 /\ limit.last = s[n]
  BY DEF Paced, Spaced
<1>7. n > 0 /\ b = 0 => t - s[n] >= W
  BY <1>6, <1>1 DEF CountAt
<1>8. n > b /\ b > 0 => s[n - b + 1] - s[n - b] >= W
  BY <1>4 DEF Paced, Spaced
<1>9. \A i, j \in 1 .. n : i =< j => s[i] =< s[j]
  BY DEF Paced, Spaced
<1>10. \A i \in 1 .. n : i + M =< n => s[i + M] - s[i] >= W
  BY DEF Paced, Spaced
<1>11. b + c =< M
  OBVIOUS
<1>12. new \in [last : Nat, count : 0 .. M] /\ new.count = b + c /\ new.last = t
  BY <1>1, <1>4, <1>11
<1> HIDE DEF u, n, b, new, M, W
<1>13. \A i \in 1 .. n : i =< n - b => t - s[i] >= W
  <2> SUFFICES ASSUME NEW i \in 1 .. n, i =< n - b
               PROVE  t - s[i] >= W
    OBVIOUS
  <2>1. CASE b = 0
    <3>1. n \in 1 .. n /\ s[i] =< s[n]
      BY <1>1, <1>9
    <3>2. QED
      BY <2>1, <3>1, <1>3, <1>7, <1>1
  <2>2. CASE b > 0
    <3>1. n - b \in 1 .. n /\ n - b + 1 \in 1 .. n
      BY <2>2, <1>1, <1>4
    <3>2. s[i] =< s[n - b]
      BY <3>1, <1>9
    <3>3. s[n - b + 1] - s[n - b] >= W
      BY <2>2, <3>1, <1>8, <1>1, <1>4
    <3>4. s[n - b + 1] =< t /\ s[n - b + 1] \in Nat /\ s[n - b] \in Nat /\ s[i] \in Nat
      BY <3>1, <1>3
    <3> DEFINE x == s[i]
               y == s[n - b]
               z == s[n - b + 1]
    <3>5. x =< y /\ z - y >= W /\ z =< t /\ x \in Int /\ y \in Int /\ z \in Int
      BY <3>2, <3>3, <3>4
    <3>6. t \in Int /\ W \in Int
      BY <1>1
    <3> HIDE DEF x, y, z
    <3>7. t - x >= W
      BY <3>5, <3>6, GapWidens
    <3>8. QED
      BY <3>7 DEF x
  <2>3. QED
    BY <2>1, <2>2, <1>4
<1>14. \A i, j \in 1 .. n + c : i =< j => u[i] =< u[j]
  <2> SUFFICES ASSUME NEW i \in 1 .. n + c, NEW j \in 1 .. n + c, i =< j
               PROVE  u[i] =< u[j]
    OBVIOUS
  <2>1. CASE j =< n
    <3>1. i \in 1 .. n /\ j \in 1 .. n
      BY <2>1, <1>1
    <3>2. QED
      BY <3>1, <1>2, <1>9
  <2>2. CASE i > n
    <3>1. ~(i =< n) /\ ~(j =< n)
      BY <2>2, <1>1
    <3>2. u[i] = t /\ u[j] = t
      BY <3>1, <1>2
    <3>3. QED
      BY <3>2, <1>1
  <2>3. CASE i =< n /\ j > n
    <3>1. i \in 1 .. n /\ ~(j =< n)
      BY <2>3, <1>1
    <3>2. u[i] = s[i] /\ u[j] = t
      BY <3>1, <1>2
    <3>3. QED
      BY <3>1, <3>2, <1>3
  <2>4. QED
    BY <2>1, <2>2, <2>3, <1>1
<1>15. \A i \in 1 .. n + c : u[i] =< t
  <2> SUFFICES ASSUME NEW i \in 1 .. n + c
               PROVE  u[i] =< t
    OBVIOUS
  <2>1. CASE i =< n
    <3>1. i \in 1 .. n /\ u[i] = s[i]
      BY <2>1, <1>1, <1>2
    <3>2. QED
      BY <3>1, <1>3
  <2>2. CASE ~(i =< n)
    <3>1. u[i] = t
      BY <2>2, <1>2
    <3>2. QED
      BY <3>1, <1>1
  <2>3. QED
    BY <2>1, <2>2
<1>16. u[n + c] = t
  BY <1>1, <1>2
<1>17. n + c > b + c => u[n - b + 1] - u[n - b] >= W
  <2> SUFFICES ASSUME n > b
               PROVE  u[n - b + 1] - u[n - b] >= W
    BY <1>1, <1>4
  <2>1. n - b \in 1 .. n /\ n - b + 1 \in 1 .. n + c
    BY <1>1, <1>4
  <2>2. u[n - b] = s[n - b]
    BY <2>1, <1>1, <1>2
  <2>3. CASE b = 0
    <3>1. u[n - b + 1] = t
      BY <2>1, <2>3, <1>1, <1>2
    <3>2. QED
      BY <3>1, <2>1, <2>2, <1>13
  <2>4. CASE b > 0
    <3>1. n - b + 1 =< n
      BY <2>4, <1>1, <1>4
    <3>2. u[n - b + 1] = s[n - b + 1]
      BY <3>1, <2>1, <1>2
    <3>3. QED
      BY <3>2, <2>2, <2>4, <1>8
  <2>5. QED
    BY <2>3, <2>4, <1>4
<1>18. \A i \in 1 .. n + c : i + M =< n + c => u[i + M] - u[i] >= W
  <2> SUFFICES ASSUME NEW i \in 1 .. n + c, i + M =< n + c
               PROVE  u[i + M] - u[i] >= W
    OBVIOUS
  <2>1. i \in 1 .. n /\ i =< n - b /\ i + M \in 1 .. n + c
    BY <1>1, <1>4, <1>11
  <2>2. u[i] = s[i]
    BY <2>1, <1>2
  <2>3. CASE i + M =< n
    BY <2>1, <2>2, <2>3, <1>2, <1>10
  <2>4. CASE i + M > n
    BY <2>1, <2>2, <2>4, <1>1, <1>2, <1>13
  <2>5. QED
    BY <2>3, <2>4, <2>1, <1>1
<1>19. n + c - (b + c) = n - b /\ n + c > 0 /\ b + c > 0 /\ b + c =< n + c
  BY <1>1, <1>4, <1>5
<1>20. Paced(u, new, t)
  <2> DEFINE k == n + c
             d == b + c
  <2>1. Len(u) = k /\ new.count = d /\ new.last = t /\ u[k] = t
    BY <1>2, <1>12, <1>16
  <2>2. k > 0 /\ d > 0 /\ d =< k /\ k - d = n - b /\ k - d + 1 = n - b + 1
    BY <1>1, <1>4, <1>19
  <2>3. k > d => u[k - d + 1] - u[k - d] >= W
    BY <2>2, <1>17
  <2>4. /\ \A i, j \in 1 .. k : i =< j => u[i] =< u[j]
        /\ \A i \in 1 .. k : i + M =< k => u[i + M] - u[i] >= W
        /\ \A i \in 1 .. k : u[i] =< t
    BY <1>14, <1>15, <1>18
  <2> HIDE DEF k, d
  <2>5. Spaced(u, new)
    BY <1>2, <1>12, <2>1, <2>2, <2>3, <2>4 DEF Spaced, M, W
  <2>6. QED
    BY <2>1, <2>4, <2>5, <1>1 DEF Paced
<1>21. QED
  BY <1>20 DEF u, new, b

LEMMA PacedOne ==
  ASSUME NEW s, NEW limit, NEW t, Paced(s, limit, t),
         CountAt(limit, t) + 1 =< MaxPerWindow
  PROVE  Paced(Append(s, t), [last |-> t, count |-> CountAt(limit, t) + 1], t)
<1> DEFINE c == 1
           r == [i \in 1 .. c |-> t]
<1>1. s \in Seq(Nat) /\ t \in Nat
  BY DEF Paced, Spaced
<1>2. Append(s, t) = s \o r
  BY <1>1
<1>3. c \in Nat \ {0} /\ CountAt(limit, t) + c =< MaxPerWindow
  OBVIOUS
<1> HIDE DEF c
<1>4. Paced(s \o r, [last |-> t, count |-> CountAt(limit, t) + c], t)
  BY <1>3, PacedCreate
<1>5. QED
  BY <1>2, <1>4 DEF c

LEMMA PacedLater ==
  ASSUME NEW s, NEW limit, NEW t, Paced(s, limit, t)
  PROVE  Paced(s, limit, t + 1)
<1>1. t \in Nat /\ s \in Seq(Nat) /\ \A i \in 1 .. Len(s) : s[i] =< t
  BY DEF Paced, Spaced
<1>2. ASSUME NEW i \in 1 .. Len(s)
      PROVE  s[i] =< t + 1
  <2>1. s[i] \in Nat /\ s[i] =< t
    BY <1>1, <1>2
  <2>2. QED
    BY <2>1, <1>1
<1>3. t + 1 \in Nat
  BY <1>1
<1> DEFINE u == t + 1
<1> HIDE DEF u
<1>4. u \in Nat /\ \A i \in 1 .. Len(s) : s[i] =< u
  BY <1>2, <1>3 DEF u
<1>5. Paced(s, limit, u)
  BY <1>4 DEF Paced
<1>6. QED
  BY <1>5 DEF u

-----------------------------------------------------------------------------
(* The truth of a status *)

\* StatusTruth of a payment, as a fact about the fields it depends on.
Truthful(status, amount, received, created, confirmed, expires, tol, t) ==
    /\ status \in {"Pending", "Failed", "Expired"} <=> received = None
    /\ status \in {"Confirmed", "Settled"} =>
           -tol =< received - amount /\ received - amount =< tol
    /\ status = "Overpaid" => received - amount > tol
    /\ status = "PartiallyPaid" => received - amount < -tol
    /\ received # None => created =< confirmed /\ confirmed =< expires
    /\ status = "Expired" => expires =< t

True(c, t) == Truthful(c.status, c.amount, c.received, c.createdAt, c.confirmedAt,
                       c.expiresAt, Tolerance[c.token], t)

\* A stored charge at time t.
Sound(c, t) == c \in PaymentCharge /\ c.createdAt =< t /\ True(c, t)

LEMMA ConstantFacts ==
  /\ Receipts \subseteq Int /\ None \notin Receipts /\ None \notin Nat
  /\ Tolerance \in [Tokens -> Nat] /\ Durations \subseteq Nat \ {0}
  /\ Amounts \subseteq Int /\ DefaultToken \in Tokens
  /\ None \notin PaymentIds /\ None \notin ClientKeys
<1>1. Receipts \subseteq Int
  BY PaymentsAssumption
<1>2. None \notin Int
  BY PaymentsAssumption
<1>3. Tolerance \in [Tokens -> Nat]
  BY PaymentsAssumption
<1>4. Durations \subseteq Nat \ {0}
  BY PaymentsAssumption
<1>5. Amounts \subseteq Int /\ DefaultToken \in Tokens
  BY PaymentsAssumption
<1>6. None \notin PaymentIds /\ None \notin ClientKeys
  BY PaymentsAssumption
<1>7. None \notin Receipts
  BY <1>1, <1>2, Zenon
<1>8. None \notin Nat
  <2>1. \A x \in Nat : x \in Int
    OBVIOUS
  <2>2. QED
    BY <2>1, <1>2, Zenon
<1>9. QED
  BY <1>1, <1>3, <1>4, <1>5, <1>6, <1>7, <1>8, Zenon

LEMMA FreshSound ==
  ASSUME NEW a \in CreatePaymentArgs, a.amount > 0, now \in Nat
  PROVE  /\ Sound(ChargeOf(a), now)
         /\ ChargeOf(a).status = "Pending" /\ ChargeOf(a).key = a.key
<1> DEFINE c == ChargeOf(a)
<1>1. /\ a.merchant \in Merchants /\ a.token \in Tokens
      /\ a.amount \in Amounts /\ a.duration \in Durations
      /\ a.key \in ClientKeys \cup {None}
  BY DEF CreatePaymentArgs
<1>2. a.amount \in Nat \ {0} /\ a.duration \in Nat
  <2>1. a.amount \in Int /\ a.duration \in Nat \ {0}
    BY <1>1, ConstantFacts, Zenon
  <2>2. QED
    BY <2>1
<1>3. now + a.duration \in Nat /\ now =< now
  BY <1>2
<1>4. /\ c.status = "Pending" /\ c.received = None /\ c.createdAt = now /\ c.key = a.key
  BY DEF ChargeOf
<1>5. c \in PaymentCharge
  BY <1>1, <1>2, <1>3 DEF ChargeOf, PaymentCharge, Statuses
<1> HIDE DEF c
<1>6. True(c, now)
  BY <1>4 DEF True, Truthful
<1>7. Sound(c, now)
  BY <1>3, <1>4, <1>5, <1>6 DEF Sound
<1>8. QED
  BY <1>4, <1>7 DEF c

\* What a handler that finds a charge leaves of it.
SameTerms(c, d) ==
    /\ d.merchant = c.merchant /\ d.amount = c.amount /\ d.token = c.token
    /\ d.createdAt = c.createdAt /\ d.expiresAt = c.expiresAt /\ d.key = c.key

LEMMA StatusOnly ==
  ASSUME NEW c \in PaymentCharge, NEW s \in Statuses,
         NEW d, d = [c EXCEPT !.status = s]
  PROVE  /\ d \in PaymentCharge /\ d.status = s /\ SameTerms(c, d)
         /\ d.received = c.received /\ d.confirmedAt = c.confirmedAt
BY DEF PaymentCharge, SameTerms

LEMMA ClosedSound ==
  ASSUME NEW c, NEW t, Sound(c, t), c.status = "Pending",
         NEW s \in {"Failed", "Expired"}, s = "Expired" => c.expiresAt =< t,
         NEW d, d = [c EXCEPT !.status = s]
  PROVE  Sound(d, t) /\ SameTerms(c, d) /\ d.status = s
<1>1. c \in PaymentCharge /\ s \in Statuses
  BY DEF Sound, Statuses
<1>2. /\ d \in PaymentCharge /\ d.status = s /\ SameTerms(c, d)
      /\ d.received = c.received
  BY <1>1, StatusOnly
<1>3. c.received = None
  BY DEF Sound, True, Truthful
<1>4. True(d, t)
  BY <1>2, <1>3 DEF True, Truthful, SameTerms
<1>5. d.createdAt =< t
  BY <1>2 DEF Sound, SameTerms
<1>6. QED
  BY <1>2, <1>4, <1>5 DEF Sound

LEMMA SettledSound ==
  ASSUME NEW c, NEW t, Sound(c, t), c.status = "Confirmed",
         NEW d, d = [c EXCEPT !.status = "Settled"]
  PROVE  Sound(d, t) /\ SameTerms(c, d) /\ d.status = "Settled"
<1>1. c \in PaymentCharge /\ "Settled" \in Statuses
  BY DEF Sound, Statuses
<1>2. /\ d \in PaymentCharge /\ d.status = "Settled" /\ SameTerms(c, d)
      /\ d.received = c.received /\ d.confirmedAt = c.confirmedAt
  BY <1>1, StatusOnly
<1>3. True(d, t)
  BY <1>2 DEF Sound, True, Truthful, SameTerms
<1>4. d.createdAt =< t
  BY <1>2 DEF Sound, SameTerms
<1>5. QED
  BY <1>2, <1>3, <1>4 DEF Sound

\* The outcome names exactly the side of the tolerance that was hit.
LEMMA OutcomeFacts ==
  ASSUME NEW diff \in Int, NEW tol \in Nat
  PROVE  /\ Outcome(diff, tol) \in {"Overpaid", "Confirmed", "PartiallyPaid"}
         /\ Outcome(diff, tol) = "Confirmed" => -tol =< diff /\ diff =< tol
         /\ Outcome(diff, tol) = "Overpaid" => diff > tol
         /\ Outcome(diff, tol) = "PartiallyPaid" => diff < -tol
<1>1. CASE diff > tol
  BY <1>1 DEF Outcome
<1>2. CASE ~(diff > tol) /\ diff >= -tol
  BY <1>2 DEF Outcome
<1>3. CASE ~(diff > tol) /\ ~(diff >= -tol)
  BY <1>3 DEF Outcome
<1>4. QED
  BY <1>1, <1>2, <1>3

LEMMA ReportSound ==
  ASSUME NEW c, NEW t \in Nat, Sound(c, t), c.status = "Pending", t =< c.expiresAt,
         NEW received \in Receipts, NEW s,
         s = Outcome(received - c.amount, Tolerance[c.token]),
         NEW d, d = [c EXCEPT !.status = s, !.received = received, !.confirmedAt = t]
  PROVE  /\ Sound(d, t) /\ SameTerms(c, d)
         /\ d.status \in {"Overpaid", "Confirmed", "PartiallyPaid"}
<1>1. c \in PaymentCharge /\ c.createdAt =< t
  BY DEF Sound
<1>2. /\ c.amount \in Int /\ c.token \in Tokens /\ received \in Int /\ received # None
      /\ Tolerance[c.token] \in Nat
  BY <1>1, ConstantFacts DEF PaymentCharge
<1>3. received - c.amount \in Int
  BY <1>2
<1>4. /\ s \in {"Overpaid", "Confirmed", "PartiallyPaid"}
      /\ s = "Confirmed" =>
             -Tolerance[c.token] =< received - c.amount /\ received - c.amount =< Tolerance[c.token]
      /\ s = "Overpaid" => received - c.amount > Tolerance[c.token]
      /\ s = "PartiallyPaid" => received - c.amount < -Tolerance[c.token]
  BY <1>2, <1>3, OutcomeFacts
<1>5. s \in Statuses
  BY <1>4 DEF Statuses
<1>6. /\ d.status = s /\ d.received = received /\ d.confirmedAt = t /\ SameTerms(c, d)
  BY <1>1 DEF PaymentCharge, SameTerms
<1>7. d \in PaymentCharge
  BY <1>1, <1>5 DEF PaymentCharge
<1>8. True(d, t)
  BY <1>1, <1>2, <1>4, <1>6 DEF True, Truthful, SameTerms
<1>9. d.createdAt =< t
  BY <1>1, <1>6 DEF SameTerms
<1>10. QED
  BY <1>4, <1>6, <1>7, <1>8, <1>9 DEF Sound

LEMMA SoundLater ==
  ASSUME NEW c, NEW t \in Nat, Sound(c, t), NEW u, u = t + 1
  PROVE  Sound(c, u)
<1>1. c.createdAt \in Nat /\ c.expiresAt \in Nat /\ c \in PaymentCharge
  BY DEF Sound, PaymentCharge
<1>2. c.createdAt =< u
  BY <1>1 DEF Sound
<1>3. c.expiresAt =< t => c.expiresAt =< u
  BY <1>1
<1>4. True(c, u)
  BY <1>3 DEF Sound, True, Truthful
<1>5. QED
  BY <1>1, <1>2, <1>4 DEF Sound
-----------------------------------------------------------------------------
(* The inductive invariant *)

ChargesSound ==
    /\ payment \in [PaymentIds -> PaymentCharge \cup {NoPayment}]
    /\ \A p \in PaymentIds : Exists(p) => Sound(payment[p], now)

KeysStored ==
    /\ idempotencyKey \in [ClientKeys -> PaymentIds \cup {None}]
    /\ \A k \in ClientKeys : idempotencyKey[k] # None => Exists(idempotencyKey[k])
    /\ \A p \in PaymentIds :
           Exists(p) /\ payment[p].key # None => idempotencyKey[payment[p].key] # None

AllPaced ==
    /\ rateLimit \in [Merchants -> [last : Nat, count : 0 .. MaxPerWindow]]
    /\ creations \in [Merchants -> Seq(Nat)]
    /\ \A m \in Merchants : Paced(creations[m], rateLimit[m], now)

IndexTyped == merchantPayments \in [Merchants -> [PaymentIds -> Nat]]

SettingsTyped ==
    /\ merchantLimits \in [Merchants -> Limits]
    /\ globalLimits \in Limits
    /\ allowedTokens \in SUBSET Tokens
    /\ paused \in BOOLEAN
    /\ creationPaused \in BOOLEAN
    /\ merchantRole \in SUBSET Merchants
    /\ inStanding \in SUBSET Merchants

\* StatusIsTrue, KeysAnswer and WindowRespected with what makes them inductive:
\* the facts about the counter, which is all the contract keeps of the past.
IInv ==
    /\ ChargesSound
    /\ KeysStored
    /\ AllPaced
    /\ IndexTyped
    /\ SettingsTyped
    /\ now \in Nat

\* What the action properties allow a step.
KeysKept ==
    /\ \A p \in PaymentIds :
           Exists(p)' /\ payment'[p].key # None => idempotencyKey'[payment'[p].key] # None
    /\ \A k \in ClientKeys : idempotencyKey[k] # None =>
           /\ Exists(idempotencyKey[k])
           /\ idempotencyKey'[k] = idempotencyKey[k]

LifeKept ==
    \A p \in PaymentIds : Exists(p) =>
       LET c == payment[p]
           d == payment'[p]
       IN  /\ <<d.merchant, d.amount, d.token, d.createdAt, d.expiresAt, d.key>>
                  = <<c.merchant, c.amount, c.token, c.createdAt, c.expiresAt, c.key>>
           /\ c.status # "Pending" =>
                  \/ d = c
                  \/ c.status = "Confirmed" /\ d = [c EXCEPT !.status = "Settled"]
           /\ c.status = "Pending" => d.status # "Settled"

PauseKept ==
    paused => \A p \in PaymentIds :
       payment'[p].status \in {payment[p].status, "Expired", "Settled"}

Kept == KeysKept /\ LifeKept /\ PauseKept

LEMMA StatusFacts ==
  /\ NoPayment.status = "None"
  /\ \A c \in PaymentCharge : c.status \in Statuses /\ c.status # "None"
BY DEF NoPayment, PaymentCharge, Statuses

-----------------------------------------------------------------------------
(* Steps that leave the payments alone *)

LEMMA PaymentsUntouched ==
  ASSUME IInv, UNCHANGED <<payment, idempotencyKey>>
  PROVE  Kept
<1>1. LifeKept
  BY DEF LifeKept
<1>2. PauseKept
  BY DEF PauseKept
<1>3. KeysKept
  BY DEF KeysKept, IInv, KeysStored, Exists
<1>4. QED
  BY <1>1, <1>2, <1>3 DEF Kept

\* Limits, allowances, pauses, roles and standing.
LEMMA SettingsStep ==
  ASSUME IInv, UNCHANGED <<records, now>>, SettingsTyped'
  PROVE  IInv' /\ Kept
<1>1. UNCHANGED <<payment, merchantPayments, idempotencyKey, rateLimit, creations, now>>
  BY DEF records
<1>2. Kept
  BY <1>1, PaymentsUntouched
<1>3. IInv'
  BY <1>1 DEF IInv, ChargesSound, KeysStored, AllPaced, IndexTyped, Exists
<1>4. QED
  BY <1>2, <1>3

LEMMA TickStep ==
  ASSUME IInv, Tick
  PROVE  IInv' /\ Kept
<1>1. /\ UNCHANGED <<payment, merchantPayments, idempotencyKey, rateLimit, creations>>
      /\ UNCHANGED settings /\ now' = now + 1 /\ now \in Nat /\ now' \in Nat
  BY DEF Tick, records, IInv
<1>2. Kept
  BY <1>1, PaymentsUntouched
<1>3. ChargesSound'
  <2>1. ASSUME NEW p \in PaymentIds, Exists(p)
        PROVE  Sound(payment[p], now')
    BY <1>1, <2>1, SoundLater DEF IInv, ChargesSound
  <2>2. QED
    BY <1>1, <2>1 DEF IInv, ChargesSound, Exists
<1>4. AllPaced'
  <2>1. ASSUME NEW m \in Merchants
        PROVE  Paced(creations[m], rateLimit[m], now + 1)
    BY PacedLater DEF IInv, AllPaced
  <2>2. QED
    BY <1>1, <2>1 DEF IInv, AllPaced
<1>5. KeysStored' /\ IndexTyped'
  BY <1>1 DEF IInv, KeysStored, IndexTyped, Exists
<1>6. SettingsTyped'
  BY <1>1 DEF IInv, SettingsTyped, settings
<1>7. QED
  BY <1>1, <1>2, <1>3, <1>4, <1>5, <1>6 DEF IInv

-----------------------------------------------------------------------------
(* Steps that change one payment *)

Changed(p, d) ==
    /\ payment' = [payment EXCEPT ![p] = d]
    /\ Sound(d, now) /\ SameTerms(payment[p], d)
    /\ payment[p].status # "Pending" =>
           payment[p].status = "Confirmed" /\ d = [payment[p] EXCEPT !.status = "Settled"]
    /\ payment[p].status = "Pending" => d.status # "Settled"
    /\ paused => d.status \in {"Expired", "Settled"}
    /\ UNCHANGED <<merchantPayments, idempotencyKey, rateLimit, creations, settings, now>>

LEMMA ChangedStep ==
  ASSUME IInv, NEW p \in PaymentIds, Exists(p), NEW d, Changed(p, d)
  PROVE  IInv' /\ Kept
<1> DEFINE c == payment[p]
<1>1. /\ UNCHANGED <<merchantPayments, idempotencyKey, rateLimit, creations, now>>
      /\ UNCHANGED settings /\ Sound(d, now) /\ SameTerms(c, d)
  BY DEF Changed
<1>2. d \in PaymentCharge /\ d.status # "None" /\ d.key = c.key
  BY <1>1, StatusFacts DEF Sound, SameTerms
<1>3. payment \in [PaymentIds -> PaymentCharge \cup {NoPayment}]
  BY DEF IInv, ChargesSound
<1>4. payment'[p] = d /\ \A q \in PaymentIds : q # p => payment'[q] = payment[q]
  BY <1>3 DEF Changed
<1>5. payment' \in [PaymentIds -> PaymentCharge \cup {NoPayment}]
  BY <1>2, <1>3 DEF Changed
<1>6. \A q \in PaymentIds : Exists(q)' <=> Exists(q)
  BY <1>2, <1>4 DEF Exists
<1>7. \A q \in PaymentIds : payment'[q].key = payment[q].key
  BY <1>2, <1>4
<1>8. ChargesSound'
  BY <1>1, <1>4, <1>5, <1>6 DEF IInv, ChargesSound
<1>9. KeysStored
  BY DEF IInv
<1>10. None \notin PaymentIds
  BY ConstantFacts
<1>11. KeysStored'
  <2>1. ASSUME NEW k \in ClientKeys, idempotencyKey[k] # None
        PROVE  Exists(idempotencyKey[k])'
    <3>1. idempotencyKey[k] \in PaymentIds /\ Exists(idempotencyKey[k])
      BY <2>1, <1>9 DEF KeysStored
    <3>2. QED
      BY <3>1, <1>1, <1>6 DEF Exists
  <2>2. QED
    BY <1>1, <1>6, <1>7, <1>9, <2>1 DEF KeysStored
<1>12. AllPaced' /\ IndexTyped' /\ SettingsTyped' /\ (now \in Nat)'
  BY <1>1 DEF IInv, AllPaced, IndexTyped, SettingsTyped, settings
<1>13. IInv'
  BY <1>8, <1>11, <1>12 DEF IInv
<1>14. KeysKept
  BY <1>1, <1>6, <1>7, <1>9 DEF KeysKept, KeysStored
<1>15. LifeKept
  <2>1. ASSUME NEW q \in PaymentIds, Exists(q), q # p
        PROVE  payment'[q] = payment[q] /\ payment[q].status # "None"
    BY <2>1, <1>4 DEF Exists
  <2>2. /\ <<d.merchant, d.amount, d.token, d.createdAt, d.expiresAt, d.key>>
              = <<c.merchant, c.amount, c.token, c.createdAt, c.expiresAt, c.key>>
        /\ c.status # "Pending" =>
              c.status = "Confirmed" /\ d = [c EXCEPT !.status = "Settled"]
        /\ c.status = "Pending" => d.status # "Settled"
    BY DEF Changed, SameTerms
  <2>3. QED
    BY <1>4, <2>1, <2>2 DEF LifeKept
<1>16. PauseKept
  BY <1>4 DEF PauseKept, Changed
<1>17. QED
  BY <1>13, <1>14, <1>15, <1>16 DEF Kept

LEMMA VerifyShape ==
  ASSUME IInv, NEW p \in PaymentIds, NEW received \in Receipts, VerifyPayment(p, received)
  PROVE  Exists(p) /\ \E d : Changed(p, d)
<1> DEFINE c == payment[p]
           s == Outcome(received - c.amount, Tolerance[c.token])
           d == [c EXCEPT !.status = s, !.received = received, !.confirmedAt = now]
<1>1. ~paused /\ c.status = "Pending" /\ now =< c.expiresAt /\ now \in Nat
  BY DEF VerifyPayment, IInv
<1>2. Exists(p) /\ Sound(c, now)
  BY <1>1 DEF Exists, IInv, ChargesSound
<1>3. payment \in [PaymentIds -> PaymentCharge \cup {NoPayment}]
  BY DEF IInv, ChargesSound
<1>4. /\ payment' = [payment EXCEPT ![p].status = s, ![p].received = received,
                                    ![p].confirmedAt = now]
      /\ UNCHANGED <<merchantPayments, idempotencyKey, rateLimit, creations, settings, now>>
  BY DEF VerifyPayment
<1>5. payment' = [payment EXCEPT ![p] = d]
  <2> HIDE DEF s
  <2>1. QED
    BY <1>3, <1>4
<1>6. /\ Sound(d, now) /\ SameTerms(c, d)
      /\ d.status \in {"Overpaid", "Confirmed", "PartiallyPaid"}
  <2> HIDE DEF c
  <2>1. QED
    BY <1>1, <1>2, ReportSound
<1> HIDE DEF d
<1>7. Changed(p, d)
  BY <1>1, <1>4, <1>5, <1>6 DEF Changed
<1>8. QED
  BY <1>2, <1>7

LEMMA CloseShape ==
  ASSUME IInv, NEW p \in PaymentIds, CancelPayment(p) \/ ExpirePayment(p)
  PROVE  Exists(p) /\ \E d : Changed(p, d)
<1> DEFINE c == payment[p]
<1>1. c.status = "Pending" /\ now \in Nat
  BY DEF CancelPayment, ExpirePayment, IInv
<1>2. Exists(p) /\ Sound(c, now) /\ c.expiresAt \in Nat
  BY <1>1 DEF Exists, IInv, ChargesSound, Sound, PaymentCharge
<1>3. payment \in [PaymentIds -> PaymentCharge \cup {NoPayment}]
  BY DEF IInv, ChargesSound
<1>4. PICK s \in {"Failed", "Expired"} :
         /\ payment' = [payment EXCEPT ![p].status = s]
         /\ s = "Expired" => c.expiresAt =< now
         /\ paused => s = "Expired"
         /\ UNCHANGED <<merchantPayments, idempotencyKey, rateLimit, creations, settings, now>>
  <2>1. CASE CancelPayment(p) /\ now >= c.expiresAt
    BY <2>1, <1>1, <1>2 DEF CancelPayment
  <2>2. CASE CancelPayment(p) /\ ~(now >= c.expiresAt)
    BY <2>2 DEF CancelPayment
  <2>3. CASE ExpirePayment(p)
    BY <2>3, <1>1, <1>2 DEF ExpirePayment
  <2>4. QED
    BY <2>1, <2>2, <2>3
<1> DEFINE d == [c EXCEPT !.status = s]
<1>5. payment' = [payment EXCEPT ![p] = d]
  BY <1>3, <1>4
<1>6. Sound(d, now) /\ SameTerms(c, d) /\ d.status = s
  <2> HIDE DEF c
  <2>1. QED
    BY <1>1, <1>2, <1>4, ClosedSound
<1> HIDE DEF d
<1>7. Changed(p, d)
  BY <1>1, <1>4, <1>5, <1>6 DEF Changed
<1>8. QED
  BY <1>2, <1>7

LEMMA SettleShape ==
  ASSUME IInv, NEW p \in PaymentIds, NEW split, SettlePayment(p, split)
  PROVE  Exists(p) /\ \E d : Changed(p, d)
<1> DEFINE c == payment[p]
           d == [c EXCEPT !.status = "Settled"]
<1>1. c.status = "Confirmed"
  BY DEF SettlePayment
<1>2. Exists(p) /\ Sound(c, now)
  BY <1>1 DEF Exists, IInv, ChargesSound
<1>3. payment \in [PaymentIds -> PaymentCharge \cup {NoPayment}]
  BY DEF IInv, ChargesSound
<1>4. /\ payment' = [payment EXCEPT ![p].status = "Settled"]
      /\ UNCHANGED <<merchantPayments, idempotencyKey, rateLimit, creations, settings, now>>
  BY DEF SettlePayment
<1>5. payment' = [payment EXCEPT ![p] = d]
  BY <1>3, <1>4
<1>6. Sound(d, now) /\ SameTerms(c, d) /\ d.status = "Settled"
  <2> HIDE DEF c
  <2>1. QED
    BY <1>1, <1>2, SettledSound
<1>7. d = [payment[p] EXCEPT !.status = "Settled"]
  OBVIOUS
<1> HIDE DEF d
<1>8. Changed(p, d)
  BY <1>1, <1>4, <1>5, <1>6, <1>7 DEF Changed
<1>9. QED
  BY <1>2, <1>8
-----------------------------------------------------------------------------
(* Steps that create payments *)

Created ==
    /\ ~paused
    /\ payment' \in [PaymentIds -> PaymentCharge \cup {NoPayment}]
    /\ \A p \in PaymentIds :
           \/ payment'[p] = payment[p]
           \/ /\ ~Exists(p)
              /\ Sound(payment'[p], now) /\ payment'[p].status = "Pending"
              /\ payment'[p].key # None => idempotencyKey'[payment'[p].key] # None
    /\ idempotencyKey' \in [ClientKeys -> PaymentIds \cup {None}]
    /\ \A k \in ClientKeys :
           \/ idempotencyKey'[k] = idempotencyKey[k]
           \/ /\ idempotencyKey[k] = None
              /\ idempotencyKey'[k] # None
              /\ payment'[idempotencyKey'[k]].status # "None"
    /\ IndexTyped'
    /\ AllPaced'
    /\ UNCHANGED <<settings, now>>

LEMMA CreatedStep ==
  ASSUME IInv, Created
  PROVE  IInv' /\ Kept
<1>1. UNCHANGED settings /\ now' = now /\ now \in Nat /\ AllPaced' /\ IndexTyped'
  BY DEF Created, IInv
<1>2. payment \in [PaymentIds -> PaymentCharge \cup {NoPayment}]
  BY DEF IInv, ChargesSound
<1>3. payment' \in [PaymentIds -> PaymentCharge \cup {NoPayment}]
  BY DEF Created
<1>4. \A p \in PaymentIds : Exists(p) => payment'[p] = payment[p] /\ Exists(p)'
  BY DEF Created, Exists
<1>5. ASSUME NEW p \in PaymentIds, Exists(p)'
      PROVE  /\ Sound(payment'[p], now)
             /\ payment'[p].key # None => idempotencyKey'[payment'[p].key] # None
  <2>1. CASE payment'[p] = payment[p]
    <3>1. Exists(p) /\ Sound(payment[p], now)
      BY <1>5, <2>1 DEF Exists, IInv, ChargesSound
    <3>2. payment[p].key \in ClientKeys \cup {None}
      BY <3>1 DEF Sound, PaymentCharge
    <3>3. payment[p].key # None => idempotencyKey[payment[p].key] # None
      BY <3>1 DEF IInv, KeysStored
    <3>4. payment[p].key # None => idempotencyKey'[payment[p].key] # None
      BY <3>2, <3>3 DEF Created
    <3>5. QED
      BY <2>1, <3>1, <3>4
  <2>2. CASE payment'[p] # payment[p]
    BY <2>2 DEF Created
  <2>3. QED
    BY <2>1, <2>2
<1>6. ChargesSound'
  BY <1>1, <1>3, <1>5 DEF ChargesSound
<1>7. \A k \in ClientKeys : idempotencyKey[k] # None =>
          Exists(idempotencyKey[k]) /\ idempotencyKey'[k] = idempotencyKey[k]
  BY DEF Created, IInv, KeysStored
<1>8. ASSUME NEW k \in ClientKeys, idempotencyKey'[k] # None
      PROVE  payment'[idempotencyKey'[k]].status # "None"
  <2>1. CASE idempotencyKey'[k] = idempotencyKey[k]
    <3>1. idempotencyKey[k] \in PaymentIds /\ Exists(idempotencyKey[k])
      BY <1>8, <2>1, <1>7 DEF IInv, KeysStored
    <3>2. QED
      BY <2>1, <3>1, <1>4 DEF Exists
  <2>2. CASE idempotencyKey'[k] # idempotencyKey[k]
    BY <2>2 DEF Created
  <2>3. QED
    BY <2>1, <2>2
<1>9. idempotencyKey' \in [ClientKeys -> PaymentIds \cup {None}]
  BY DEF Created
<1>10. KeysStored'
  BY <1>5, <1>8, <1>9 DEF KeysStored, Exists
<1>11. SettingsTyped'
  BY <1>1 DEF IInv, SettingsTyped, settings
<1>12. IInv'
  BY <1>1, <1>6, <1>10, <1>11 DEF IInv
<1>13. KeysKept
  BY <1>5, <1>7 DEF KeysKept
<1>14. LifeKept
  BY <1>4 DEF LifeKept
<1>15. PauseKept
  BY DEF PauseKept, Created
<1>16. QED
  BY <1>12, <1>13, <1>14, <1>15 DEF Kept

LEMMA CreateShape ==
  ASSUME IInv, NEW a \in CreatePaymentArgs, CreatePayment(a)
  PROVE  Created
<1> DEFINE m == a.merchant
           b == CountAt(rateLimit[m], now)
           c == ChargeOf(a)
<1>1. a.id \in PaymentIds /\ m \in Merchants /\ a.key \in ClientKeys \cup {None}
  BY DEF CreatePaymentArgs
<1>2. /\ ~paused /\ ~Exists(a.id) /\ a.amount > 0 /\ b < MaxPerWindow
      /\ a.key # None => idempotencyKey[a.key] = None
      /\ payment' = [payment EXCEPT ![a.id] = c]
      /\ merchantPayments' = [merchantPayments EXCEPT ![m][a.id] = @ + 1]
      /\ idempotencyKey' = [k \in ClientKeys |->
             IF k = a.key THEN a.id ELSE idempotencyKey[k]]
      /\ rateLimit' = [rateLimit EXCEPT ![m] = [last |-> now, count |-> b + 1]]
      /\ creations' = [creations EXCEPT ![m] = Append(@, now)]
      /\ UNCHANGED <<settings, now>>
  BY DEF CreatePayment, Acceptable
<1>3. now \in Nat /\ now' = now
  BY <1>2 DEF IInv
<1>4. /\ Sound(c, now) /\ c \in PaymentCharge
      /\ c.status = "Pending" /\ c.key = a.key
  BY <1>2, <1>3, FreshSound DEF Sound
<1>5. payment \in [PaymentIds -> PaymentCharge \cup {NoPayment}]
  BY DEF IInv, ChargesSound
<1> HIDE DEF c
<1>6. payment' \in [PaymentIds -> PaymentCharge \cup {NoPayment}]
  BY <1>1, <1>2, <1>4, <1>5
<1>7. payment'[a.id] = c /\ \A p \in PaymentIds : p # a.id => payment'[p] = payment[p]
  BY <1>1, <1>2, <1>5
<1>8. KeysStored /\ None \notin PaymentIds
  BY ConstantFacts DEF IInv
<1>9. idempotencyKey' \in [ClientKeys -> PaymentIds \cup {None}]
  BY <1>1, <1>2, <1>8 DEF KeysStored
<1>10. a.key # None => idempotencyKey'[a.key] # None
  BY <1>1, <1>2, <1>8
<1>11. ASSUME NEW k \in ClientKeys
       PROVE  \/ idempotencyKey'[k] = idempotencyKey[k]
              \/ /\ idempotencyKey[k] = None
                 /\ idempotencyKey'[k] # None
                 /\ payment'[idempotencyKey'[k]].status # "None"
  <2>1. CASE k = a.key
    <3>1. k # None
      BY ConstantFacts
    <3>2. idempotencyKey[k] = None /\ idempotencyKey'[k] = a.id
      BY <2>1, <3>1, <1>2
    <3>3. QED
      BY <3>2, <1>1, <1>4, <1>7, <1>8
  <2>2. CASE k # a.key
    BY <2>2, <1>2
  <2>3. QED
    BY <2>1, <2>2
<1>12. IndexTyped'
  BY <1>1, <1>2 DEF IInv, IndexTyped
<1>13. AllPaced'
  <2> DEFINE s == creations[m]
             u == Append(s, now)
             new == [last |-> now, count |-> b + 1]
  <2>1. /\ Paced(s, rateLimit[m], now) /\ s \in Seq(Nat)
        /\ rateLimit \in [Merchants -> [last : Nat, count : 0 .. MaxPerWindow]]
        /\ creations \in [Merchants -> Seq(Nat)]
    BY <1>1 DEF IInv, AllPaced
  <2>2. b \in Nat /\ MaxPerWindow \in Nat
    BY <2>1, <1>1, PaymentsAssumption DEF CountAt
  <2>3. b + 1 =< MaxPerWindow
    BY <2>2, <1>2
  <2>4. Paced(u, new, now)
    BY <2>1, <2>3, PacedOne
  <2>5. Append(s, now) = u
    OBVIOUS
  <2>6. new \in [last : Nat, count : 0 .. MaxPerWindow] /\ u \in Seq(Nat)
    BY <2>4 DEF Paced, Spaced
  <2> HIDE DEF u, new
  <2>7. rateLimit' = [rateLimit EXCEPT ![m] = new]
    BY <1>2 DEF new
  <2>8. creations' = [creations EXCEPT ![m] = u]
    BY <1>2, <2>5
  <2>9. /\ rateLimit' \in [Merchants -> [last : Nat, count : 0 .. MaxPerWindow]]
        /\ creations' \in [Merchants -> Seq(Nat)]
    BY <1>1, <2>1, <2>6, <2>7, <2>8
  <2>10. ASSUME NEW n \in Merchants
         PROVE  Paced(creations'[n], rateLimit'[n], now)
    <3>1. CASE n = m
      BY <3>1, <1>1, <2>1, <2>4, <2>7, <2>8
    <3>2. CASE n # m
      BY <3>2, <1>1, <2>1, <2>7, <2>8 DEF IInv, AllPaced
    <3>3. QED
      BY <3>1, <3>2
  <2>11. QED
    BY <2>9, <2>10, <1>3 DEF AllPaced
<1>14. ASSUME NEW p \in PaymentIds
       PROVE  \/ payment'[p] = payment[p]
              \/ /\ ~Exists(p)
                 /\ Sound(payment'[p], now) /\ payment'[p].status = "Pending"
                 /\ payment'[p].key # None => idempotencyKey'[payment'[p].key] # None
  BY <1>2, <1>4, <1>7, <1>10
<1>15. QED
  BY <1>2, <1>6, <1>9, <1>11, <1>12, <1>13, <1>14 DEF Created

Latest(S) == CHOOSE i \in S : \A j \in S : j =< i

LEMMA BatchShape ==
  ASSUME IInv, NEW n \in Nat, NEW batch \in [1 .. n -> CreatePaymentArgs],
         CreatePaymentsBatch(batch)
  PROVE  Created
<1>0. DOMAIN batch = 1 .. n
  OBVIOUS
<1> DEFINE forId(p) == {i \in DOMAIN batch : batch[i].id = p}
           forKey(k) == {i \in DOMAIN batch : batch[i].key = k}
           of(m) == {i \in DOMAIN batch : batch[i].merchant = m}
           count(m) == Cardinality(of(m))
<1>1. /\ ~paused
      /\ \A i \in DOMAIN batch : Acceptable(batch[i])
      /\ \A m \in Merchants :
             count(m) > 0 => CountAt(rateLimit[m], now) + count(m) =< MaxPerWindow
      /\ payment' = [p \in PaymentIds |->
             IF forId(p) # {} THEN ChargeOf(batch[Latest(forId(p))]) ELSE payment[p]]
      /\ idempotencyKey' = [k \in ClientKeys |->
             IF forKey(k) # {} THEN batch[Latest(forKey(k))].id ELSE idempotencyKey[k]]
      /\ merchantPayments' = [m \in Merchants |->
             [p \in PaymentIds |->
                 merchantPayments[m][p] + Cardinality(of(m) \cap forId(p))]]
      /\ rateLimit' = [m \in Merchants |->
             IF count(m) > 0
             THEN [last |-> now, count |-> CountAt(rateLimit[m], now) + count(m)]
             ELSE rateLimit[m]]
      /\ creations' = [m \in Merchants |->
             creations[m] \o [i \in 1 .. count(m) |-> now]]
      /\ UNCHANGED <<settings, now>>
  BY DEF CreatePaymentsBatch, Latest
<1>2. now \in Nat /\ now' = now
  BY <1>1 DEF IInv
<1>3. ASSUME NEW S \in SUBSET (DOMAIN batch), S # {}
      PROVE  Latest(S) \in S
  BY <1>0, <1>3, LastExists DEF Latest
<1>4. ASSUME NEW i \in DOMAIN batch
      PROVE  /\ batch[i].id \in PaymentIds /\ batch[i].merchant \in Merchants
             /\ batch[i].key \in ClientKeys \cup {None}
             /\ ~Exists(batch[i].id)
             /\ batch[i].key # None => idempotencyKey[batch[i].key] = None
             /\ Sound(ChargeOf(batch[i]), now) /\ ChargeOf(batch[i]) \in PaymentCharge
             /\ ChargeOf(batch[i]).status = "Pending" /\ ChargeOf(batch[i]).key = batch[i].key
  <2>1. batch[i] \in CreatePaymentArgs /\ Acceptable(batch[i])
    BY <1>1
  <2>2. /\ batch[i].id \in PaymentIds /\ batch[i].merchant \in Merchants
        /\ batch[i].key \in ClientKeys \cup {None}
    BY <2>1 DEF CreatePaymentArgs
  <2>3. /\ ~Exists(batch[i].id) /\ batch[i].amount > 0
        /\ batch[i].key # None => idempotencyKey[batch[i].key] = None
    BY <2>1 DEF Acceptable
  <2>4. /\ Sound(ChargeOf(batch[i]), now)
        /\ ChargeOf(batch[i]).status = "Pending" /\ ChargeOf(batch[i]).key = batch[i].key
    BY <2>1, <2>3, <1>2, FreshSound
  <2>5. QED
    BY <2>2, <2>3, <2>4 DEF Sound
<1>5. KeysStored /\ None \notin PaymentIds /\ None \notin ClientKeys
  BY ConstantFacts DEF IInv
<1>6. ASSUME NEW p \in PaymentIds, forId(p) # {}
      PROVE  \E i \in DOMAIN batch : batch[i].id = p /\ payment'[p] = ChargeOf(batch[i])
  <2>1. Latest(forId(p)) \in forId(p)
    BY <1>3, <1>6
  <2>2. payment'[p] = ChargeOf(batch[Latest(forId(p))])
    BY <1>1, <1>6
  <2>3. QED
    BY <2>1, <2>2
<1>7. ASSUME NEW p \in PaymentIds, forId(p) = {}
      PROVE  payment'[p] = payment[p]
  BY <1>1, <1>7
<1>8. ASSUME NEW k \in ClientKeys, forKey(k) # {}
      PROVE  \E i \in DOMAIN batch : batch[i].key = k /\ idempotencyKey'[k] = batch[i].id
  <2>1. Latest(forKey(k)) \in forKey(k)
    BY <1>3, <1>8
  <2>2. idempotencyKey'[k] = batch[Latest(forKey(k))].id
    BY <1>1, <1>8
  <2>3. QED
    BY <2>1, <2>2
<1>9. ASSUME NEW k \in ClientKeys, forKey(k) = {}
      PROVE  idempotencyKey'[k] = idempotencyKey[k]
  BY <1>1, <1>9
<1>10. DOMAIN payment' = PaymentIds /\ DOMAIN idempotencyKey' = ClientKeys
  BY <1>1
<1>11. payment' \in [PaymentIds -> PaymentCharge \cup {NoPayment}]
  <2>1. ASSUME NEW p \in PaymentIds
        PROVE  payment'[p] \in PaymentCharge \cup {NoPayment}
    BY <1>4, <1>6, <1>7 DEF IInv, ChargesSound
  <2>2. payment' = [p \in PaymentIds |-> payment'[p]]
    BY <1>1
  <2>3. QED
    BY <2>1, <2>2
<1>12. idempotencyKey' \in [ClientKeys -> PaymentIds \cup {None}]
  <2>1. ASSUME NEW k \in ClientKeys
        PROVE  idempotencyKey'[k] \in PaymentIds \cup {None}
    BY <1>4, <1>5, <1>8, <1>9 DEF KeysStored
  <2>2. idempotencyKey' = [k \in ClientKeys |-> idempotencyKey'[k]]
    BY <1>1
  <2>3. QED
    BY <2>1, <2>2
<1>13. ASSUME NEW p \in PaymentIds
       PROVE  \/ payment'[p] = payment[p]
              \/ /\ ~Exists(p)
                 /\ Sound(payment'[p], now) /\ payment'[p].status = "Pending"
                 /\ payment'[p].key # None => idempotencyKey'[payment'[p].key] # None
  <2>1. CASE forId(p) = {}
    BY <2>1, <1>7
  <2>2. CASE forId(p) # {}
    <3>1. PICK i \in DOMAIN batch : batch[i].id = p /\ payment'[p] = ChargeOf(batch[i])
      BY <2>2, <1>6
    <3>2. /\ ~Exists(p) /\ Sound(payment'[p], now) /\ payment'[p].status = "Pending"
          /\ payment'[p].key = batch[i].key /\ batch[i].key \in ClientKeys \cup {None}
      BY <3>1, <1>4
    <3>3. ASSUME batch[i].key # None
          PROVE  idempotencyKey'[batch[i].key] # None
      <4>1. batch[i].key \in ClientKeys /\ forKey(batch[i].key) # {}
        BY <3>2, <3>3
      <4>2. PICK j \in DOMAIN batch : idempotencyKey'[batch[i].key] = batch[j].id
        BY <4>1, <1>8
      <4>3. QED
        BY <4>2, <1>4, <1>5
    <3>4. QED
      BY <3>2, <3>3
  <2>3. QED
    BY <2>1, <2>2
<1>14. ASSUME NEW k \in ClientKeys
       PROVE  \/ idempotencyKey'[k] = idempotencyKey[k]
              \/ /\ idempotencyKey[k] = None
                 /\ idempotencyKey'[k] # None
                 /\ payment'[idempotencyKey'[k]].status # "None"
  <2>1. CASE forKey(k) = {}
    BY <2>1, <1>9
  <2>2. CASE forKey(k) # {}
    <3>1. PICK i \in DOMAIN batch : batch[i].key = k /\ idempotencyKey'[k] = batch[i].id
      BY <2>2, <1>8
    <3>2. /\ batch[i].id \in PaymentIds /\ k # None /\ idempotencyKey[k] = None
          /\ forId(batch[i].id) # {}
      BY <3>1, <1>4, <1>5
    <3>3. PICK j \in DOMAIN batch : payment'[batch[i].id] = ChargeOf(batch[j])
      BY <3>2, <1>6
    <3>4. payment'[batch[i].id].status = "Pending"
      BY <3>3, <1>4
    <3>5. QED
      BY <3>1, <3>2, <3>4, <1>5
  <2>3. QED
    BY <2>1, <2>2
<1>15. ASSUME NEW S \in SUBSET (DOMAIN batch)
       PROVE  Cardinality(S) \in Nat
  <2>1. IsFiniteSet(1 .. n)
    BY FS_Interval
  <2>2. IsFiniteSet(S)
    BY <1>0, <2>1, FS_Subset
  <2>3. QED
    BY <2>2, FS_CardinalityType
<1>16. \A m \in Merchants : count(m) \in Nat
  BY <1>15
<1>17. IndexTyped'
  <2>1. \A m \in Merchants, p \in PaymentIds : Cardinality(of(m) \cap forId(p)) \in Nat
    BY <1>15
  <2>2. \A m \in Merchants, p \in PaymentIds : merchantPayments[m][p] \in Nat
    BY DEF IInv, IndexTyped
  <2>3. \A m \in Merchants, p \in PaymentIds :
            merchantPayments[m][p] + Cardinality(of(m) \cap forId(p)) \in Nat
    BY <2>1, <2>2
  <2> HIDE DEF of, forId
  <2>4. QED
    BY <1>1, <2>3 DEF IndexTyped
<1>18. AllPaced'
  <2> HIDE DEF count
  <2>1. /\ \A m \in Merchants : Paced(creations[m], rateLimit[m], now)
        /\ rateLimit \in [Merchants -> [last : Nat, count : 0 .. MaxPerWindow]]
        /\ creations \in [Merchants -> Seq(Nat)]
    BY DEF IInv, AllPaced
  <2>2. ASSUME NEW m \in Merchants
        PROVE  Paced(creations'[m], rateLimit'[m], now)
    <3> DEFINE c == count(m)
               s == creations[m]
               u == s \o [i \in 1 .. c |-> now]
    <3>1. c \in Nat /\ creations'[m] = u /\ s \in Seq(Nat) /\ Paced(s, rateLimit[m], now)
      BY <1>1, <1>16, <2>1
    <3>2. CASE c > 0
      <4>1. c \in Nat \ {0} /\ CountAt(rateLimit[m], now) + c =< MaxPerWindow
        BY <3>1, <3>2, <1>1
      <4>2. rateLimit'[m] = [last |-> now, count |-> CountAt(rateLimit[m], now) + c]
        BY <3>2, <1>1
      <4> HIDE DEF c, s
      <4>3. Paced(u, [last |-> now, count |-> CountAt(rateLimit[m], now) + c], now)
        BY <3>1, <4>1, PacedCreate
      <4>4. QED
        BY <4>2, <4>3, <3>1
    <3>3. CASE c = 0
      <4>1. rateLimit'[m] = rateLimit[m]
        BY <3>3, <1>1
      <4>0. u = s \o [i \in 1 .. c |-> now]
        OBVIOUS
      <4> HIDE DEF s, c, u
      <4>2. /\ u \in Seq(Nat) /\ Len(u) = Len(s)
            /\ \A i \in 1 .. Len(s) : u[i] = s[i]
        <5>1. /\ u \in Seq(Nat) /\ Len(u) = Len(s) + c
              /\ \A i \in 1 .. Len(s) + c : u[i] = IF i =< Len(s) THEN s[i] ELSE now
          BY <4>0, <3>1, <1>2, Repeated
        <5>2. Len(s) \in Nat
          BY <3>1
        <5>3. QED
          BY <5>1, <5>2, <3>3
      <4>3. u = s
        BY <4>2, <3>1, SeqEqual
      <4>4. QED
        BY <4>1, <4>3, <3>1
    <3>4. QED
      BY <3>1, <3>2, <3>3
  <2>3. ASSUME NEW m \in Merchants
        PROVE  /\ rateLimit'[m] \in [last : Nat, count : 0 .. MaxPerWindow]
               /\ creations'[m] \in Seq(Nat)
    BY <2>2 DEF Paced, Spaced
  <2>4. /\ rateLimit' = [m \in Merchants |-> rateLimit'[m]]
        /\ creations' = [m \in Merchants |-> creations'[m]]
    BY <1>1
  <2>5. /\ rateLimit' \in [Merchants -> [last : Nat, count : 0 .. MaxPerWindow]]
        /\ creations' \in [Merchants -> Seq(Nat)]
    BY <2>3, <2>4
  <2>6. QED
    BY <2>2, <2>5, <1>2 DEF AllPaced
<1>19. QED
  BY <1>1, <1>11, <1>12, <1>13, <1>14, <1>17, <1>18 DEF Created
-----------------------------------------------------------------------------
(* The invariant is inductive *)

LEMMA InitGood ==
  ASSUME Init
  PROVE  IInv
<1>1. \A p \in PaymentIds : payment[p] = NoPayment /\ ~Exists(p)
  BY StatusFacts DEF Init, Exists
<1>2. ChargesSound
  BY <1>1 DEF Init, ChargesSound
<1>3. KeysStored
  BY <1>1 DEF Init, KeysStored
<1>4. AllPaced
  <2>1. MaxPerWindow \in Nat
    BY PaymentsAssumption
  <2>2. <<>> \in Seq(Nat) /\ Len(<<>>) = 0
    OBVIOUS
  <2> DEFINE s == <<>>
             limit == [last |-> 0, count |-> 0]
  <2>3. limit \in [last : Nat, count : 0 .. MaxPerWindow] /\ limit.count = 0
    BY <2>1
  <2>4. /\ now = 0 /\ creations = [m \in Merchants |-> s]
        /\ rateLimit = [m \in Merchants |-> limit]
    BY DEF Init
  <2>5. s \in Seq(Nat) /\ Len(s) = 0 /\ \A i \in 1 .. Len(s) : FALSE
    BY <2>2
  <2> HIDE DEF s, limit
  <2>6. Paced(s, limit, 0)
    BY <2>3, <2>5 DEF Paced, Spaced
  <2>7. QED
    BY <2>3, <2>4, <2>5, <2>6 DEF AllPaced
<1>5. IndexTyped
  BY DEF Init, IndexTyped
<1>6. SettingsTyped
  BY ConstantFacts DEF Init, SettingsTyped, Limits
<1>7. now \in Nat
  BY DEF Init
<1>8. QED
  BY <1>2, <1>3, <1>4, <1>5, <1>6, <1>7 DEF IInv

LEMMA NextStep ==
  ASSUME IInv, [Next]_vars
  PROVE  IInv' /\ Kept
<1> DEFINE Goal == IInv' /\ Kept
<1>1. SettingsTyped
  BY DEF IInv
<1>2. ASSUME NEW a \in CreatePaymentArgs, CreatePayment(a)
      PROVE  Goal
  BY <1>2, CreateShape, CreatedStep
<1>3. ASSUME NEW n \in 1 .. MaxBatch, NEW batch \in [1 .. n -> CreatePaymentArgs],
             CreatePaymentsBatch(batch)
      PROVE  Goal
  <2>1. n \in Nat
    BY PaymentsAssumption
  <2>2. Created
    BY <2>1, <1>3, BatchShape
  <2>3. QED
    BY <2>2, CreatedStep
<1>4. ASSUME NEW p \in PaymentIds, NEW received \in Receipts, VerifyPayment(p, received)
      PROVE  Goal
  BY <1>4, VerifyShape, ChangedStep
<1>5. ASSUME NEW p \in PaymentIds, CancelPayment(p) \/ ExpirePayment(p)
      PROVE  Goal
  BY <1>5, CloseShape, ChangedStep
<1>6. ASSUME NEW p \in PaymentIds, NEW split, SettlePayment(p, split)
      PROVE  Goal
  BY <1>6, SettleShape, ChangedStep
<1>7. ASSUME NEW limits \in LimitChoices, SetGlobalAmountLimits(limits)
      PROVE  Goal
  <2>1. UNCHANGED <<records, now>> /\ SettingsTyped'
    BY <1>1, <1>7 DEF SetGlobalAmountLimits, SettingsTyped, Limits
  <2>2. QED
    BY <2>1, SettingsStep
<1>8. ASSUME NEW limits \in LimitChoices, NEW m \in Merchants,
             SetMerchantAmountLimits(m, limits)
      PROVE  Goal
  <2>1. UNCHANGED <<records, now>> /\ SettingsTyped'
    BY <1>1, <1>8 DEF SetMerchantAmountLimits, SettingsTyped, Limits
  <2>2. QED
    BY <2>1, SettingsStep
<1>9. ASSUME NEW k \in Tokens, AllowToken(k)
      PROVE  Goal
  <2>1. UNCHANGED <<records, now>> /\ SettingsTyped'
    BY <1>1, <1>9 DEF AllowToken, SettingsTyped
  <2>2. QED
    BY <2>1, SettingsStep
<1>10. ASSUME NEW value \in BOOLEAN, SetGlobalPause(value) \/ SetCreationPause(value)
       PROVE  Goal
  <2>1. UNCHANGED <<records, now>> /\ SettingsTyped'
    BY <1>1, <1>10 DEF SetGlobalPause, SetCreationPause, SettingsTyped
  <2>2. QED
    BY <2>1, SettingsStep
<1>11. ASSUME NEW S \in SUBSET Merchants, ChangeMerchantRole(S) \/ ChangeStanding(S)
       PROVE  Goal
  <2>1. UNCHANGED <<records, now>> /\ SettingsTyped'
    BY <1>1, <1>11 DEF ChangeMerchantRole, ChangeStanding, SettingsTyped
  <2>2. QED
    BY <2>1, SettingsStep
<1>12. ASSUME Tick
       PROVE  Goal
  BY <1>12, TickStep
<1>13. ASSUME UNCHANGED vars
       PROVE  Goal
  <2>1. UNCHANGED <<records, now>> /\ SettingsTyped'
    BY <1>1, <1>13 DEF vars, records, SettingsTyped
  <2>2. QED
    BY <2>1, SettingsStep
<1> HIDE DEF Goal
<1>14. ASSUME NEW p \in PaymentIds,
              \/ \E received \in Receipts : VerifyPayment(p, received)
              \/ CancelPayment(p) \/ ExpirePayment(p)
              \/ \E split : SettlePayment(p, split)
       PROVE  Goal
  BY <1>14, <1>4, <1>5, <1>6, Zenon
<1>15. ASSUME NEW limits \in LimitChoices,
              \/ SetGlobalAmountLimits(limits)
              \/ \E m \in Merchants : SetMerchantAmountLimits(m, limits)
       PROVE  Goal
  BY <1>15, <1>7, <1>8, Zenon
<1>16. Goal
  BY <1>2, <1>3, <1>9, <1>10, <1>11, <1>12, <1>13, <1>14, <1>15, Zenon DEF Next
<1>17. QED
  BY <1>16 DEF Goal

LEMMA IInvImplies ==
  ASSUME IInv
  PROVE  TypeOK /\ StatusIsTrue /\ WindowRespected
<1>1. TypeOK
  BY DEF IInv, ChargesSound, KeysStored, AllPaced, IndexTyped, SettingsTyped, TypeOK
<1>2. StatusIsTrue
  <2>1. ASSUME NEW p \in PaymentIds, Exists(p)
        PROVE  StatusTruth(p)
    <3>1. True(payment[p], now)
      BY <2>1 DEF IInv, ChargesSound, Sound
    <3>2. QED
      BY <3>1 DEF StatusTruth, True, Truthful
  <2>2. QED
    BY <2>1 DEF StatusIsTrue
<1>3. WindowRespected
  <2>1. ASSUME NEW m \in Merchants, NEW i \in DOMAIN creations[m],
               i + MaxPerWindow \in DOMAIN creations[m]
        PROVE  creations[m][i + MaxPerWindow] - creations[m][i] >= WindowSecs
    <3> DEFINE s == creations[m]
    <3>1. Spaced(s, rateLimit[m])
      BY DEF IInv, AllPaced, Paced
    <3>2. s \in Seq(Nat)
      BY <3>1 DEF Spaced
    <3>3. DOMAIN s = 1 .. Len(s) /\ Len(s) \in Nat
      BY <3>2
    <3> HIDE DEF s
    <3>4. i \in 1 .. Len(s) /\ i + MaxPerWindow =< Len(s)
      BY <2>1, <3>3, PaymentsAssumption DEF s
    <3>5. s[i + MaxPerWindow] - s[i] >= WindowSecs
      BY <3>1, <3>4 DEF Spaced
    <3>6. QED
      BY <3>5 DEF s
  <2>2. QED
    BY <2>1 DEF WindowRespected
<1>4. QED
  BY <1>1, <1>2, <1>3

-----------------------------------------------------------------------------
(* Theorems *)

\* Every reachable state of the processor satisfies the inductive invariant, for
\* all sets of payments and merchants, any window, rate, amounts and tolerances,
\* and batches of any length.
THEOREM PaymentsInductive == Spec => []IInv
<1>1. IInv /\ [Next]_vars => IInv'
  BY NextStep
<1>2. Init => IInv
  BY InitGood
<1>3. QED
  BY <1>1, <1>2, PTL DEF Spec

\* Type correctness of the processor.
THEOREM PaymentsTypeCorrect == Spec => []TypeOK
BY PaymentsInductive, IInvImplies, PTL

\* What a payment's status says of the money and the clock is so, for good.
THEOREM PaymentsStatusIsTrue == Spec => []StatusIsTrue
BY PaymentsInductive, IInvImplies, PTL

\* The counter and the time of the last creation are enough: no window of
\* WindowSecs seconds ever holds more than MaxPerWindow creations.
THEOREM PaymentsWindowRespected == Spec => []WindowRespected
BY PaymentsInductive, IInvImplies, PTL

\* A key in use keeps its meaning and every payment finds its key stored.
THEOREM PaymentsKeysAnswer == Spec => KeysAnswer
<1>1. IInv /\ [Next]_vars => [KeysKept]_vars
  BY NextStep DEF Kept
<1>2. QED
  BY <1>1, PaymentsInductive, PTL DEF Spec, KeysAnswer, KeysKept

\* What was agreed never changes, a report is final, only paid payments settle,
\* and a paused processor lets payments only expire or settle.
THEOREM PaymentsLifeCycle == Spec => LifeCycle
<1>1. IInv /\ [Next]_vars => [LifeKept /\ PauseKept]_vars
  BY NextStep DEF Kept
<1>2. QED
  BY <1>1, PaymentsInductive, PTL DEF Spec, LifeCycle, LifeKept, PauseKept
=============================================================================
