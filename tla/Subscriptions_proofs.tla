------------------------ MODULE Subscriptions_proofs ------------------------
(***************************************************************************)
(* Theorems about Subscriptions.  The pace of the charges is an argument   *)
(* about one sequence of times and one horizon, the later of the clock and *)
(* the next payment: a charge may not come before the horizon's intervals  *)
(* are over, and only a resume date left by an earlier pause brings the    *)
(* horizon back, by less than an interval.  Every call on a subscription   *)
(* replaces one record (Updated), and each record is shown sound.          *)
(***************************************************************************)
EXTENDS Subscriptions, TLAPS, SequenceTheorems

LEMMA ConstantFacts ==
  /\ \A a \in Amounts : a \in Nat \ {0}
  /\ \A a \in Metered : a \in Nat \ {0}
  /\ \A i \in Intervals : i \in Nat \ {0}
  /\ \A f \in Fees : f \in Nat
  /\ \A c \in Caps : c \in Nat
  /\ \A b \in Balances : b \in Nat
  /\ MaxSubs \in Nat
  /\ MaxTime \in Nat
  /\ None \notin Nat
BY SubscriptionsAssumption

-----------------------------------------------------------------------------
(* The pace of charges *)

TimeOf(c, t0, k) == IF k = 0 THEN t0 ELSE c[k]

\* The charges c of a subscription made at t0, with interval I and L leaps;
\* the next charge is not before h, or h has passed.
Pace(c, t0, I, L, h) ==
    /\ \A j \in 1 .. Len(c) : \A i \in 0 .. j - 1 :
          (j - i - L) * I =< TimeOf(c, t0, j) - TimeOf(c, t0, i)
    /\ \A i \in 0 .. Len(c) :
          (Len(c) - i + 1 - L) * I =< h - TimeOf(c, t0, i)

LEMMA TimeOfType ==
  ASSUME NEW c \in Seq(Nat), NEW t0 \in Nat, NEW k \in 0 .. Len(c)
  PROVE  TimeOf(c, t0, k) \in Nat
BY DEF TimeOf

LEMMA OneLess ==
  ASSUME NEW x \in Int, NEW I \in Int
  PROVE  (x - 1) * I = x * I - I
BY SMT

LEMMA PaceStart ==
  ASSUME NEW t0 \in Nat, NEW I \in Nat
  PROVE  Pace(<<>>, t0, I, 0, t0 + I)
<1>1. Len(<<>>) = 0
  OBVIOUS
<1>2. (0 - 0 + 1 - 0) * I =< (t0 + I) - TimeOf(<<>>, t0, 0)
  BY DEF TimeOf
<1>3. QED
  BY <1>1, <1>2 DEF Pace

LEMMA PaceLater ==
  ASSUME NEW c \in Seq(Nat), NEW t0 \in Nat, NEW I \in Nat, NEW L \in Nat,
         NEW h \in Nat, NEW u \in Nat, Pace(c, t0, I, L, h), h =< u
  PROVE  Pace(c, t0, I, L, u)
<1>1. ASSUME NEW i \in 0 .. Len(c)
      PROVE  (Len(c) - i + 1 - L) * I =< u - TimeOf(c, t0, i)
  <2> DEFINE x == (Len(c) - i + 1 - L) * I
             y == TimeOf(c, t0, i)
  <2>1. x =< h - y
    BY DEF Pace
  <2>2. x \in Int
    <3>1. Len(c) - i + 1 - L \in Int
      OBVIOUS
    <3>2. QED
      BY <3>1
  <2>3. y \in Nat
    BY TimeOfType
  <2> HIDE DEF x, y
  <2>4. x =< u - y
    BY <2>1, <2>2, <2>3
  <2>5. QED
    BY <2>4 DEF x, y
<1>2. QED
  BY <1>1 DEF Pace

\* The horizon comes back by at most an interval, for one more leap.
LEMMA PaceLeap ==
  ASSUME NEW c \in Seq(Nat), NEW t0 \in Nat, NEW I \in Nat, NEW L \in Nat,
         NEW h \in Nat, NEW u \in Nat, Pace(c, t0, I, L, h), h =< u + I
  PROVE  Pace(c, t0, I, L + 1, u)
<1>1. ASSUME NEW j \in 1 .. Len(c), NEW i \in 0 .. j - 1
      PROVE  (j - i - (L + 1)) * I =< TimeOf(c, t0, j) - TimeOf(c, t0, i)
  <2> DEFINE x == j - i - L
             a == TimeOf(c, t0, j)
             b == TimeOf(c, t0, i)
  <2>1. x * I =< a - b
    BY DEF Pace
  <2>2. x \in Int /\ j - i - (L + 1) = x - 1
    OBVIOUS
  <2>3. a \in Nat /\ b \in Nat
    <3>1. j \in 0 .. Len(c) /\ i \in 0 .. Len(c)
      OBVIOUS
    <3>2. QED
      BY <3>1, TimeOfType
  <2> HIDE DEF x, a, b
  <2>4. (x - 1) * I = x * I - I /\ x * I \in Int
    BY <2>2, OneLess
  <2>5. (x - 1) * I =< a - b
    BY <2>1, <2>3, <2>4
  <2>6. QED
    BY <2>2, <2>5 DEF a, b
<1>2. ASSUME NEW i \in 0 .. Len(c)
      PROVE  (Len(c) - i + 1 - (L + 1)) * I =< u - TimeOf(c, t0, i)
  <2> DEFINE x == Len(c) - i + 1 - L
             b == TimeOf(c, t0, i)
  <2>1. x * I =< h - b
    BY DEF Pace
  <2>2. x \in Int /\ Len(c) - i + 1 - (L + 1) = x - 1
    OBVIOUS
  <2>3. b \in Nat
    BY TimeOfType
  <2> HIDE DEF x, b
  <2>4. (x - 1) * I = x * I - I /\ x * I \in Int
    BY <2>2, OneLess
  <2>5. (x - 1) * I =< u - b
    BY <2>1, <2>3, <2>4
  <2>6. QED
    BY <2>2, <2>5 DEF b
<1>3. QED
  BY <1>1, <1>2 DEF Pace

\* A charge at a time t the horizon has reached.
LEMMA PaceCharge ==
  ASSUME NEW c \in Seq(Nat), NEW t0 \in Nat, NEW I \in Nat, NEW L \in Nat,
         NEW t \in Nat, Pace(c, t0, I, L, t), NEW d, d = Append(c, t)
  PROVE  Pace(d, t0, I, L, t + I)
<1> DEFINE n == Len(c)
<1>1. /\ d \in Seq(Nat) /\ Len(d) = n + 1 /\ d[n + 1] = t /\ n \in Nat
      /\ \A i \in 1 .. n : d[i] = c[i]
  BY AppendProperties
<1>2. ASSUME NEW i \in 0 .. n
      PROVE  TimeOf(d, t0, i) = TimeOf(c, t0, i) /\ TimeOf(c, t0, i) \in Nat
  BY <1>1, TimeOfType DEF TimeOf
<1>3. TimeOf(d, t0, n + 1) = t
  BY <1>1 DEF TimeOf
<1>4. ASSUME NEW i \in 0 .. n
      PROVE  (n + 1 - i - L) * I =< t - TimeOf(c, t0, i)
  <2>1. (n - i + 1 - L) * I =< t - TimeOf(c, t0, i)
    BY DEF Pace
  <2>2. n - i + 1 - L = n + 1 - i - L
    BY <1>1
  <2>3. QED
    BY <2>1, <2>2
<1>5. ASSUME NEW j \in 1 .. Len(d), NEW i \in 0 .. j - 1
      PROVE  (j - i - L) * I =< TimeOf(d, t0, j) - TimeOf(d, t0, i)
  <2>1. CASE j = n + 1
    <3>1. i \in 0 .. n
      BY <1>1, <2>1
    <3>2. QED
      BY <1>2, <1>3, <1>4, <2>1, <3>1
  <2>2. CASE j # n + 1
    <3>1. j \in 1 .. n /\ j \in 0 .. n /\ i \in 0 .. n
      BY <1>1, <2>2
    <3>2. (j - i - L) * I =< TimeOf(c, t0, j) - TimeOf(c, t0, i)
      BY <3>1 DEF Pace
    <3>3. QED
      BY <1>2, <3>1, <3>2
  <2>3. QED
    BY <2>1, <2>2
<1>6. ASSUME NEW i \in 0 .. Len(d)
      PROVE  (Len(d) - i + 1 - L) * I =< (t + I) - TimeOf(d, t0, i)
  <2>1. CASE i = n + 1
    <3> DEFINE x == Len(d) - i + 1 - L
    <3>1. x = 1 - L /\ x \in Int /\ x =< 1
      BY <1>1, <2>1
    <3> HIDE DEF x
    <3>2. x * I =< 1 * I
      BY <3>1, SMT
    <3>3. x * I \in Int
      BY <3>1
    <3>4. x * I =< (t + I) - t
      BY <3>2, <3>3
    <3>5. QED
      BY <1>3, <2>1, <3>4 DEF x
  <2>2. CASE i # n + 1
    <3> DEFINE x == Len(d) - i + 1 - L
               b == TimeOf(c, t0, i)
    <3>1. i \in 0 .. n
      BY <1>1, <2>2
    <3>2. x \in Int /\ n + 1 - i - L = x - 1
      BY <1>1, <3>1
    <3>3. (x - 1) * I =< t - b
      BY <1>4, <3>1, <3>2
    <3>4. TimeOf(d, t0, i) = b /\ b \in Nat
      BY <1>2, <3>1
    <3> HIDE DEF x, b
    <3>5. (x - 1) * I = x * I - I /\ x * I \in Int
      BY <3>2, OneLess
    <3>6. x * I =< (t + I) - b
      BY <3>3, <3>4, <3>5
    <3>7. QED
      BY <3>4, <3>6 DEF x
  <2>3. QED
    BY <2>1, <2>2
<1>7. \A j \in 1 .. Len(d) : \A i \in 0 .. j - 1 :
          (j - i - L) * I =< TimeOf(d, t0, j) - TimeOf(d, t0, i)
  BY <1>5
<1>8. \A i \in 0 .. Len(d) : (Len(d) - i + 1 - L) * I =< (t + I) - TimeOf(d, t0, i)
  BY <1>6
<1> HIDE DEF n
<1>9. QED
  BY <1>7, <1>8, Zenon DEF Pace

-----------------------------------------------------------------------------
(* One subscription *)

Horizon(r, t) == Greater(r.nextPaymentAt, t)

\* How a status, a cap and n payments go together.
Capped(r, n) ==
    /\ r.totalPayments = n
    /\ r.maxPayments # None => r.totalPayments =< Greater(r.maxPayments, 1)
    /\ r.status = "Expired" => r.maxPayments # None /\ r.totalPayments >= r.maxPayments
    /\ r.status \in {"Active", "Paused"} /\ r.maxPayments # None =>
          r.totalPayments = 0 \/ r.totalPayments < r.maxPayments

\* A subscription with record r, charged at the times c, with L leaps, at time t.
Sound(r, c, L, t) ==
    /\ r \in Subscription
    /\ c \in Seq(Nat)
    /\ L \in Nat
    /\ t \in Nat
    /\ r.nextRetryAt = None
    /\ Capped(r, Len(c))
    /\ r.nextPaymentAt =< t + r.intervalSecs
    /\ Pace(c, r.createdAt, r.intervalSecs, L, Horizon(r, t))

SameTerms(r, u) ==
    /\ u.merchant = r.merchant
    /\ u.payer = r.payer
    /\ u.intervalSecs = r.intervalSecs
    /\ u.maxPayments = r.maxPayments

Ended(r) == r.status \in {"Cancelled", "Expired"}

LEMMA RecordFields ==
  ASSUME NEW r \in Subscription
  PROVE  /\ r.amount \in Nat \ {0}
         /\ r.intervalSecs \in Nat \ {0}
         /\ r.nextPaymentAt \in Nat
         /\ r.status \in {"Active", "Paused", "Cancelled", "Expired"}
         /\ r.createdAt \in Nat
         /\ r.totalPayments \in Nat
         /\ r.maxPayments \in Nat \cup {None}
         /\ r.resumeAt \in Nat \cup {None}
         /\ r.affiliateFeeBps \in Nat \cup {None}
BY DEF Subscription

\* A change of anything but the times and the counters.
LEMMA SoundSame ==
  ASSUME NEW r, NEW c, NEW L, NEW t, Sound(r, c, L, t),
         NEW u \in Subscription,
         u.nextRetryAt = r.nextRetryAt,
         u.nextPaymentAt = r.nextPaymentAt,
         u.intervalSecs = r.intervalSecs,
         u.createdAt = r.createdAt,
         u.totalPayments = r.totalPayments,
         u.maxPayments = r.maxPayments,
         \/ u.status = r.status
         \/ u.status = "Cancelled"
         \/ r.status \in {"Active", "Paused"} /\ u.status \in {"Active", "Paused"}
  PROVE  Sound(u, c, L, t)
<1>1. Capped(u, Len(c))
  BY DEF Sound, Capped
<1>2. Horizon(u, t) = Horizon(r, t)
  BY DEF Horizon
<1>3. QED
  BY <1>1, <1>2 DEF Sound

\* The next payment moves to u.nextPaymentAt, within an interval from now, with
\* a leap if it comes earlier.
LEMMA SoundMoved ==
  ASSUME NEW r, NEW c, NEW L, NEW t, Sound(r, c, L, t),
         r.status \in {"Active", "Paused"},
         NEW u \in Subscription,
         u.status \in {"Active", "Paused"},
         u.nextRetryAt = r.nextRetryAt,
         u.intervalSecs = r.intervalSecs,
         u.createdAt = r.createdAt,
         u.totalPayments = r.totalPayments,
         u.maxPayments = r.maxPayments,
         u.nextPaymentAt =< t + r.intervalSecs,
         NEW M, M = IF u.nextPaymentAt < r.nextPaymentAt THEN L + 1 ELSE L
  PROVE  Sound(u, c, M, t)
<1> DEFINE I == r.intervalSecs
           h == Horizon(r, t)
           k == Horizon(u, t)
<1>1. /\ r \in Subscription /\ c \in Seq(Nat) /\ L \in Nat /\ t \in Nat
      /\ Capped(r, Len(c)) /\ r.nextPaymentAt =< t + I /\ r.nextRetryAt = None
      /\ Pace(c, r.createdAt, I, L, h)
  BY DEF Sound
<1>2. /\ I \in Nat /\ r.createdAt \in Nat /\ r.nextPaymentAt \in Nat
      /\ u.nextPaymentAt \in Nat
  BY <1>1, RecordFields
<1>3. h \in Nat /\ k \in Nat /\ h =< k + I
  BY <1>1, <1>2 DEF Horizon, Greater
<1>4. u.nextPaymentAt >= r.nextPaymentAt => h =< k
  BY <1>1, <1>2 DEF Horizon, Greater
<1> HIDE DEF I, h, k
<1>5. Pace(c, r.createdAt, I, M, k)
  <2>1. CASE u.nextPaymentAt < r.nextPaymentAt
    BY <1>1, <1>2, <1>3, <2>1, PaceLeap
  <2>2. CASE ~(u.nextPaymentAt < r.nextPaymentAt)
    <3>1. h =< k
      BY <1>2, <1>4, <2>2
    <3>2. QED
      BY <1>1, <1>2, <1>3, <2>2, <3>1, PaceLater
  <2>3. QED
    BY <2>1, <2>2
<1>6. Capped(u, Len(c))
  BY <1>1 DEF Capped
<1>7. u.intervalSecs = I /\ u.nextPaymentAt =< t + u.intervalSecs /\ M \in Nat
  BY <1>1, <1>2 DEF I
<1>8. QED
  BY <1>1, <1>5, <1>6, <1>7 DEF Sound, k

LEMMA SoundLater ==
  ASSUME NEW r, NEW c, NEW L, NEW t, NEW u \in Nat, Sound(r, c, L, t), t =< u
  PROVE  Sound(r, c, L, u)
<1> DEFINE I == r.intervalSecs
           h == Horizon(r, t)
           k == Horizon(r, u)
<1>1. /\ r \in Subscription /\ c \in Seq(Nat) /\ L \in Nat /\ t \in Nat
      /\ r.nextPaymentAt =< t + I
      /\ Pace(c, r.createdAt, I, L, h)
  BY DEF Sound
<1>2. I \in Nat /\ r.createdAt \in Nat /\ r.nextPaymentAt \in Nat
  BY <1>1, RecordFields
<1>3. h \in Nat /\ k \in Nat /\ h =< k /\ r.nextPaymentAt =< u + I
  BY <1>1, <1>2 DEF Horizon, Greater
<1> HIDE DEF I, h, k
<1>4. Pace(c, r.createdAt, I, L, k)
  BY <1>1, <1>2, <1>3, PaceLater
<1>5. QED
  BY <1>3, <1>4 DEF Sound, I, k

\* The record Charged makes of a due one.
LEMMA ChargedFields ==
  ASSUME NEW r \in Subscription, now \in Nat
  PROVE  LET u == Charged(r)
         IN  /\ u \in Subscription
             /\ SameTerms(r, u)
             /\ u.createdAt = r.createdAt
             /\ u.nextRetryAt = None
             /\ u.nextPaymentAt = now + r.intervalSecs
             /\ u.totalPayments = r.totalPayments + 1
             /\ u.status = IF r.maxPayments # None /\ r.totalPayments + 1 >= r.maxPayments
                           THEN "Expired" ELSE r.status
<1> DEFINE total == r.totalPayments + 1
           next == now + r.intervalSecs
           status == IF r.maxPayments # None /\ total >= r.maxPayments
                     THEN "Expired" ELSE r.status
           u == Charged(r)
<1>1. u = [r EXCEPT !.totalPayments = total, !.retryCount = 0, !.nextRetryAt = None,
                    !.nextPaymentAt = next, !.status = status]
  BY Zenon DEF Charged
<1>2. total \in Nat /\ next \in Nat /\ 0 \in Nat
      /\ status \in {"Active", "Paused", "Cancelled", "Expired"}
  BY RecordFields
<1> HIDE DEF total, next, status, u
<1>3. u \in Subscription
  BY <1>1, <1>2 DEF Subscription
<1>4. /\ u.merchant = r.merchant /\ u.payer = r.payer
      /\ u.intervalSecs = r.intervalSecs /\ u.maxPayments = r.maxPayments
      /\ u.createdAt = r.createdAt
  BY <1>1 DEF Subscription
<1>5. /\ u.nextRetryAt = None /\ u.nextPaymentAt = next
      /\ u.totalPayments = total /\ u.status = status
  BY <1>1 DEF Subscription
<1>6. QED
  BY <1>3, <1>4, <1>5 DEF SameTerms, u, total, next, status

LEMMA SoundCharged ==
  ASSUME NEW r, NEW c, NEW L, Sound(r, c, L, now), Chargeable(r),
         NEW u, u = Charged(r), NEW d, d = Append(c, now)
  PROVE  Sound(u, d, L, now)
<1> DEFINE I == r.intervalSecs
           h == Horizon(r, now)
<1>1. /\ r \in Subscription /\ c \in Seq(Nat) /\ L \in Nat /\ now \in Nat
      /\ r.nextRetryAt = None /\ Capped(r, Len(c))
      /\ Pace(c, r.createdAt, I, L, h)
  BY DEF Sound
<1>2. /\ I \in Nat /\ r.createdAt \in Nat /\ r.nextPaymentAt \in Nat
      /\ r.totalPayments \in Nat /\ r.maxPayments \in Nat \cup {None} /\ None \notin Nat
  BY <1>1, RecordFields, ConstantFacts
<1>3. r.status = "Active" /\ now >= r.nextPaymentAt
  BY <1>1 DEF Chargeable, DueAt
<1>4. h = now
  BY <1>1, <1>2, <1>3 DEF Horizon, Greater
<1>5. /\ u \in Subscription /\ SameTerms(r, u) /\ u.createdAt = r.createdAt
      /\ u.nextRetryAt = None /\ u.nextPaymentAt = now + I
      /\ u.totalPayments = r.totalPayments + 1
      /\ u.status = IF r.maxPayments # None /\ r.totalPayments + 1 >= r.maxPayments
                    THEN "Expired" ELSE r.status
  BY <1>1, ChargedFields
<1>6. d \in Seq(Nat) /\ Len(d) = Len(c) + 1
  BY <1>1, AppendProperties
<1>7. u.intervalSecs = I /\ u.maxPayments = r.maxPayments
  BY <1>5 DEF SameTerms
<1> HIDE DEF I, h
<1>8. Pace(d, r.createdAt, I, L, now + I)
  BY <1>1, <1>2, <1>4, PaceCharge
<1>9. Horizon(u, now) = now + I
  BY <1>1, <1>2, <1>5 DEF Horizon, Greater
<1>10. Capped(u, Len(d))
  <2>1. u.totalPayments = Len(d)
    BY <1>1, <1>5, <1>6 DEF Capped
  <2>2. r.maxPayments # None => r.totalPayments = 0 \/ r.totalPayments < r.maxPayments
    BY <1>1, <1>3 DEF Capped
  <2>3. r.maxPayments # None => u.totalPayments =< Greater(r.maxPayments, 1)
    BY <1>2, <1>5, <2>2 DEF Greater
  <2>4. u.status = "Expired" => u.maxPayments # None /\ u.totalPayments >= u.maxPayments
    BY <1>3, <1>5, <1>7
  <2>5. u.status \in {"Active", "Paused"} /\ u.maxPayments # None =>
            u.totalPayments < u.maxPayments
    BY <1>2, <1>5, <1>7
  <2>6. QED
    BY <1>7, <2>1, <2>3, <2>4, <2>5 DEF Capped
<1>11. u.nextPaymentAt =< now + u.intervalSecs
  BY <1>1, <1>2, <1>5, <1>7
<1>12. QED
  BY <1>1, <1>5, <1>6, <1>7, <1>8, <1>9, <1>10, <1>11 DEF Sound

\* The record a charge works on.
LEMMA ResumedFields ==
  ASSUME NEW r \in Subscription, now \in Nat
  PROVE  LET u == Resumed(r)
         IN  /\ u \in Subscription
             /\ SameTerms(r, u)
             /\ u.affiliateFeeBps = r.affiliateFeeBps
             /\ u.amount = r.amount
             /\ u.createdAt = r.createdAt
             /\ u.nextRetryAt = r.nextRetryAt
             /\ u.totalPayments = r.totalPayments
             /\ \/ u = r
                \/ /\ r.status = "Paused" /\ u.status = "Active"
                   /\ u.nextPaymentAt =< now + r.intervalSecs
<1> DEFINE next == r.resumeAt + r.intervalSecs
           u == Resumed(r)
<1>1. CASE r.status = "Paused" /\ r.resumeAt # None /\ now >= r.resumeAt
  <2>1. u = [r EXCEPT !.status = "Active", !.resumeAt = None, !.nextPaymentAt = next]
    BY <1>1, Zenon DEF Resumed
  <2>2. next \in Nat /\ next =< now + r.intervalSecs
    BY <1>1, RecordFields
  <2> HIDE DEF next, u
  <2>3. u \in Subscription
    BY <2>1, <2>2 DEF Subscription
  <2>4. /\ u.merchant = r.merchant /\ u.payer = r.payer
        /\ u.intervalSecs = r.intervalSecs /\ u.maxPayments = r.maxPayments
        /\ u.affiliateFeeBps = r.affiliateFeeBps /\ u.amount = r.amount
        /\ u.createdAt = r.createdAt /\ u.nextRetryAt = r.nextRetryAt
        /\ u.totalPayments = r.totalPayments
    BY <2>1 DEF Subscription
  <2>5. u.status = "Active" /\ u.nextPaymentAt = next
    BY <2>1 DEF Subscription
  <2>6. QED
    BY <1>1, <2>2, <2>3, <2>4, <2>5 DEF SameTerms, u
<1>2. CASE ~(r.status = "Paused" /\ r.resumeAt # None /\ now >= r.resumeAt)
  <2>1. u = r
    BY <1>2, Zenon DEF Resumed
  <2>2. QED
    BY <2>1 DEF SameTerms
<1>3. QED
  BY <1>1, <1>2

LEMMA SoundResumed ==
  ASSUME NEW r, NEW c, NEW L, Sound(r, c, L, now),
         NEW u, u = Resumed(r),
         NEW M, M = IF u.nextPaymentAt < r.nextPaymentAt THEN L + 1 ELSE L
  PROVE  Sound(u, c, M, now)
<1>1. r \in Subscription /\ now \in Nat
  BY DEF Sound
<1>2. /\ u \in Subscription /\ SameTerms(r, u)
      /\ u.createdAt = r.createdAt /\ u.nextRetryAt = r.nextRetryAt
      /\ u.totalPayments = r.totalPayments
      /\ \/ u = r
         \/ /\ r.status = "Paused" /\ u.status = "Active"
            /\ u.nextPaymentAt =< now + r.intervalSecs
  BY <1>1, ResumedFields
<1>3. CASE u = r
  <2>1. M = L
    BY <1>1, <1>3, RecordFields
  <2>2. QED
    BY <1>3, <2>1
<1>4. CASE u # r
  BY <1>2, <1>4, SoundMoved DEF SameTerms
<1>5. QED
  BY <1>3, <1>4

-----------------------------------------------------------------------------
(* The money of one charge *)

LEMMA FeeBounds ==
  ASSUME NEW r \in Subscription, r.affiliateFeeBps # None
  PROVE  /\ Fee(r) \in Nat
         /\ r.affiliateFeeBps =< 10000 => Fee(r) =< r.amount
<1> DEFINE a == r.amount
           b == r.affiliateFeeBps
           x == a * b
           f == x \div 10000
<1>1. a \in Nat /\ b \in Nat
  BY RecordFields
<1> HIDE DEF a, b
<1>2. x \in Nat
  BY <1>1
<1>3. b =< 10000 => x =< 10000 * a
  BY <1>1
<1> HIDE DEF x
<1>4. f \in Nat /\ 10000 * f =< x
  BY <1>2
<1> HIDE DEF f
<1>5. b =< 10000 => f =< a
  BY <1>1, <1>2, <1>3, <1>4
<1>6. Fee(r) = f
  BY DEF Fee, f, x, a, b
<1>7. QED
  BY <1>4, <1>5, <1>6 DEF a, b

LEMMA SendableBounds ==
  ASSUME NEW amount \in Int, NEW balance \in Nat, NEW x \in Sendable(amount, balance)
  PROVE  x \in Nat /\ x =< balance /\ (x = 0 \/ x = amount)
BY DEF Sendable

\* What leaves is covered, and more than the payment only for an affiliate that
\* was promised more than the payment.
LEMMA DistributedBounds ==
  ASSUME NEW r \in Subscription, NEW balance \in Nat, balance >= r.amount,
         NEW sent \in Distributed(r, balance)
  PROVE  /\ sent \in Nat
         /\ sent =< balance
         /\ sent > r.amount => r.affiliateFeeBps # None /\ r.affiliateFeeBps > 10000
<1>1. r.amount \in Nat \ {0} /\ r.affiliateFeeBps \in Nat \cup {None}
  BY RecordFields
<1>2. CASE r.affiliateFeeBps = None
  <2>1. sent \in Sendable(r.amount, balance)
    BY <1>2 DEF Distributed
  <2>2. sent \in Nat /\ sent =< balance /\ (sent = 0 \/ sent = r.amount)
    BY <1>1, <2>1, SendableBounds
  <2>3. QED
    BY <1>1, <2>2
<1>3. CASE r.affiliateFeeBps # None
  <2>1. PICK f \in Sendable(Fee(r), balance) :
            \E x \in Sendable(r.amount - Fee(r), balance - f) : sent = f + x
    BY <1>3 DEF Distributed
  <2>2. PICK x \in Sendable(r.amount - Fee(r), balance - f) : sent = f + x
    BY <2>1
  <2>3. Fee(r) \in Nat /\ (r.affiliateFeeBps =< 10000 => Fee(r) =< r.amount)
    BY <1>3, FeeBounds
  <2>4. f \in Nat /\ f =< balance /\ (f = 0 \/ f = Fee(r))
    BY <2>3, SendableBounds
  <2>5. balance - f \in Nat /\ r.amount - Fee(r) \in Int
    BY <1>1, <2>3, <2>4
  <2>6. x \in Nat /\ x =< balance - f /\ (x = 0 \/ x = r.amount - Fee(r))
    BY <2>5, SendableBounds
  <2>7. QED
    BY <1>1, <1>3, <2>2, <2>3, <2>4, <2>6
<1>4. QED
  BY <1>2, <1>3

-----------------------------------------------------------------------------
(* The invariant *)

Types ==
    /\ plan \in [Plans -> SubscriptionPlan \cup {NoPlan}]
    /\ subscription \in [SubscriptionIds -> Subscription \cup {NoSubscription}]
    /\ counter \in 0 .. MaxSubs
    /\ payerSubs \in [Payers -> Seq(SubscriptionIds)]
    /\ held \in Nat
    /\ now \in Nat
    /\ charges \in [SubscriptionIds -> Seq(Nat)]
    /\ leaps \in [SubscriptionIds -> Nat]

Inv ==
    /\ Types
    /\ \A s \in SubscriptionIds :
          /\ Exists(s) => Sound(subscription[s], charges[s], leaps[s], now)
          /\ ~Exists(s) => charges[s] = <<>> /\ leaps[s] = 0
          /\ s > counter => ~Exists(s)

\* What a step may never do to an existing subscription (LifeCycle).
Life ==
    \A s \in SubscriptionIds : Exists(s) =>
        /\ Status(s) \in {"Cancelled", "Expired"} =>
              /\ charges'[s] = charges[s]
              /\ subscription'[s].status \in {"Cancelled", Status(s)}
        /\ subscription'[s].merchant = subscription[s].merchant
        /\ subscription'[s].payer = subscription[s].payer
        /\ subscription'[s].intervalSecs = subscription[s].intervalSecs
        /\ subscription'[s].maxPayments = subscription[s].maxPayments

\* What money may leave (PaidFromTheCharge).
Money ==
    held' < held => \E s \in SubscriptionIds :
        /\ charges'[s] # charges[s]
        /\ subscription[s].affiliateFeeBps # None
        /\ subscription[s].affiliateFeeBps > 10000

\* What is shown of every step.
Kept == Inv' /\ Life /\ Money

\* A step on one subscription, which becomes r, charged at c, with L leaps.
Updated(s, r, c, L) ==
    /\ Exists(s)
    /\ subscription' = [subscription EXCEPT ![s] = r]
    /\ charges' = [charges EXCEPT ![s] = c]
    /\ leaps' = [leaps EXCEPT ![s] = L]
    /\ Sound(r, c, L, now)
    /\ SameTerms(subscription[s], r)
    /\ Ended(subscription[s]) =>
          c = charges[s] /\ r.status \in {"Cancelled", subscription[s].status}
    /\ UNCHANGED rest

LEMMA SoundExists ==
  ASSUME NEW r, NEW c, NEW L, NEW t, Sound(r, c, L, t)
  PROVE  r.status # "None" /\ r \in Subscription /\ c \in Seq(Nat) /\ L \in Nat
BY RecordFields DEF Sound

LEMMA UpdatedKeeps ==
  ASSUME Inv, NEW s \in SubscriptionIds, NEW r, NEW c, NEW L, Updated(s, r, c, L),
         held' \in Nat
  PROVE  Inv' /\ Life
<1>1. /\ Exists(s) /\ r.status # "None"
      /\ r \in Subscription /\ c \in Seq(Nat) /\ L \in Nat
      /\ Sound(r, c, L, now)
      /\ plan' = plan /\ counter' = counter /\ payerSubs' = payerSubs /\ now' = now
  BY SoundExists DEF Updated, rest
<1>2. /\ subscription' = [subscription EXCEPT ![s] = r]
      /\ charges' = [charges EXCEPT ![s] = c]
      /\ leaps' = [leaps EXCEPT ![s] = L]
  BY DEF Updated
<1>3. /\ subscription \in [SubscriptionIds -> Subscription \cup {NoSubscription}]
      /\ charges \in [SubscriptionIds -> Seq(Nat)]
      /\ leaps \in [SubscriptionIds -> Nat]
  BY DEF Inv, Types
<1>4. Types'
  BY <1>1, <1>2, <1>3 DEF Inv, Types
<1>5. ASSUME NEW q \in SubscriptionIds
      PROVE  IF q = s
             THEN subscription'[q] = r /\ charges'[q] = c /\ leaps'[q] = L
             ELSE /\ subscription'[q] = subscription[q]
                  /\ charges'[q] = charges[q]
                  /\ leaps'[q] = leaps[q]
  BY <1>2, <1>3
<1>6. ASSUME NEW q \in SubscriptionIds
      PROVE  /\ Exists(q)' => Sound(subscription'[q], charges'[q], leaps'[q], now')
             /\ ~Exists(q)' => charges'[q] = <<>> /\ leaps'[q] = 0
             /\ q > counter' => ~Exists(q)'
  <2>1. /\ Exists(q) => Sound(subscription[q], charges[q], leaps[q], now)
        /\ ~Exists(q) => charges[q] = <<>> /\ leaps[q] = 0
        /\ q > counter => ~Exists(q)
    BY DEF Inv
  <2>2. CASE q = s
    <3>1. Exists(q)' /\ subscription'[q] = r /\ charges'[q] = c /\ leaps'[q] = L
      BY <1>1, <1>5, <2>2 DEF Exists
    <3>2. QED
      BY <1>1, <2>1, <2>2, <3>1
  <2>3. CASE q # s
    <3>1. /\ subscription'[q] = subscription[q]
          /\ charges'[q] = charges[q]
          /\ leaps'[q] = leaps[q]
      BY <1>5, <2>3
    <3>2. Exists(q)' <=> Exists(q)
      BY <3>1 DEF Exists
    <3>3. QED
      BY <1>1, <2>1, <3>1, <3>2
  <2>4. QED
    BY <2>2, <2>3
<1>7. Inv'
  BY <1>4, <1>6, Zenon DEF Inv
<1>8. ASSUME NEW q \in SubscriptionIds, Exists(q)
      PROVE  /\ Status(q) \in {"Cancelled", "Expired"} =>
                   /\ charges'[q] = charges[q]
                   /\ subscription'[q].status \in {"Cancelled", Status(q)}
             /\ subscription'[q].merchant = subscription[q].merchant
             /\ subscription'[q].payer = subscription[q].payer
             /\ subscription'[q].intervalSecs = subscription[q].intervalSecs
             /\ subscription'[q].maxPayments = subscription[q].maxPayments
  <2>1. CASE q = s
    <3>1. subscription'[q] = r /\ charges'[q] = c
      BY <1>5, <2>1
    <3>2. /\ SameTerms(subscription[s], r)
          /\ Ended(subscription[s]) =>
                c = charges[s] /\ r.status \in {"Cancelled", subscription[s].status}
      BY DEF Updated
    <3>3. QED
      BY <2>1, <3>1, <3>2 DEF SameTerms, Ended, Status
  <2>2. CASE q # s
    <3>1. subscription'[q] = subscription[q] /\ charges'[q] = charges[q]
      BY <1>5, <2>2
    <3>2. QED
      BY <3>1 DEF Status
  <2>3. QED
    BY <2>1, <2>2
<1>9. QED
  BY <1>7, <1>8 DEF Life

\* A step that changes the record alone.
LEMMA RecordChanged ==
  ASSUME Inv, NEW s \in SubscriptionIds, Exists(s), NEW r,
         Sound(r, charges[s], leaps[s], now), SameTerms(subscription[s], r),
         Ended(subscription[s]) => r.status \in {"Cancelled", subscription[s].status},
         subscription' = [subscription EXCEPT ![s] = r],
         UNCHANGED <<rest, held, histories>>
  PROVE  Kept
<1>1. /\ charges' = [charges EXCEPT ![s] = charges[s]]
      /\ leaps' = [leaps EXCEPT ![s] = leaps[s]]
      /\ held' = held /\ held \in Nat /\ UNCHANGED rest
  BY DEF Inv, Types, histories
<1>2. Updated(s, r, charges[s], leaps[s])
  BY <1>1 DEF Updated
<1>3. Inv' /\ Life
  BY <1>1, <1>2, UpdatedKeeps
<1>4. Money
  BY <1>1 DEF Money
<1>5. QED
  BY <1>3, <1>4 DEF Kept

LEMMA ExistingRecord ==
  ASSUME Inv, NEW s \in SubscriptionIds, Exists(s)
  PROVE  /\ subscription[s] \in Subscription
         /\ Sound(subscription[s], charges[s], leaps[s], now)
         /\ now \in Nat
BY DEF Inv, Types, Sound

LEMMA StatusSet ==
  ASSUME NEW r \in Subscription, NEW st \in {"Active", "Paused", "Cancelled"},
         NEW u, u = [r EXCEPT !.status = st]
  PROVE  /\ u \in Subscription /\ SameTerms(r, u) /\ u.status = st
         /\ u.nextRetryAt = r.nextRetryAt /\ u.nextPaymentAt = r.nextPaymentAt
         /\ u.createdAt = r.createdAt /\ u.totalPayments = r.totalPayments
BY DEF Subscription, SameTerms

LEMMA PauseKeeps ==
  ASSUME Inv, NEW s \in SubscriptionIds, PauseSubscription(s)
  PROVE  Kept
<1> DEFINE r == subscription[s]
           u == [r EXCEPT !.status = "Paused"]
<1>1. Exists(s) /\ r.status = "Active"
  BY DEF PauseSubscription, Status, Exists
<1>2. r \in Subscription /\ Sound(r, charges[s], leaps[s], now)
  BY <1>1, ExistingRecord
<1>3. /\ subscription' = [subscription EXCEPT ![s] = u]
      /\ UNCHANGED <<rest, held, histories>>
  BY DEF PauseSubscription
<1> HIDE DEF r
<1>4. /\ u \in Subscription /\ SameTerms(r, u) /\ u.status = "Paused"
      /\ u.nextRetryAt = r.nextRetryAt /\ u.nextPaymentAt = r.nextPaymentAt
      /\ u.createdAt = r.createdAt /\ u.totalPayments = r.totalPayments
  BY <1>2, StatusSet
<1> HIDE DEF u
<1>5. Sound(u, charges[s], leaps[s], now)
  BY <1>1, <1>2, <1>4, SoundSame DEF SameTerms
<1>6. ~Ended(r)
  BY <1>1 DEF Ended
<1>7. QED
  BY <1>1, <1>3, <1>4, <1>5, <1>6, RecordChanged DEF r

LEMMA CancelKeeps ==
  ASSUME Inv, NEW s \in SubscriptionIds, CancelSubscription(s)
  PROVE  Kept
<1> DEFINE r == subscription[s]
           u == [r EXCEPT !.status = "Cancelled"]
<1>1. Exists(s)
  BY DEF CancelSubscription
<1>2. r \in Subscription /\ Sound(r, charges[s], leaps[s], now)
  BY <1>1, ExistingRecord
<1>3. /\ subscription' = [subscription EXCEPT ![s] = u]
      /\ UNCHANGED <<rest, held, histories>>
  BY DEF CancelSubscription
<1> HIDE DEF r
<1>4. /\ u \in Subscription /\ SameTerms(r, u) /\ u.status = "Cancelled"
      /\ u.nextRetryAt = r.nextRetryAt /\ u.nextPaymentAt = r.nextPaymentAt
      /\ u.createdAt = r.createdAt /\ u.totalPayments = r.totalPayments
  BY <1>2, StatusSet
<1> HIDE DEF u
<1>5. Sound(u, charges[s], leaps[s], now)
  BY <1>2, <1>4, SoundSame DEF SameTerms
<1>6. QED
  BY <1>1, <1>3, <1>4, <1>5, RecordChanged DEF r

LEMMA PauseUntilKeeps ==
  ASSUME Inv, NEW s \in SubscriptionIds, NEW date \in 0 .. MaxTime,
         PauseSubscriptionWithResumeDate(s, date)
  PROVE  Kept
<1> DEFINE r == subscription[s]
           u == [r EXCEPT !.status = "Paused", !.resumeAt = date]
<1>1. Exists(s) /\ r.status = "Active" /\ date \in Nat
  BY ConstantFacts DEF PauseSubscriptionWithResumeDate, Status, Exists
<1>2. r \in Subscription /\ Sound(r, charges[s], leaps[s], now)
  BY <1>1, ExistingRecord
<1>3. /\ subscription' = [subscription EXCEPT ![s].status = "Paused",
                                              ![s].resumeAt = date]
      /\ UNCHANGED <<rest, held, histories>>
  BY DEF PauseSubscriptionWithResumeDate
<1>4. subscription' = [subscription EXCEPT ![s] = u]
  <2>1. subscription \in [SubscriptionIds -> Subscription \cup {NoSubscription}]
    BY DEF Inv, Types
  <2>2. QED
    BY <1>3, <2>1
<1> HIDE DEF r
<1>5. u \in Subscription /\ u.status = "Paused"
  BY <1>1, <1>2 DEF Subscription
<1>6. /\ SameTerms(r, u)
      /\ u.nextRetryAt = r.nextRetryAt /\ u.nextPaymentAt = r.nextPaymentAt
      /\ u.createdAt = r.createdAt /\ u.totalPayments = r.totalPayments
  BY <1>2 DEF Subscription, SameTerms
<1> HIDE DEF u
<1>7. Sound(u, charges[s], leaps[s], now)
  BY <1>1, <1>2, <1>5, <1>6, SoundSame DEF SameTerms
<1>8. ~Ended(r)
  BY <1>1 DEF Ended
<1>9. QED
  BY <1>1, <1>3, <1>4, <1>6, <1>7, <1>8, RecordChanged DEF r

LEMMA ResumeKeeps ==
  ASSUME Inv, NEW s \in SubscriptionIds, ResumeSubscription(s)
  PROVE  Kept
<1> DEFINE r == subscription[s]
           next == now + r.intervalSecs
           u == [r EXCEPT !.status = "Active", !.nextPaymentAt = next]
<1>1. Exists(s) /\ r.status = "Paused"
  BY DEF ResumeSubscription, Status, Exists
<1>2. r \in Subscription /\ Sound(r, charges[s], leaps[s], now) /\ now \in Nat
  BY <1>1, ExistingRecord
<1>3. /\ subscription' = [subscription EXCEPT ![s].status = "Active",
                                              ![s].nextPaymentAt = next]
      /\ UNCHANGED <<rest, held, histories>>
  BY DEF ResumeSubscription
<1>4. next \in Nat /\ next =< now + r.intervalSecs /\ ~(next < r.nextPaymentAt)
  <2>1. r.nextPaymentAt =< now + r.intervalSecs
    BY <1>2 DEF Sound
  <2>2. r.intervalSecs \in Nat /\ r.nextPaymentAt \in Nat
    BY <1>2, RecordFields
  <2> HIDE DEF r
  <2>3. QED
    BY <1>2, <2>1, <2>2
<1>5. subscription' = [subscription EXCEPT ![s] = u]
  <2>1. subscription \in [SubscriptionIds -> Subscription \cup {NoSubscription}]
    BY DEF Inv, Types
  <2> HIDE DEF next
  <2>2. QED
    BY <1>3, <2>1
<1> HIDE DEF r, next
<1>6. u \in Subscription /\ u.status = "Active" /\ u.nextPaymentAt = next
  BY <1>2, <1>4 DEF Subscription
<1>7. /\ SameTerms(r, u)
      /\ u.nextRetryAt = r.nextRetryAt
      /\ u.createdAt = r.createdAt /\ u.totalPayments = r.totalPayments
  BY <1>2 DEF Subscription, SameTerms
<1> HIDE DEF u
<1>8. Sound(u, charges[s], leaps[s], now)
  BY <1>1, <1>2, <1>4, <1>6, <1>7, SoundMoved DEF SameTerms
<1>9. ~Ended(r)
  BY <1>1 DEF Ended
<1>10. QED
  BY <1>1, <1>3, <1>5, <1>7, <1>8, <1>9, RecordChanged DEF r

-----------------------------------------------------------------------------
(* Charges *)

\* The record a charge is given: the stored one, or one with another amount.
Given(s, given) ==
    /\ Sound(given, charges[s], leaps[s], now)
    /\ SameTerms(subscription[s], given)
    /\ given.status = subscription[s].status
    /\ given.affiliateFeeBps = subscription[s].affiliateFeeBps

\* What a charge makes of it before it looks whether payment is due.
LEMMA GivenResumed ==
  ASSUME NEW s \in SubscriptionIds, NEW given, Given(s, given),
         NEW r, r = Resumed(given),
         NEW L, L = IF r.nextPaymentAt < given.nextPaymentAt THEN leaps[s] + 1 ELSE leaps[s]
  PROVE  /\ r \in Subscription /\ now \in Nat
         /\ Sound(r, charges[s], L, now)
         /\ SameTerms(subscription[s], r)
         /\ r.affiliateFeeBps = subscription[s].affiliateFeeBps
         /\ Ended(subscription[s]) => r = given
<1>1. Sound(given, charges[s], leaps[s], now) /\ given \in Subscription /\ now \in Nat
  BY DEF Given, Sound
<1>2. Sound(r, charges[s], L, now)
  BY <1>1, SoundResumed
<1>3. /\ r \in Subscription /\ SameTerms(given, r)
      /\ r.affiliateFeeBps = given.affiliateFeeBps
      /\ r = given \/ given.status = "Paused"
  BY <1>1, ResumedFields
<1>4. QED
  BY <1>1, <1>2, <1>3 DEF Given, SameTerms, Ended

LEMMA ChargeKeeps ==
  ASSUME Inv, NEW s \in SubscriptionIds, Exists(s), NEW given, Given(s, given),
         Charge(s, given)
  PROVE  Kept
<1> DEFINE r == Resumed(given)
           moved == r.nextPaymentAt < given.nextPaymentAt
           L == IF moved THEN leaps[s] + 1 ELSE leaps[s]
           c == charges[s]
<1>1. /\ r \in Subscription /\ now \in Nat
      /\ Sound(r, c, L, now)
      /\ SameTerms(subscription[s], r)
      /\ r.affiliateFeeBps = subscription[s].affiliateFeeBps
      /\ Ended(subscription[s]) => r = given
  BY GivenResumed
<1>2. /\ charges \in [SubscriptionIds -> Seq(Nat)]
      /\ leaps \in [SubscriptionIds -> Nat] /\ held \in Nat
  BY DEF Inv, Types
<1>3. ASSUME subscription' = [subscription EXCEPT ![s] = r],
             leaps' = [leaps EXCEPT ![s] = L],
             UNCHANGED <<rest, held, charges>>
      PROVE  Kept
  <2>1. charges' = [charges EXCEPT ![s] = c] /\ held' = held
    BY <1>2, <1>3
  <2>2. Ended(subscription[s]) => r.status \in {"Cancelled", subscription[s].status}
    BY <1>1 DEF Given
  <2> HIDE DEF r, L, c
  <2>3. Updated(s, r, c, L)
    BY <1>1, <1>3, <2>1, <2>2 DEF Updated, c
  <2>4. Inv' /\ Life
    BY <1>2, <2>1, <2>3, UpdatedKeeps
  <2>5. Money
    BY <1>2, <2>1 DEF Money
  <2>6. QED
    BY <2>4, <2>5 DEF Kept
<1>4. ASSUME Chargeable(r),
             subscription' = [subscription EXCEPT ![s] = Charged(r)],
             NEW sent \in Distributed(r, held + r.amount),
             held' = held + r.amount - sent,
             charges' = [charges EXCEPT ![s] = Append(@, now)],
             leaps' = [leaps EXCEPT ![s] = L],
             UNCHANGED rest
      PROVE  Kept
  <2> DEFINE u == Charged(r)
             d == Append(c, now)
             balance == held + r.amount
  <2>1. charges' = [charges EXCEPT ![s] = d]
    BY <1>4
  <2>2. r.amount \in Nat \ {0}
    BY <1>1, RecordFields
  <2>3. balance \in Nat /\ balance >= r.amount
    BY <1>2, <2>2
  <2>4. /\ sent \in Nat /\ sent =< balance
        /\ sent > r.amount => r.affiliateFeeBps # None /\ r.affiliateFeeBps > 10000
    <3> HIDE DEF balance, r
    <3>1. sent \in Distributed(r, balance)
      BY <1>4 DEF balance
    <3>2. QED
      BY <1>1, <2>3, <3>1, DistributedBounds
  <2>5. held' \in Nat /\ (held' < held => sent > r.amount)
    <3> HIDE DEF r
    <3>1. QED
      BY <1>2, <1>4, <2>2, <2>4
  <2>6. ~Ended(subscription[s])
    <3>1. r.status = "Active"
      BY <1>4 DEF Chargeable
    <3> HIDE DEF r
    <3>2. QED
      BY <1>1, <3>1 DEF Given, Ended
  <2> HIDE DEF r, L, c
  <2>7. Sound(u, d, L, now)
    BY <1>1, <1>4, SoundCharged
  <2>8. SameTerms(subscription[s], u)
    <3>1. SameTerms(r, u)
      BY <1>1, ChargedFields
    <3>2. QED
      BY <1>1, <3>1 DEF SameTerms
  <2>9. d # c
    <3>1. c \in Seq(Nat)
      BY <1>2 DEF c
    <3>2. Len(d) = Len(c) + 1 /\ Len(c) \in Nat
      BY <1>1, <3>1, AppendProperties
    <3>3. QED
      BY <3>2
  <2> HIDE DEF u, d
  <2>10. Updated(s, u, d, L)
    BY <1>4, <2>1, <2>6, <2>7, <2>8 DEF Updated, u
  <2>11. Inv' /\ Life
    BY <2>5, <2>10, UpdatedKeeps
  <2>12. charges'[s] = d
    BY <1>2, <2>1
  <2>13. Money
    BY <1>1, <2>4, <2>5, <2>9, <2>12 DEF Money, c
  <2>14. QED
    BY <2>11, <2>13 DEF Kept
<1>5. ASSUME UNCHANGED vars
      PROVE  Kept
  <2>1. Inv'
    BY <1>5 DEF vars, Inv, Types, Exists
  <2>2. Life
    BY <1>5 DEF vars, Life, Status
  <2>3. Money
    BY <1>2, <1>5 DEF vars, Money
  <2>4. QED
    BY <2>1, <2>2, <2>3 DEF Kept
<1>6. CASE /\ ~Chargeable(r)
           /\ subscription' = Stored(s, r, TRUE)
           /\ leaps' = [leaps EXCEPT ![s] = IF moved THEN @ + 1 ELSE @]
           /\ UNCHANGED <<rest, held, charges>>
  <2>1. subscription' = [subscription EXCEPT ![s] = r]
    BY <1>6 DEF Stored
  <2>2. leaps' = [leaps EXCEPT ![s] = L]
    BY <1>6
  <2>3. QED
    BY <1>3, <1>6, <2>1, <2>2
<1>7. CASE /\ Chargeable(r)
           /\ subscription' = Stored(s, Charged(r), TRUE)
           /\ \E sent \in Distributed(r, held + r.amount) :
                 held' = held + r.amount - sent
           /\ charges' = [charges EXCEPT ![s] = Append(@, now)]
           /\ leaps' = [leaps EXCEPT ![s] = IF moved THEN @ + 1 ELSE @]
           /\ UNCHANGED rest
  <2>1. subscription' = [subscription EXCEPT ![s] = Charged(r)]
    BY <1>7 DEF Stored
  <2>2. leaps' = [leaps EXCEPT ![s] = L]
    BY <1>7
  <2>3. PICK sent \in Distributed(r, held + r.amount) : held' = held + r.amount - sent
    BY <1>7
  <2>4. QED
    BY <1>4, <1>7, <2>1, <2>2, <2>3
<1>8. CASE /\ Chargeable(r)
           /\ subscription' = Stored(s, Failed(r), FALSE)
           /\ UNCHANGED <<rest, held, histories>>
  <2>1. subscription' = subscription
    BY <1>8 DEF Stored
  <2>2. UNCHANGED vars
    BY <1>8, <2>1 DEF vars, rest, histories
  <2>3. QED
    BY <1>5, <2>2
<1> HIDE DEF L, c
<1>9. QED
  BY <1>6, <1>7, <1>8, Zenon DEF Charge

LEMMA ChargeSubscriptionKeeps ==
  ASSUME Inv, NEW s \in SubscriptionIds, ChargeSubscription(s)
  PROVE  Kept
<1>1. Exists(s) /\ Charge(s, subscription[s])
  BY DEF ChargeSubscription
<1>2. Given(s, subscription[s])
  BY <1>1, ExistingRecord DEF Given, SameTerms
<1>3. QED
  BY <1>1, <1>2, ChargeKeeps

LEMMA SubmitUsageMetricsKeeps ==
  ASSUME Inv, NEW s \in SubscriptionIds, NEW metered \in Metered,
         SubmitUsageMetrics(s, metered)
  PROVE  Kept
<1> DEFINE r == subscription[s]
           u == [r EXCEPT !.amount = metered]
<1>1. Exists(s) /\ Charge(s, u)
  BY DEF SubmitUsageMetrics
<1>2. r \in Subscription /\ Sound(r, charges[s], leaps[s], now)
  BY <1>1, ExistingRecord
<1>3. metered \in Nat \ {0}
  BY ConstantFacts
<1> HIDE DEF r
<1>4. u \in Subscription
  BY <1>2, <1>3 DEF Subscription
<1>5. /\ u.status = r.status /\ u.affiliateFeeBps = r.affiliateFeeBps
      /\ u.nextRetryAt = r.nextRetryAt /\ u.nextPaymentAt = r.nextPaymentAt
      /\ u.createdAt = r.createdAt /\ u.totalPayments = r.totalPayments
      /\ SameTerms(r, u)
  BY <1>2 DEF Subscription, SameTerms
<1> HIDE DEF u
<1>6. Sound(u, charges[s], leaps[s], now)
  BY <1>2, <1>4, <1>5, SoundSame DEF SameTerms
<1>7. Given(s, u)
  BY <1>5, <1>6 DEF Given, r
<1>8. QED
  BY <1>1, <1>7, ChargeKeeps

-----------------------------------------------------------------------------
(* The other steps *)

\* A step that leaves every subscription as it was.
LEMMA NothingCharged ==
  ASSUME Inv, UNCHANGED <<subscription, held, charges, leaps>>,
         counter' \in 0 .. MaxSubs, counter' >= counter,
         now' \in Nat, now' >= now,
         plan' \in [Plans -> SubscriptionPlan \cup {NoPlan}],
         payerSubs' \in [Payers -> Seq(SubscriptionIds)]
  PROVE  Kept
<1>1. now \in Nat /\ counter \in Nat /\ counter' \in Nat
  BY ConstantFacts DEF Inv, Types
<1>2. Types'
  BY DEF Inv, Types
<1>3. ASSUME NEW s \in SubscriptionIds
      PROVE  /\ Exists(s)' => Sound(subscription'[s], charges'[s], leaps'[s], now')
             /\ ~Exists(s)' => charges'[s] = <<>> /\ leaps'[s] = 0
             /\ s > counter' => ~Exists(s)'
  <2>1. Exists(s)' <=> Exists(s)
    BY DEF Exists
  <2>2. Exists(s) => Sound(subscription[s], charges[s], leaps[s], now')
    BY <1>1, ExistingRecord, SoundLater
  <2>3. s \in Nat
    BY ConstantFacts DEF SubscriptionIds
  <2>4. QED
    BY <1>1, <2>1, <2>2, <2>3 DEF Inv
<1>4. Inv'
  BY <1>2, <1>3, Zenon DEF Inv
<1>5. Life
  BY DEF Life, Status
<1>6. Money
  BY DEF Inv, Types, Money
<1>7. QED
  BY <1>4, <1>5, <1>6 DEF Kept

LEMMA CreatePlanKeeps ==
  ASSUME Inv, NEW q \in Plans, NEW m \in Merchants, NEW amount \in Amounts,
         NEW interval \in Intervals, CreateSubscriptionPlan(q, m, amount, interval)
  PROVE  Kept
<1> DEFINE p == [merchant |-> m, amount |-> amount, intervalSecs |-> interval,
                 active |-> TRUE]
<1>1. amount \in Nat \ {0} /\ interval \in Nat \ {0}
  BY ConstantFacts
<1>2. p \in SubscriptionPlan
  BY <1>1 DEF SubscriptionPlan
<1>3. plan' = [plan EXCEPT ![q] = p]
  BY DEF CreateSubscriptionPlan
<1> HIDE DEF p
<1>4. plan' \in [Plans -> SubscriptionPlan \cup {NoPlan}]
  BY <1>2, <1>3 DEF Inv, Types
<1>5. /\ counter \in 0 .. MaxSubs /\ counter \in Nat /\ now \in Nat
      /\ payerSubs \in [Payers -> Seq(SubscriptionIds)]
  BY ConstantFacts DEF Inv, Types
<1>6. QED
  BY <1>4, <1>5, NothingCharged DEF CreateSubscriptionPlan, histories

LEMMA DeactivatePlanKeeps ==
  ASSUME Inv, NEW q \in Plans, DeactivateSubscriptionPlan(q)
  PROVE  Kept
<1> DEFINE p == plan[q]
           u == [p EXCEPT !.active = FALSE]
<1>1. p \in SubscriptionPlan
  BY DEF DeactivateSubscriptionPlan, Inv, Types
<1>2. plan' = [plan EXCEPT ![q] = u]
  BY DEF DeactivateSubscriptionPlan
<1> HIDE DEF p
<1>3. u \in SubscriptionPlan
  BY <1>1 DEF SubscriptionPlan
<1> HIDE DEF u
<1>4. plan' \in [Plans -> SubscriptionPlan \cup {NoPlan}]
  BY <1>2, <1>3 DEF Inv, Types
<1>5. /\ counter \in 0 .. MaxSubs /\ counter \in Nat /\ now \in Nat
      /\ payerSubs \in [Payers -> Seq(SubscriptionIds)]
  BY ConstantFacts DEF Inv, Types
<1>6. QED
  BY <1>4, <1>5, NothingCharged DEF DeactivateSubscriptionPlan, histories

LEMMA TickKeeps ==
  ASSUME Inv, Tick
  PROVE  Kept
<1>1. /\ counter \in 0 .. MaxSubs /\ counter \in Nat /\ now \in Nat
      /\ payerSubs \in [Payers -> Seq(SubscriptionIds)]
      /\ plan \in [Plans -> SubscriptionPlan \cup {NoPlan}]
  BY ConstantFacts DEF Inv, Types
<1>2. now' \in Nat /\ now' >= now
  BY <1>1 DEF Tick
<1>3. QED
  BY <1>1, <1>2, NothingCharged DEF Tick, histories

\* A new subscription is sound, and none was there before.
LEMMA SubscribeKeeps ==
  ASSUME Inv, NEW a \in Payers, NEW q \in Plans, NEW cap \in Caps \cup {None},
         NEW fee \in Fees \cup {None}, Subscribe(a, q, cap, fee)
  PROVE  Kept
<1> DEFINE p == plan[q]
           n == counter + 1
           next == now + p.intervalSecs
           r == [merchant |-> p.merchant, payer |-> a, amount |-> p.amount,
                 intervalSecs |-> p.intervalSecs, nextPaymentAt |-> next,
                 status |-> "Active", createdAt |-> now,
                 totalPayments |-> 0, maxPayments |-> cap, retryCount |-> 0,
                 nextRetryAt |-> None, resumeAt |-> None, affiliateFeeBps |-> fee]
<1>1. /\ subscription \in [SubscriptionIds -> Subscription \cup {NoSubscription}]
      /\ charges \in [SubscriptionIds -> Seq(Nat)]
      /\ leaps \in [SubscriptionIds -> Nat]
      /\ payerSubs \in [Payers -> Seq(SubscriptionIds)]
      /\ counter \in 0 .. MaxSubs /\ now \in Nat /\ held \in Nat /\ MaxSubs \in Nat
  BY ConstantFacts DEF Inv, Types
<1>2. p \in SubscriptionPlan /\ p.merchant \in Merchants /\ p.amount \in Nat \ {0}
      /\ p.intervalSecs \in Nat \ {0}
  <2>1. p \in SubscriptionPlan
    BY DEF Inv, Types, Subscribe, NoPlan
  <2> HIDE DEF p
  <2>2. QED
    BY <2>1 DEF SubscriptionPlan
<1>3. n \in SubscriptionIds /\ n \in Nat /\ n > counter
  BY <1>1 DEF SubscriptionIds, Subscribe
<1>4. cap \in Nat \cup {None} /\ fee \in Nat \cup {None} /\ None \notin Nat
  BY ConstantFacts
<1>5. /\ subscription' = [subscription EXCEPT ![n] = r]
      /\ counter' = n
      /\ payerSubs' = [payerSubs EXCEPT ![a] = Append(@, n)]
      /\ plan' = plan /\ held' = held /\ now' = now
      /\ charges' = charges /\ leaps' = leaps
  BY DEF Subscribe, histories
<1>6. next \in Nat
  BY <1>1, <1>2
<1> HIDE DEF p, n
<1>7. r \in Subscription
  <2> HIDE DEF next
  <2>1. QED
    BY <1>1, <1>2, <1>4, <1>6 DEF Subscription
<1>8. /\ r.status = "Active" /\ r.nextRetryAt = None /\ r.totalPayments = 0
      /\ r.maxPayments = cap /\ r.nextPaymentAt = next /\ r.createdAt = now
      /\ r.intervalSecs = p.intervalSecs
  OBVIOUS
<1> HIDE DEF r
<1>9. Sound(r, <<>>, 0, now)
  <2> DEFINE I == p.intervalSecs
  <2>1. I \in Nat /\ next = now + I /\ r.intervalSecs = I
    BY <1>2, <1>8
  <2>2. Horizon(r, now) = now + I
    BY <1>1, <1>8, <2>1 DEF Horizon, Greater
  <2> HIDE DEF I, next
  <2>3. Pace(<<>>, now, I, 0, now + I)
    BY <1>1, <2>1, PaceStart
  <2>4. <<>> \in Seq(Nat) /\ Len(<<>>) = 0
    OBVIOUS
  <2>5. Capped(r, 0)
    BY <1>4, <1>8 DEF Capped, Greater
  <2>6. r.nextPaymentAt =< now + r.intervalSecs
    BY <1>1, <1>8, <2>1
  <2>7. Pace(<<>>, r.createdAt, r.intervalSecs, 0, Horizon(r, now))
    BY <1>8, <2>1, <2>2, <2>3
  <2>8. 0 \in Nat
    OBVIOUS
  <2>9. QED
    BY <1>1, <1>7, <1>8, <2>4, <2>5, <2>6, <2>7, <2>8, Zenon DEF Sound
<1>10. ~Exists(n) /\ charges[n] = <<>> /\ leaps[n] = 0
  BY <1>3 DEF Inv
<1>11. Types'
  <2>1. payerSubs' \in [Payers -> Seq(SubscriptionIds)]
    <3>1. Append(payerSubs[a], n) \in Seq(SubscriptionIds)
      BY <1>1, <1>3, AppendProperties
    <3>2. QED
      BY <1>1, <1>5, <3>1
  <2>2. subscription' \in [SubscriptionIds -> Subscription \cup {NoSubscription}]
    BY <1>1, <1>5, <1>7
  <2>3. counter' \in 0 .. MaxSubs
    BY <1>1, <1>3, <1>5 DEF SubscriptionIds
  <2>4. QED
    BY <1>5, <2>1, <2>2, <2>3 DEF Inv, Types
<1>12. ASSUME NEW s \in SubscriptionIds
       PROVE  /\ Exists(s)' => Sound(subscription'[s], charges'[s], leaps'[s], now')
              /\ ~Exists(s)' => charges'[s] = <<>> /\ leaps'[s] = 0
              /\ s > counter' => ~Exists(s)'
  <2>1. CASE s = n
    <3>1. subscription'[s] = r
      BY <1>1, <1>5, <2>1
    <3>2. Exists(s)' /\ ~(s > counter')
      BY <1>3, <1>5, <1>8, <2>1, <3>1 DEF Exists
    <3>3. Sound(subscription'[s], charges'[s], leaps'[s], now')
      BY <1>5, <1>9, <1>10, <2>1, <3>1
    <3>4. QED
      BY <3>2, <3>3
  <2>2. CASE s # n
    <3>1. subscription'[s] = subscription[s] /\ (Exists(s)' <=> Exists(s))
      BY <1>1, <1>5, <2>2 DEF Exists
    <3>2. s \in Nat /\ (s > counter' => s > counter)
      BY <1>1, <1>3, <1>5 DEF SubscriptionIds
    <3>3. QED
      BY <1>5, <3>1, <3>2 DEF Inv
  <2>3. QED
    BY <2>1, <2>2
<1>13. Inv'
  BY <1>11, <1>12, Zenon DEF Inv
<1>14. ASSUME NEW s \in SubscriptionIds, Exists(s)
       PROVE  subscription'[s] = subscription[s] /\ charges'[s] = charges[s]
  BY <1>1, <1>5, <1>10, <1>14
<1>15. Life
  BY <1>14 DEF Life, Status
<1>16. Money
  BY <1>1, <1>5 DEF Money
<1>17. QED
  BY <1>13, <1>15, <1>16 DEF Kept

LEMMA InvInit == Init => Inv
<1> SUFFICES ASSUME Init
             PROVE  Inv
  OBVIOUS
<1>1. \A s \in SubscriptionIds : ~Exists(s) /\ charges[s] = <<>> /\ leaps[s] = 0
  BY DEF Init, Exists, NoSubscription
<1>2. Types
  BY ConstantFacts DEF Init, Types
<1>3. QED
  BY <1>1, <1>2 DEF Inv

LEMMA StutterKeeps ==
  ASSUME Inv, UNCHANGED vars
  PROVE  Kept
<1>1. Inv'
  BY DEF vars, Inv, Types, Exists
<1>2. Life
  BY DEF vars, Life, Status
<1>3. Money
  BY DEF vars, Inv, Types, Money
<1>4. QED
  BY <1>1, <1>2, <1>3 DEF Kept

LEMMA StepKeeps == Inv /\ [Next]_vars => Kept
<1> SUFFICES ASSUME Inv, [Next]_vars
             PROVE  Kept
  OBVIOUS
<1>1. ASSUME NEW q \in Plans, NEW m \in Merchants, NEW amount \in Amounts,
             NEW interval \in Intervals, CreateSubscriptionPlan(q, m, amount, interval)
      PROVE  Kept
  BY <1>1, CreatePlanKeeps
<1>2. ASSUME NEW q \in Plans, DeactivateSubscriptionPlan(q)
      PROVE  Kept
  BY <1>2, DeactivatePlanKeeps
<1>3. ASSUME NEW q \in Plans, NEW a \in Payers, NEW cap \in Caps \cup {None},
             NEW fee \in Fees \cup {None}, Subscribe(a, q, cap, fee)
      PROVE  Kept
  BY <1>3, SubscribeKeeps
<1>4. ASSUME NEW s \in SubscriptionIds, PauseSubscription(s)
      PROVE  Kept
  BY <1>4, PauseKeeps
<1>5. ASSUME NEW s \in SubscriptionIds, NEW date \in 0 .. MaxTime,
             PauseSubscriptionWithResumeDate(s, date)
      PROVE  Kept
  BY <1>5, PauseUntilKeeps
<1>6. ASSUME NEW s \in SubscriptionIds, ResumeSubscription(s)
      PROVE  Kept
  BY <1>6, ResumeKeeps
<1>7. ASSUME NEW s \in SubscriptionIds, CancelSubscription(s)
      PROVE  Kept
  BY <1>7, CancelKeeps
<1>8. ASSUME NEW s \in SubscriptionIds, ChargeSubscription(s)
      PROVE  Kept
  BY <1>8, ChargeSubscriptionKeeps
<1>9. ASSUME NEW s \in SubscriptionIds, NEW metered \in Metered,
             SubmitUsageMetrics(s, metered)
      PROVE  Kept
  BY <1>9, SubmitUsageMetricsKeeps
<1>10. ASSUME Tick
       PROVE  Kept
  BY <1>10, TickKeeps
<1>11. ASSUME UNCHANGED vars
       PROVE  Kept
  BY <1>11, StutterKeeps
<1>12. QED
  BY <1>1, <1>2, <1>3, <1>4, <1>5, <1>6, <1>7, <1>8, <1>9, <1>10, <1>11, Zenon DEF Next

THEOREM Invariance == Spec => []Inv
<1>1. Inv /\ [Next]_vars => Inv'
  BY StepKeeps DEF Kept
<1>2. QED
  BY <1>1, InvInit, PTL DEF Spec

-----------------------------------------------------------------------------
(* The theorems *)

\* Every reachable state of the subscriptions has its type.
THEOREM SubscriptionsTypeCorrect == Spec => []TypeOK
<1>1. Inv => TypeOK
  BY DEF Inv, Types, TypeOK
<1>2. QED
  BY <1>1, Invariance, PTL

\* For any intervals, and however pauses, resumes, dates and charges are
\* ordered: between two charges lie as many intervals as charges, less one for
\* each leap of the automatic resume.
THEOREM SubscriptionsChargesPaced == Spec => []ChargesPaced
<1>1. ASSUME Inv, NEW s \in SubscriptionIds
      PROVE  /\ Exists(s) => subscription[s].nextRetryAt = None
             /\ \A j \in 1 .. Len(charges[s]) : \A i \in 0 .. j - 1 :
                   (j - i - leaps[s]) * subscription[s].intervalSecs
                       =< charges[s][j] - ChargeTime(s, i)
  <2>1. CASE ~Exists(s)
    <3>1. charges[s] = <<>>
      BY <1>1, <2>1 DEF Inv
    <3>2. QED
      BY <2>1, <3>1
  <2>2. CASE Exists(s)
    <3> DEFINE c == charges[s]
               I == subscription[s].intervalSecs
               t0 == subscription[s].createdAt
    <3>1. Sound(subscription[s], c, leaps[s], now)
      BY <1>1, <2>2, ExistingRecord
    <3>2. /\ subscription[s].nextRetryAt = None
          /\ \A j \in 1 .. Len(c) : \A i \in 0 .. j - 1 :
                (j - i - leaps[s]) * I =< TimeOf(c, t0, j) - TimeOf(c, t0, i)
      BY <3>1, Zenon DEF Sound, Pace
    <3>3. \A k : ChargeTime(s, k) = TimeOf(c, t0, k)
      BY DEF ChargeTime, TimeOf
    <3>4. \A j \in 1 .. Len(c) : TimeOf(c, t0, j) = c[j]
      BY DEF TimeOf
    <3> HIDE DEF c, I, t0
    <3>5. ASSUME NEW j \in 1 .. Len(c), NEW i \in 0 .. j - 1
          PROVE  (j - i - leaps[s]) * I =< c[j] - ChargeTime(s, i)
      BY <3>2, <3>3, <3>4, <3>5, Zenon
    <3>6. QED
      BY <3>2, <3>5, Zenon DEF c, I
  <2>3. QED
    BY <2>1, <2>2
<1>2. Inv => ChargesPaced
  BY <1>1, Zenon DEF ChargesPaced
<1>3. QED
  BY <1>2, Invariance, PTL

\* No subscription is charged more often than its cap says, and it expires
\* exactly by reaching it.
THEOREM SubscriptionsCapHolds == Spec => []CapHolds
<1>1. ASSUME Inv, NEW s \in SubscriptionIds, Exists(s)
      PROVE  Capped(subscription[s], Len(charges[s]))
  BY <1>1, ExistingRecord DEF Sound
<1>2. Inv => CapHolds
  BY <1>1, Zenon DEF CapHolds, Capped
<1>3. QED
  BY <1>2, Invariance, PTL

\* An ended subscription stays ended and uncharged; the parties, the interval
\* and the cap of a subscription never change.
THEOREM SubscriptionsLifeCycle == Spec => LifeCycle
<1>1. Inv /\ [Next]_vars => Life
  BY StepKeeps DEF Kept
<1>2. QED
  BY <1>1, Invariance, PTL DEF Spec, LifeCycle, Life

\* What the contract holds for others pays for no charge, unless an affiliate
\* was promised more than the payment.
THEOREM SubscriptionsPaidFromTheCharge == Spec => PaidFromTheCharge
<1>1. Inv /\ [Next]_vars => Money
  BY StepKeeps DEF Kept
<1>2. QED
  BY <1>1, Invariance, PTL DEF Spec, PaidFromTheCharge, Money
=============================================================================
