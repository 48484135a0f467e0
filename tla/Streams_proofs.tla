--------------------------- MODULE Streams_proofs ---------------------------
(***************************************************************************)
(* Theorems about Streams.  Every handler touches each identifier in one   *)
(* of a few ways, so the argument is made once per identifier: a lemma for *)
(* each thing that can be done to a record shows that the inductive        *)
(* invariant survives it.  The action properties follow from what a step   *)
(* does to the terms of a stream and to the index of a recipient.  The     *)
(* last part shows that each handler is a step of the abstract Escrow.     *)
(***************************************************************************)
EXTENDS Streams, FiniteSetTheorems, WellFoundedInduction, TLAPS

-----------------------------------------------------------------------------
(* Arithmetic of a checkpoint *)

\* A record whose accrued amount is within its deposit and whose checkpoint is
\* not in the future.
Sound(r, t) ==
    /\ r \in StreamRecord
    /\ r.accrued =< r.remaining
    /\ r.checkpoint =< t

\* What the clock alone would have accrued: not capped by the deposit.
Uncapped(r, t) == r.accrued + (t - r.checkpoint) * r.rate

LEMMA OneMore ==
  ASSUME NEW a \in Nat, NEW b \in Nat
  PROVE  (a + 1) * b = a * b + b
OBVIOUS

LEMMA ProductNat ==
  ASSUME NEW a \in Nat, NEW b \in Nat
  PROVE  a * b \in Nat
OBVIOUS

\* A checkpoint keeps the record sound, never lowers the accrued amount, and
\* accrues the lesser of the clock's amount and the deposit.
LEMMA CheckpointFacts ==
  ASSUME NEW r, NEW t \in Nat, Sound(r, t)
  PROVE  /\ Sound(Checkpointed(r, t), t)
         /\ Checkpointed(r, t).checkpoint = t
         /\ Checkpointed(r, t).rate = r.rate
         /\ Checkpointed(r, t).remaining = r.remaining
         /\ Checkpointed(r, t).status = r.status
         /\ Checkpointed(r, t).accrued = Lesser(Uncapped(r, t), r.remaining)
         /\ r.accrued =< Checkpointed(r, t).accrued
         /\ Uncapped(r, t) \in Nat
         /\ Uncapped(r, t) >= Checkpointed(r, t).accrued
<1> DEFINE x == (t - r.checkpoint) * r.rate
<1>1. /\ r.rate \in Nat /\ r.remaining \in Nat /\ r.accrued \in Nat
      /\ r.checkpoint \in Nat /\ r.accrued =< r.remaining
      /\ t - r.checkpoint \in Nat
  BY DEF Sound, StreamRecord
<1>2. x \in Nat
  BY <1>1, ProductNat
<1> DEFINE y == Lesser(x, r.remaining - r.accrued)
<1>3. Checkpointed(r, t) = [r EXCEPT !.accrued = r.accrued + y, !.checkpoint = t]
  BY DEF Checkpointed
<1> HIDE DEF x
<1>5. y \in Nat /\ y =< r.remaining - r.accrued /\ y =< x
  BY <1>1, <1>2 DEF Lesser
<1>8. r.accrued + y = Lesser(r.accrued + x, r.remaining)
  BY <1>1, <1>2 DEF Lesser
<1> HIDE DEF y
<1>4. /\ Checkpointed(r, t).checkpoint = t
      /\ Checkpointed(r, t).rate = r.rate
      /\ Checkpointed(r, t).remaining = r.remaining
      /\ Checkpointed(r, t).status = r.status
      /\ Checkpointed(r, t).accrued = r.accrued + y
  BY <1>3 DEF Sound, StreamRecord
<1>6. Sound(Checkpointed(r, t), t)
  <2>1. Checkpointed(r, t) \in StreamRecord
    <3>1. r \in StreamRecord /\ r.accrued + y \in Nat
      BY <1>1, <1>5 DEF Sound
    <3>2. QED
      BY <1>3, <3>1 DEF StreamRecord
  <2>2. QED
    BY <2>1, <1>1, <1>4, <1>5 DEF Sound
<1>7. Uncapped(r, t) = r.accrued + x
  BY DEF Uncapped, x
<1>9. QED
  BY <1>1, <1>2, <1>4, <1>5, <1>6, <1>7, <1>8 DEF Lesser
-----------------------------------------------------------------------------
(* One identifier: a record, its ledger and its histories *)

IsActive(r) == r.status = "Active"

\* What the receiver may claim of a record at time t, and the same without
\* the deposit's cap.
Claim(r, t) == IF IsActive(r) THEN Checkpointed(r, t).accrued ELSE 0
Meter(r, t) == IF IsActive(r) THEN Uncapped(r, t) ELSE 0
Holds(r) == IF IsActive(r) THEN r.remaining ELSE 0

\* The inductive invariant of one identifier: d deposited, p paid, f refunded,
\* x paid twice, fl and st its histories.  The bound on Meter is what makes
\* "at most rate times time" inductive: a top-up may lift the cap on Claim.
Good(r, t, d, p, f, x, fl, st) ==
    /\ t \in Nat /\ d \in Nat /\ p \in Nat /\ f \in Nat /\ x \in Nat
    /\ fl \in Nat /\ st \in Nat
    /\ r \in StreamRecord \cup {NoStream}
    /\ IsActive(r) => Sound(r, t)
    /\ d + x = p + f + Holds(r)
    /\ st =< p - x + Claim(r, t)
    /\ p - x + Meter(r, t) =< fl

\* For an Active record the clock's amount at its own checkpoint is just its
\* accrued amount.
LEMMA FreshFacts ==
  ASSUME NEW r, NEW t \in Nat, Sound(r, t), r.checkpoint = t
  PROVE  /\ Uncapped(r, t) = r.accrued
         /\ Checkpointed(r, t).accrued = r.accrued
         /\ r.accrued \in Nat /\ r.remaining \in Nat
<1>1. /\ r.rate \in Nat /\ r.accrued \in Nat /\ r.remaining \in Nat
      /\ r.accrued =< r.remaining
  BY DEF Sound, StreamRecord
<1>2. (t - r.checkpoint) * r.rate = 0
  <2>1. t - r.checkpoint = 0
    OBVIOUS
  <2>2. 0 * r.rate = 0
    BY <1>1
  <2>3. QED
    BY <2>1, <2>2
<1>3. Uncapped(r, t) = r.accrued
  BY <1>1, <1>2 DEF Uncapped
<1>4. Checkpointed(r, t).accrued = Lesser(Uncapped(r, t), r.remaining)
  BY CheckpointFacts
<1>5. QED
  BY <1>1, <1>3, <1>4 DEF Lesser

\* The numbers behind an Active identifier.
LEMMA ActiveFacts ==
  ASSUME NEW r, NEW t, NEW d, NEW p, NEW f, NEW x, NEW fl, NEW st,
         Good(r, t, d, p, f, x, fl, st), IsActive(r)
  PROVE  /\ Sound(r, t)
         /\ r.remaining \in Nat /\ r.accrued \in Nat /\ r.rate \in Nat \ {0}
         /\ Claim(r, t) \in Nat /\ Meter(r, t) \in Nat
         /\ Claim(r, t) =< r.remaining /\ Claim(r, t) =< Meter(r, t)
         /\ r.accrued =< Claim(r, t)
         /\ Claim(r, t) = Checkpointed(r, t).accrued
         /\ Claim(r, t) = Lesser(Meter(r, t), r.remaining)
         /\ d + x = p + f + r.remaining
<1>1. Sound(r, t) /\ t \in Nat
  BY DEF Good
<1>2. /\ Sound(Checkpointed(r, t), t)
      /\ Checkpointed(r, t).accrued = Lesser(Uncapped(r, t), r.remaining)
      /\ Checkpointed(r, t).remaining = r.remaining
      /\ r.accrued =< Checkpointed(r, t).accrued
      /\ Uncapped(r, t) \in Nat
      /\ Uncapped(r, t) >= Checkpointed(r, t).accrued
  BY <1>1, CheckpointFacts
<1>3. Claim(r, t) = Checkpointed(r, t).accrued /\ Meter(r, t) = Uncapped(r, t)
  BY DEF Claim, Meter
<1>4. Checkpointed(r, t).accrued \in Nat
      /\ Checkpointed(r, t).accrued =< Checkpointed(r, t).remaining
  BY <1>2 DEF Sound, StreamRecord
<1>5. r.remaining \in Nat /\ r.accrued \in Nat /\ r.rate \in Nat \ {0}
  BY <1>1 DEF Sound, StreamRecord
<1>6. d + x = p + f + r.remaining
  BY DEF Good, Holds
<1>7. QED
  BY <1>1, <1>2, <1>3, <1>4, <1>5, <1>6

\* An Active record with checkpoint t is good as soon as its books balance and
\* its accrued amount fits between the histories.
LEMMA GoodFresh ==
  ASSUME NEW r, NEW t \in Nat, NEW d \in Nat, NEW p \in Nat, NEW f \in Nat,
         NEW x \in Nat, NEW fl \in Nat, NEW st \in Nat,
         Sound(r, t), IsActive(r), r.checkpoint = t,
         d + x = p + f + r.remaining,
         st =< p - x + r.accrued, p - x + r.accrued =< fl
  PROVE  Good(r, t, d, p, f, x, fl, st) /\ Claim(r, t) = r.accrued
<1>1. Uncapped(r, t) = r.accrued /\ Checkpointed(r, t).accrued = r.accrued
  BY FreshFacts
<1>2. Claim(r, t) = r.accrued /\ Meter(r, t) = r.accrued /\ Holds(r) = r.remaining
  BY <1>1 DEF Claim, Meter, Holds
<1>3. r \in StreamRecord
  BY DEF Sound
<1>4. QED
  BY <1>2, <1>3 DEF Good

\* A record that is not Active is good as soon as its books balance.
LEMMA GoodTerminal ==
  ASSUME NEW r \in StreamRecord \cup {NoStream}, ~IsActive(r),
         NEW t \in Nat, NEW d \in Nat, NEW p \in Nat, NEW f \in Nat,
         NEW x \in Nat, NEW fl \in Nat, NEW st \in Nat,
         d + x = p + f, st =< p - x, p - x =< fl
  PROVE  Good(r, t, d, p, f, x, fl, st) /\ Claim(r, t) = 0
BY DEF Good, Claim, Meter, Holds
-----------------------------------------------------------------------------
(* What a handler can do to one identifier *)

\* A checkpoint alone.
LEMMA DoCheckpoint ==
  ASSUME NEW r, NEW t, NEW d, NEW p, NEW f, NEW x, NEW fl, NEW st,
         Good(r, t, d, p, f, x, fl, st), IsActive(r)
  PROVE  LET c == Checkpointed(r, t)
         IN  /\ Good(c, t, d, p, f, x, fl, st)
             /\ Claim(c, t) = Claim(r, t)
             /\ Sound(c, t) /\ IsActive(c) /\ c.checkpoint = t
             /\ c.rate = r.rate /\ c.remaining = r.remaining
             /\ c.accrued = Claim(r, t)
<1> DEFINE c == Checkpointed(r, t)
<1>0. /\ t \in Nat /\ d \in Nat /\ p \in Nat /\ f \in Nat /\ x \in Nat
      /\ fl \in Nat /\ st \in Nat
      /\ st =< p - x + Claim(r, t) /\ p - x + Meter(r, t) =< fl
  BY DEF Good
<1>1. /\ Sound(r, t) /\ d + x = p + f + r.remaining
      /\ Claim(r, t) \in Nat /\ Meter(r, t) \in Nat /\ Claim(r, t) =< Meter(r, t)
      /\ c.accrued = Claim(r, t)
  BY ActiveFacts
<1>2. /\ Sound(c, t) /\ c.checkpoint = t /\ c.rate = r.rate
      /\ c.remaining = r.remaining /\ c.status = r.status
  BY <1>0, <1>1, CheckpointFacts
<1>3. IsActive(c)
  BY <1>2 DEF IsActive
<1> HIDE DEF c
<1>4. p - x + c.accrued =< fl
  BY <1>0, <1>1
<1>5. d + x = p + f + c.remaining /\ st =< p - x + c.accrued
  BY <1>0, <1>1, <1>2
<1>6. Good(c, t, d, p, f, x, fl, st) /\ Claim(c, t) = c.accrued
  BY <1>0, <1>2, <1>3, <1>4, <1>5, GoodFresh
<1>7. QED
  BY <1>1, <1>2, <1>3, <1>6 DEF c

\* A handler that only sets the destination or the approval.
LEMMA DoFlag ==
  ASSUME NEW r, NEW t, NEW d, NEW p, NEW f, NEW x, NEW fl, NEW st,
         Good(r, t, d, p, f, x, fl, st), NEW q \in StreamRecord,
         q.rate = r.rate, q.remaining = r.remaining, q.status = r.status,
         q.checkpoint = r.checkpoint, q.accrued = r.accrued
  PROVE  Good(q, t, d, p, f, x, fl, st) /\ Claim(q, t) = Claim(r, t)
<1>1. CASE IsActive(r)
  <2>1. IsActive(q) /\ Sound(r, t) /\ t \in Nat
    BY <1>1 DEF IsActive, Good
  <2>2. Sound(q, t)
    BY <2>1 DEF Sound
  <2>3. Uncapped(q, t) = Uncapped(r, t)
    BY DEF Uncapped
  <2>4. Claim(q, t) = Claim(r, t) /\ Meter(q, t) = Meter(r, t) /\ Holds(q) = Holds(r)
    BY <1>1, <2>1, <2>2, <2>3, CheckpointFacts DEF Claim, Meter, Holds
  <2>5. QED
    BY <2>1, <2>2, <2>4 DEF Good
<1>2. CASE ~IsActive(r)
  <2>1. ~IsActive(q)
    BY <1>2 DEF IsActive
  <2>2. QED
    BY <1>2, <2>1 DEF Good, Claim, Meter, Holds
<1>3. QED
  BY <1>1, <1>2

\* The surplus of a rate change never reaches into what has accrued.
LEMMA SurplusFacts ==
  ASSUME NEW c \in StreamRecord, c.accrued =< c.remaining, NEW n \in Nat \ {0}
  PROVE  Surplus(c, n) \in Nat /\ Surplus(c, n) =< c.remaining - c.accrued
<1> DEFINE u == c.remaining - c.accrued
<1> DEFINE q == u \div c.rate
<1>1. u \in Nat /\ c.rate \in Nat \ {0}
  BY DEF StreamRecord
<1>2. q \in Nat /\ q * c.rate =< u
  BY <1>1, Z3
<1> HIDE DEF q, u
<1>3. CASE n < c.rate
  <2>1. q * n \in Nat /\ q * n =< q * c.rate
    BY <1>1, <1>2, <1>3, Z3
  <2>2. Surplus(c, n) = u - q * n
    BY <1>3 DEF Surplus, q, u
  <2>3. u - q * n \in Nat /\ u - q * n =< u
    <3> DEFINE v == q * n
    <3> HIDE DEF v
    <3>1. v \in Nat /\ v =< u
      BY <1>1, <1>2, <2>1 DEF v
    <3>2. u - v \in Nat /\ u - v =< u
      BY <1>1, <3>1
    <3>3. QED
      BY <3>2 DEF v
  <2>4. QED
    BY <2>2, <2>3 DEF u
<1>4. CASE ~(n < c.rate)
  BY <1>1, <1>4 DEF Surplus, u
<1>5. QED
  BY <1>3, <1>4
\* A rate change.
LEMMA DoRerate ==
  ASSUME NEW r, NEW t, NEW d, NEW p, NEW f, NEW x, NEW fl, NEW st,
         Good(r, t, d, p, f, x, fl, st), IsActive(r), NEW n \in Nat \ {0}
  PROVE  LET c == Checkpointed(r, t)
         IN  /\ Good(Rerated(c, n), t, d, p, f + Surplus(c, n), x, fl, st)
             /\ Claim(Rerated(c, n), t) = Claim(r, t)
<1> DEFINE c == Checkpointed(r, t)
           s == Surplus(c, n)
           q == Rerated(c, n)
<1>1. /\ Good(c, t, d, p, f, x, fl, st)
      /\ Sound(c, t) /\ IsActive(c) /\ c.checkpoint = t
      /\ c.accrued = Claim(r, t) /\ Claim(c, t) = Claim(r, t)
  BY DoCheckpoint
<1> HIDE DEF c
<1>2. /\ c \in StreamRecord /\ c.accrued \in Nat /\ c.remaining \in Nat
      /\ c.accrued =< c.remaining
  BY <1>1 DEF Sound, StreamRecord
<1>3. s \in Nat /\ s =< c.remaining - c.accrued
  BY <1>2, SurplusFacts
<1>4. q = [c EXCEPT !.rate = n, !.remaining = c.remaining - s]
  BY DEF Rerated
<1> HIDE DEF s
<1>5. /\ q.rate = n /\ q.remaining = c.remaining - s /\ q.accrued = c.accrued
      /\ q.checkpoint = c.checkpoint /\ q.status = c.status
  BY <1>2, <1>4 DEF StreamRecord
<1>6. q \in StreamRecord
  <2>1. c.remaining - s \in Nat
    BY <1>2, <1>3
  <2>2. QED
    BY <2>1, <1>2, <1>4 DEF StreamRecord
<1> HIDE DEF q
<1>7. Sound(q, t) /\ IsActive(q)
  BY <1>1, <1>2, <1>3, <1>5, <1>6 DEF Sound, IsActive
<1>8. /\ t \in Nat /\ d \in Nat /\ p \in Nat /\ f \in Nat /\ x \in Nat
      /\ fl \in Nat /\ st \in Nat
  BY DEF Good
<1>9. d + x = p + f + c.remaining
  BY <1>1, ActiveFacts
<1>10. d + x = p + (f + s) + q.remaining /\ f + s \in Nat
  BY <1>2, <1>3, <1>5, <1>8, <1>9
<1>11. st =< p - x + q.accrued /\ p - x + q.accrued =< fl
  <2>1. st =< p - x + c.accrued /\ p - x + Meter(c, t) =< fl
    BY <1>1 DEF Good
  <2>2. Meter(c, t) = c.accrued
    BY <1>1, <1>8, FreshFacts DEF Meter
  <2>3. QED
    BY <2>1, <2>2, <1>5
<1>12. Good(q, t, d, p, f + s, x, fl, st) /\ Claim(q, t) = q.accrued
  <2> DEFINE g == f + s
  <2>1. g \in Nat /\ d + x = p + g + q.remaining /\ q.checkpoint = t
    BY <1>1, <1>5, <1>10
  <2> HIDE DEF g
  <2>2. Good(q, t, d, p, g, x, fl, st) /\ Claim(q, t) = q.accrued
    BY <2>1, <1>7, <1>8, <1>11, GoodFresh
  <2>3. QED
    BY <2>2 DEF g
<1>13. QED
  BY <1>1, <1>5, <1>12 DEF q, s, c

\* A withdrawal.
LEMMA DoWithdraw ==
  ASSUME NEW r, NEW t, NEW d, NEW p, NEW f, NEW x, NEW fl, NEW st,
         Good(r, t, d, p, f, x, fl, st), IsActive(r),
         NEW a \in Nat, a =< Claim(r, t)
  PROVE  LET q == Withdrawn(Checkpointed(r, t), a)
         IN  /\ Good(q, t, d, p + a, f, x, fl, st)
             /\ a + Claim(q, t) = Claim(r, t)
<1> DEFINE c == Checkpointed(r, t)
           q == Withdrawn(c, a)
<1>1. /\ Good(c, t, d, p, f, x, fl, st)
      /\ Sound(c, t) /\ IsActive(c) /\ c.checkpoint = t
      /\ c.accrued = Claim(r, t) /\ Claim(c, t) = Claim(r, t)
  BY DoCheckpoint
<1> HIDE DEF c
<1>2. /\ c \in StreamRecord /\ c.accrued \in Nat /\ c.remaining \in Nat
      /\ c.accrued =< c.remaining /\ a =< c.accrued
  BY <1>1 DEF Sound, StreamRecord
<1>3. /\ t \in Nat /\ d \in Nat /\ p \in Nat /\ f \in Nat /\ x \in Nat
      /\ fl \in Nat /\ st \in Nat
  BY DEF Good
<1>4. d + x = p + f + c.remaining
  BY <1>1, ActiveFacts
<1>5. st =< p - x + c.accrued /\ p - x + c.accrued =< fl
  <2>1. st =< p - x + c.accrued /\ p - x + Meter(c, t) =< fl
    BY <1>1 DEF Good
  <2>2. Meter(c, t) = c.accrued
    BY <1>1, <1>3, FreshFacts DEF Meter
  <2>3. QED
    BY <2>1, <2>2
<1>6. /\ q.remaining = c.remaining - a /\ q.accrued = c.accrued - a
      /\ q.checkpoint = c.checkpoint
      /\ q.status = IF c.remaining = a THEN "Exhausted" ELSE c.status
  BY <1>2 DEF Withdrawn, StreamRecord
<1>7. q \in StreamRecord
  <2>1. c.remaining - a \in Nat /\ c.accrued - a \in Nat
    BY <1>2
  <2>2. QED
    BY <2>1, <1>2 DEF Withdrawn, StreamRecord
<1> HIDE DEF q
<1>8. CASE c.remaining = a
  <2>1. ~IsActive(q) /\ c.accrued = a
    BY <1>2, <1>6, <1>8 DEF IsActive
  <2>2. d + x = p + a + f /\ st =< p + a - x /\ p + a - x =< fl /\ p + a \in Nat
    BY <1>2, <1>3, <1>4, <1>5, <1>8, <2>1
  <2>3. Good(q, t, d, p + a, f, x, fl, st) /\ Claim(q, t) = 0
    <3> DEFINE g == p + a
    <3>1. g \in Nat /\ d + x = g + f /\ st =< g - x /\ g - x =< fl
      BY <2>2, <1>2, <1>3
    <3> HIDE DEF g
    <3>2. Good(q, t, d, g, f, x, fl, st) /\ Claim(q, t) = 0
      BY <3>1, <1>3, <1>7, <2>1, GoodTerminal
    <3>3. QED
      BY <3>2 DEF g
  <2>4. QED
    BY <1>1, <2>1, <2>3 DEF q, c
<1>9. CASE c.remaining # a
  <2>1. IsActive(q)
    BY <1>1, <1>6, <1>9 DEF IsActive
  <2>2. Sound(q, t)
    BY <1>1, <1>2, <1>3, <1>6, <1>7 DEF Sound
  <2>3. /\ d + x = p + a + f + q.remaining /\ p + a \in Nat
        /\ st =< p + a - x + q.accrued /\ p + a - x + q.accrued =< fl
    BY <1>2, <1>3, <1>4, <1>5, <1>6
  <2>4. Good(q, t, d, p + a, f, x, fl, st) /\ Claim(q, t) = q.accrued
    <3> DEFINE g == p + a
    <3>1. /\ g \in Nat /\ d + x = g + f + q.remaining
          /\ st =< g - x + q.accrued /\ g - x + q.accrued =< fl
          /\ q.checkpoint = t
      BY <2>3, <1>1, <1>2, <1>3, <1>6
    <3> HIDE DEF g
    <3>2. Good(q, t, d, g, f, x, fl, st) /\ Claim(q, t) = q.accrued
      BY <3>1, <1>3, <2>1, <2>2, GoodFresh
    <3>3. QED
      BY <3>2 DEF g
  <2>5. a + Claim(q, t) = Claim(r, t)
    BY <1>1, <1>2, <1>6, <2>4
  <2>6. QED
    BY <2>4, <2>5 DEF q, c
<1>10. QED
  BY <1>8, <1>9
\* A top-up: the only handler that can add to what the receiver may claim.
LEMMA DoTopUp ==
  ASSUME NEW r, NEW t, NEW d, NEW p, NEW f, NEW x, NEW fl, NEW st,
         Good(r, t, d, p, f, x, fl, st), IsActive(r), NEW a \in Nat
  PROVE  LET q == [r EXCEPT !.remaining = @ + a]
         IN  /\ Good(q, t, d + a, p, f, x, fl, st)
             /\ Claim(q, t) >= Claim(r, t) /\ Claim(q, t) =< Claim(r, t) + a
             /\ Claim(q, t) > Claim(r, t) => Claim(r, t) = r.remaining
<1> DEFINE q == [r EXCEPT !.remaining = @ + a]
<1>1. /\ Sound(r, t)
      /\ r.remaining \in Nat /\ r.accrued \in Nat /\ r.rate \in Nat \ {0}
      /\ Claim(r, t) \in Nat /\ Meter(r, t) \in Nat
      /\ Claim(r, t) = Lesser(Meter(r, t), r.remaining)
      /\ d + x = p + f + r.remaining
  BY ActiveFacts
<1>2. /\ t \in Nat /\ d \in Nat /\ p \in Nat /\ f \in Nat /\ x \in Nat
      /\ fl \in Nat /\ st \in Nat
      /\ st =< p - x + Claim(r, t) /\ p - x + Meter(r, t) =< fl
  BY DEF Good
<1>3. /\ r \in StreamRecord /\ r.accrued =< r.remaining /\ r.checkpoint =< t
  BY <1>1 DEF Sound
<1>4. /\ q.remaining = r.remaining + a /\ q.accrued = r.accrued /\ q.rate = r.rate
      /\ q.checkpoint = r.checkpoint /\ q.status = r.status
  BY <1>3 DEF StreamRecord
<1>5. q \in StreamRecord
  BY <1>1, <1>3 DEF StreamRecord
<1> HIDE DEF q
<1>6. Sound(q, t) /\ IsActive(q)
  BY <1>1, <1>3, <1>4, <1>5 DEF Sound, IsActive
<1>7. Meter(q, t) = Meter(r, t)
  BY <1>4, <1>6 DEF Meter, Uncapped
<1>8. Claim(q, t) = Lesser(Meter(q, t), q.remaining)
  BY <1>2, <1>6, CheckpointFacts DEF Claim, Meter
<1>9. /\ Claim(q, t) >= Claim(r, t) /\ Claim(q, t) \in Nat
      /\ Claim(q, t) =< Claim(r, t) + a
      /\ Claim(q, t) > Claim(r, t) => Claim(r, t) = r.remaining
  BY <1>1, <1>4, <1>7, <1>8 DEF Lesser
<1>10. Good(q, t, d + a, p, f, x, fl, st)
  <2>1. d + a + x = p + f + Holds(q) /\ d + a \in Nat
    BY <1>1, <1>2, <1>4, <1>6 DEF Holds
  <2>2. st =< p - x + Claim(q, t) /\ p - x + Meter(q, t) =< fl
    BY <1>1, <1>2, <1>7, <1>9
  <2>3. QED
    BY <1>2, <1>5, <1>6, <2>1, <2>2 DEF Good
<1>11. QED
  BY <1>9, <1>10 DEF q

\* A cancellation.
LEMMA DoCancel ==
  ASSUME NEW r, NEW t, NEW d, NEW p, NEW f, NEW x, NEW fl, NEW st,
         Good(r, t, d, p, f, x, fl, st), IsActive(r)
  PROVE  LET q == CancelledForm(Checkpointed(r, t))
             a == Claim(r, t)
         IN  /\ Good(q, t, d, p + a, f + (r.remaining - a), x, fl, st)
             /\ Claim(q, t) = 0
<1> DEFINE c == Checkpointed(r, t)
           q == CancelledForm(c)
           a == Claim(r, t)
           g == p + a
           h == f + (r.remaining - a)
<1>1. /\ Sound(c, t) /\ r.remaining \in Nat /\ a \in Nat /\ Meter(r, t) \in Nat
      /\ a =< r.remaining /\ a =< Meter(r, t)
      /\ d + x = p + f + r.remaining
  <2>1. Sound(c, t)
    BY DoCheckpoint
  <2>2. QED
    BY <2>1, ActiveFacts
<1>2. /\ t \in Nat /\ d \in Nat /\ p \in Nat /\ f \in Nat /\ x \in Nat
      /\ fl \in Nat /\ st \in Nat
      /\ st =< p - x + a /\ p - x + Meter(r, t) =< fl
  BY DEF Good
<1>3. c \in StreamRecord
  BY <1>1 DEF Sound
<1> HIDE DEF c, a
<1>4. q \in StreamRecord /\ ~IsActive(q)
  BY <1>3 DEF CancelledForm, StreamRecord, IsActive
<1> HIDE DEF q
<1>5. /\ g \in Nat /\ h \in Nat /\ d + x = g + h
      /\ st =< g - x /\ g - x =< fl
  BY <1>1, <1>2
<1> HIDE DEF g, h
<1>6. Good(q, t, d, g, h, x, fl, st) /\ Claim(q, t) = 0
  BY <1>2, <1>4, <1>5, GoodTerminal
<1>7. QED
  BY <1>6 DEF q, c, a, g, h

\* The removal of a terminal record, with the residual paid once more.
LEMMA DoClose ==
  ASSUME NEW r, NEW t, NEW d, NEW p, NEW f, NEW x, NEW fl, NEW st,
         Good(r, t, d, p, f, x, fl, st), ~IsActive(r), NEW a \in Nat
  PROVE  /\ Good(NoStream, t, d, p + a, f, x + a, fl, st)
         /\ Claim(NoStream, t) = 0 /\ Claim(r, t) = 0
<1> DEFINE g == p + a
           y == x + a
<1>1. /\ t \in Nat /\ d \in Nat /\ p \in Nat /\ f \in Nat /\ x \in Nat
      /\ fl \in Nat /\ st \in Nat /\ d + x = p + f /\ st =< p - x /\ p - x =< fl
  BY DEF Good, Holds, Claim, Meter
<1>2. /\ g \in Nat /\ y \in Nat /\ d + y = g + f /\ st =< g - y /\ g - y =< fl
  BY <1>1
<1> HIDE DEF g, y
<1>3. ~IsActive(NoStream)
  BY DEF IsActive, NoStream
<1>4. Good(NoStream, t, d, g, f, y, fl, st) /\ Claim(NoStream, t) = 0
  BY <1>1, <1>2, <1>3, GoodTerminal
<1>5. QED
  BY <1>4 DEF Claim, g, y
\* A creation, under an identifier that names no stream.
LEMMA DoCreate ==
  ASSUME NEW r, NEW t, NEW d, NEW p, NEW f, NEW x, NEW fl, NEW st,
         Good(r, t, d, p, f, x, fl, st), ~IsActive(r),
         NEW q \in StreamRecord, IsActive(q), q.checkpoint = t, q.accrued = 0
  PROVE  /\ Good(q, t, d + q.remaining, p, f, x, fl, st)
         /\ Claim(q, t) = 0 /\ Claim(r, t) = 0
<1> DEFINE e == d + q.remaining
<1>1. /\ t \in Nat /\ d \in Nat /\ p \in Nat /\ f \in Nat /\ x \in Nat
      /\ fl \in Nat /\ st \in Nat /\ d + x = p + f /\ st =< p - x /\ p - x =< fl
  BY DEF Good, Holds, Claim, Meter
<1>2. q.remaining \in Nat
  BY DEF StreamRecord
<1>3. Sound(q, t)
  BY <1>1, <1>2 DEF Sound
<1>4. e \in Nat /\ e + x = p + f + q.remaining /\ st =< p - x + q.accrued /\ p - x + q.accrued =< fl
  BY <1>1, <1>2
<1> HIDE DEF e
<1>5. Good(q, t, e, p, f, x, fl, st) /\ Claim(q, t) = q.accrued
  BY <1>1, <1>3, <1>4, GoodFresh
<1>6. QED
  BY <1>5 DEF Claim, e

\* A second of the clock for an Active stream.
LEMMA DoTick ==
  ASSUME NEW r, NEW t, NEW d, NEW p, NEW f, NEW x, NEW fl, NEW st,
         Good(r, t, d, p, f, x, fl, st), IsActive(r)
  PROVE  /\ Good(r, t + 1, d, p, f, x, fl + r.rate,
                  st + Lesser(r.rate, r.remaining - Claim(r, t)))
         /\ Claim(r, t + 1) >= Claim(r, t)
         /\ Claim(r, t + 1) = Claim(r, t) + Lesser(r.rate, r.remaining - Claim(r, t))
<1> DEFINE gain == Lesser(r.rate, r.remaining - Claim(r, t))
           fl2 == fl + r.rate
           st2 == st + gain
           u == t + 1
<1>1. /\ Sound(r, t) /\ r.remaining \in Nat /\ r.accrued \in Nat /\ r.rate \in Nat
      /\ Claim(r, t) \in Nat /\ Meter(r, t) \in Nat
      /\ Claim(r, t) =< r.remaining /\ Claim(r, t) = Lesser(Meter(r, t), r.remaining)
  BY ActiveFacts
<1>2. /\ t \in Nat /\ d \in Nat /\ p \in Nat /\ f \in Nat /\ x \in Nat
      /\ fl \in Nat /\ st \in Nat /\ d + x = p + f + Holds(r)
      /\ st =< p - x + Claim(r, t) /\ p - x + Meter(r, t) =< fl
  BY DEF Good
<1>3. u \in Nat /\ Sound(r, u) /\ r \in StreamRecord
  <2>1. r \in StreamRecord /\ r.checkpoint \in Nat
    BY <1>1 DEF Sound, StreamRecord
  <2>2. QED
    BY <2>1, <1>1, <1>2 DEF Sound
<1>4. Meter(r, u) = Meter(r, t) + r.rate
  <2>1. r.checkpoint \in Nat /\ r.checkpoint =< t
    BY <1>1, <1>3 DEF Sound, StreamRecord
  <2>2. (u - r.checkpoint) * r.rate = (t - r.checkpoint) * r.rate + r.rate
    <3>1. t - r.checkpoint \in Nat /\ u - r.checkpoint = (t - r.checkpoint) + 1
      BY <2>1, <1>2
    <3>2. QED
      BY <3>1, <1>1, OneMore
  <2>3. (t - r.checkpoint) * r.rate \in Int
    BY <2>1, <1>1, <1>2
  <2>4. QED
    BY <2>2, <2>3, <1>1 DEF Meter, Uncapped
<1>5. Claim(r, u) = Lesser(Meter(r, u), r.remaining)
  BY <1>3, CheckpointFacts DEF Claim, Meter
<1>6. gain \in Nat /\ Claim(r, u) = Claim(r, t) + gain
  BY <1>1, <1>4, <1>5 DEF Lesser
<1>7. fl2 \in Nat /\ st2 \in Nat /\ st2 =< p - x + Claim(r, u) /\ p - x + Meter(r, u) =< fl2
  BY <1>1, <1>2, <1>4, <1>6
<1>8. Claim(r, u) >= Claim(r, t)
  BY <1>1, <1>6
<1> HIDE DEF gain, fl2, st2, u
<1>9. Good(r, u, d, p, f, x, fl2, st2)
  BY <1>2, <1>3, <1>7 DEF Good
<1>10. QED
  BY <1>6, <1>8, <1>9 DEF gain, fl2, st2, u
-----------------------------------------------------------------------------
(* The inductive invariant *)

IsGood(s) == Good(stream[s], now, deposited[s], paid[s], refunded[s],
                  residual[s], flow[s], streamed[s])

\* The per-identifier variables are functions on StreamIds.
Shaped ==
    /\ stream = [s \in StreamIds |-> stream[s]]
    /\ deposited = [s \in StreamIds |-> deposited[s]]
    /\ paid = [s \in StreamIds |-> paid[s]]
    /\ refunded = [s \in StreamIds |-> refunded[s]]
    /\ residual = [s \in StreamIds |-> residual[s]]
    /\ flow = [s \in StreamIds |-> flow[s]]
    /\ streamed = [s \in StreamIds |-> streamed[s]]

StreamsOK == Shaped /\ now \in Nat /\ \A s \in StreamIds : IsGood(s)

RestOK ==
    /\ senderIdx \in [Senders -> Seq(StreamIds)]
    /\ recipientIdx \in [Receivers -> Seq(StreamIds)]
    /\ locked \in SUBSET StreamIds
    /\ paused \in BOOLEAN

IInv == StreamsOK /\ RestOK

LEMMA EntitledIs ==
  ASSUME NEW s
  PROVE  Entitled(s) = paid[s] - residual[s] + Claim(stream[s], now)
BY DEF Entitled, Claim, IsActive, Active, Accrued

\* Enough for one identifier: it stays good, its claim grows by what it is not
\* paid, and it may grow by more only with time or a deposit.
LEMMA KeepsIf ==
  ASSUME NEW s \in StreamIds, IsGood(s), IsGood(s)',
         NEW a \in Nat,
         paid'[s] - residual'[s] = paid[s] - residual[s] + a,
         a + Claim(stream'[s], now') >= Claim(stream[s], now),
         \/ now' # now
         \/ Active(s) /\ deposited'[s] # deposited[s]
         \/ a + Claim(stream'[s], now') = Claim(stream[s], now),
         Claim(stream'[s], now') \in Int, Claim(stream[s], now) \in Int
  PROVE  Keeps(s)
<1>1. Entitled(s) = paid[s] - residual[s] + Claim(stream[s], now)
  BY EntitledIs
<1>2. Entitled(s)' = paid'[s] - residual'[s] + Claim(stream'[s], now')
  BY DEF Entitled, Claim, IsActive, Active, Accrued
<1>3. paid[s] \in Nat /\ residual[s] \in Nat /\ paid'[s] \in Nat /\ residual'[s] \in Nat
  BY DEF IsGood, Good
<1>4. QED
  BY <1>1, <1>2, <1>3 DEF Keeps

LEMMA ClaimInt ==
  ASSUME NEW r, NEW t, NEW d, NEW p, NEW f, NEW x, NEW fl, NEW st,
         Good(r, t, d, p, f, x, fl, st)
  PROVE  Claim(r, t) \in Nat
<1>1. CASE IsActive(r)
  BY <1>1, ActiveFacts
<1>2. CASE ~IsActive(r)
  BY <1>2 DEF Claim
<1>3. QED
  BY <1>1, <1>2

\* An identifier that nothing touched.
LEMMA Untouched ==
  ASSUME NEW s \in StreamIds, IsGood(s), now' = now,
         stream'[s] = stream[s], deposited'[s] = deposited[s], paid'[s] = paid[s],
         refunded'[s] = refunded[s], residual'[s] = residual[s],
         flow'[s] = flow[s], streamed'[s] = streamed[s]
  PROVE  IsGood(s)' /\ Keeps(s)
<1>1. IsGood(s)'
  BY DEF IsGood
<1>2. Claim(stream[s], now) \in Nat
  BY ClaimInt DEF IsGood
<1>3. paid[s] \in Nat /\ residual[s] \in Nat
  BY DEF IsGood, Good
<1>4. paid'[s] - residual'[s] = paid[s] - residual[s] + 0
      /\ 0 + Claim(stream'[s], now') = Claim(stream[s], now)
      /\ 0 + Claim(stream'[s], now') >= Claim(stream[s], now)
      /\ Claim(stream'[s], now') \in Int
  BY <1>2, <1>3
<1>5. Keeps(s)
  BY <1>1, <1>2, <1>4, KeepsIf
<1>6. QED
  BY <1>1, <1>5
-----------------------------------------------------------------------------
(* One lemma per kind of step *)

LEMMA CreateStep ==
  ASSUME StreamsOK, NEW s \in StreamIds, NEW snd \in Senders, NEW rcv \in Receivers,
         NEW rate \in Rates, NEW a \in Amounts, CreateStream(s, snd, rcv, rate, a)
  PROVE  StreamsOK' /\ \A z \in StreamIds : Keeps(z)
<1> DEFINE q == [sender |-> snd, receiver |-> rcv, destination |-> FALSE,
                 rate |-> rate, remaining |-> a, checkpoint |-> now,
                 accrued |-> 0, status |-> "Active", approved |-> FALSE]
<1>0. rate \in Nat \ {0} /\ a \in Nat \ {0} /\ now \in Nat
  BY StreamsAssumption DEF StreamsOK
<1>1. Shaped' /\ now' = now
  BY DEF CreateStream, StreamsOK, Shaped, clocks
<1>2. /\ stream'[s] = q /\ deposited'[s] = deposited[s] + a
      /\ paid' = paid /\ refunded' = refunded /\ residual' = residual
      /\ flow' = flow /\ streamed' = streamed /\ ~IsActive(stream[s])
  BY DEF CreateStream, StreamsOK, Shaped, clocks, Exists, IsActive
<1>3. IsGood(s)' /\ Keeps(s)
  <2>1. /\ q \in StreamRecord /\ IsActive(q) /\ q.checkpoint = now /\ q.accrued = 0
        /\ q.remaining = a
    BY <1>0 DEF StreamRecord, IsActive
  <2> HIDE DEF q
  <2>2. IsGood(s)
    BY DEF StreamsOK
  <2>3. /\ Good(q, now, deposited[s] + a, paid[s], refunded[s], residual[s], flow[s], streamed[s])
        /\ Claim(q, now) = 0 /\ Claim(stream[s], now) = 0
    BY <1>2, <2>1, <2>2, DoCreate DEF IsGood
  <2>4. IsGood(s)'
    BY <1>1, <1>2, <2>3 DEF IsGood
  <2>5. paid[s] \in Nat /\ residual[s] \in Nat
    BY <2>2 DEF IsGood, Good
  <2>6. /\ paid'[s] - residual'[s] = paid[s] - residual[s] + 0
        /\ 0 + Claim(stream'[s], now') = Claim(stream[s], now)
        /\ 0 + Claim(stream'[s], now') >= Claim(stream[s], now)
        /\ Claim(stream'[s], now') \in Int /\ Claim(stream[s], now) \in Int
    BY <1>1, <1>2, <2>3, <2>5
  <2>7. Keeps(s)
    BY <2>2, <2>4, <2>6, KeepsIf
  <2>8. QED
    BY <2>4, <2>7
<1>4. ASSUME NEW z \in StreamIds, z # s
      PROVE  IsGood(z)' /\ Keeps(z)
  <2>1. IsGood(z)
    BY DEF StreamsOK
  <2>2. stream'[z] = stream[z] /\ deposited'[z] = deposited[z]
    BY <1>4 DEF CreateStream, StreamsOK, Shaped
  <2>3. QED
    BY <1>1, <1>2, <2>1, <2>2, Untouched
<1>5. QED
  BY <1>0, <1>1, <1>3, <1>4 DEF StreamsOK

\* SetStreamDestination and ApproveStreamMilestone.
LEMMA FlagStep ==
  ASSUME StreamsOK, NEW s \in StreamIds,
         SetStreamDestination(s) \/ ApproveStreamMilestone(s)
  PROVE  StreamsOK' /\ \A z \in StreamIds : Keeps(z)
<1>0. IsGood(s) /\ now \in Nat
  BY DEF StreamsOK
<1>1. /\ Shaped' /\ now' = now /\ deposited' = deposited /\ paid' = paid
      /\ refunded' = refunded /\ residual' = residual
      /\ flow' = flow /\ streamed' = streamed
  BY DEF SetStreamDestination, ApproveStreamMilestone, StreamsOK, Shaped, clocks, ledger
<1>2. stream[s] \in StreamRecord
  BY <1>0 DEF SetStreamDestination, ApproveStreamMilestone, Active, Exists, IsGood, Good, NoStream
<1>3. \/ stream'[s] = [stream[s] EXCEPT !.destination = TRUE]
      \/ stream'[s] = [stream[s] EXCEPT !.approved = TRUE]
  BY DEF SetStreamDestination, ApproveStreamMilestone, StreamsOK, Shaped
<1>4. /\ stream'[s] \in StreamRecord
      /\ stream'[s].rate = stream[s].rate /\ stream'[s].remaining = stream[s].remaining
      /\ stream'[s].status = stream[s].status
      /\ stream'[s].checkpoint = stream[s].checkpoint
      /\ stream'[s].accrued = stream[s].accrued
  BY <1>2, <1>3 DEF StreamRecord
<1>5. IsGood(s)' /\ Keeps(s)
  <2>1. /\ Good(stream'[s], now, deposited[s], paid[s], refunded[s], residual[s], flow[s], streamed[s])
        /\ Claim(stream'[s], now) = Claim(stream[s], now)
    BY <1>0, <1>4, DoFlag DEF IsGood
  <2>2. IsGood(s)'
    BY <1>1, <2>1 DEF IsGood
  <2>3. paid[s] \in Nat /\ residual[s] \in Nat /\ Claim(stream[s], now) \in Nat
    BY <1>0, ClaimInt DEF IsGood, Good
  <2>4. /\ paid'[s] - residual'[s] = paid[s] - residual[s] + 0
        /\ 0 + Claim(stream'[s], now') = Claim(stream[s], now)
        /\ 0 + Claim(stream'[s], now') >= Claim(stream[s], now)
        /\ Claim(stream'[s], now') \in Int
    BY <1>1, <2>1, <2>3
  <2>5. Keeps(s)
    BY <1>0, <2>2, <2>3, <2>4, KeepsIf
  <2>6. QED
    BY <2>2, <2>5
<1>6. ASSUME NEW z \in StreamIds, z # s
      PROVE  IsGood(z)' /\ Keeps(z)
  <2>1. IsGood(z) /\ stream'[z] = stream[z]
    BY <1>6 DEF SetStreamDestination, ApproveStreamMilestone, StreamsOK, Shaped
  <2>2. QED
    BY <1>1, <2>1, Untouched
<1>7. QED
  BY <1>0, <1>1, <1>5, <1>6 DEF StreamsOK

LEMMA ChangeRateStep ==
  ASSUME StreamsOK, NEW s \in StreamIds, NEW n \in Rates, ChangeRate(s, n)
  PROVE  StreamsOK' /\ \A z \in StreamIds : Keeps(z)
<1> DEFINE c == Checkpointed(stream[s], now)
<1>0. IsGood(s) /\ now \in Nat /\ n \in Nat \ {0} /\ IsActive(stream[s])
  BY StreamsAssumption DEF StreamsOK, ChangeRate, Active, IsActive
<1>1. /\ Shaped' /\ now' = now /\ deposited' = deposited /\ paid' = paid
      /\ residual' = residual /\ flow' = flow /\ streamed' = streamed
      /\ stream'[s] = Rerated(c, n) /\ refunded'[s] = refunded[s] + Surplus(c, n)
  BY DEF ChangeRate, StreamsOK, Shaped, clocks
<1>2. IsGood(s)' /\ Keeps(s)
  <2>1. /\ Good(stream'[s], now, deposited[s], paid[s], refunded'[s], residual[s], flow[s], streamed[s])
        /\ Claim(stream'[s], now) = Claim(stream[s], now)
    BY <1>0, <1>1, DoRerate DEF IsGood
  <2>2. IsGood(s)'
    BY <1>1, <2>1 DEF IsGood
  <2>3. paid[s] \in Nat /\ residual[s] \in Nat /\ Claim(stream[s], now) \in Nat
    BY <1>0, ClaimInt DEF IsGood, Good
  <2>4. /\ paid'[s] - residual'[s] = paid[s] - residual[s] + 0
        /\ 0 + Claim(stream'[s], now') = Claim(stream[s], now)
        /\ 0 + Claim(stream'[s], now') >= Claim(stream[s], now)
        /\ Claim(stream'[s], now') \in Int
    BY <1>1, <2>1, <2>3
  <2>5. Keeps(s)
    BY <1>0, <2>2, <2>3, <2>4, KeepsIf
  <2>6. QED
    BY <2>2, <2>5
<1>3. ASSUME NEW z \in StreamIds, z # s
      PROVE  IsGood(z)' /\ Keeps(z)
  <2>1. IsGood(z) /\ stream'[z] = stream[z] /\ refunded'[z] = refunded[z]
    BY <1>3 DEF ChangeRate, StreamsOK, Shaped
  <2>2. QED
    BY <1>1, <2>1, Untouched
<1>4. QED
  BY <1>0, <1>1, <1>2, <1>3 DEF StreamsOK
\* Every withdrawal.
LEMMA PayOutStep ==
  ASSUME StreamsOK, NEW S \in SUBSET StreamIds, NEW amount \in [S -> Nat],
         \A s \in S : Active(s) /\ amount[s] =< Accrued(s),
         PayOut(amount)
  PROVE  StreamsOK' /\ \A z \in StreamIds : Keeps(z)
<1>0. now \in Nat /\ DOMAIN amount = S
  BY DEF StreamsOK
<1>1. /\ Shaped' /\ now' = now /\ deposited' = deposited /\ refunded' = refunded
      /\ residual' = residual /\ flow' = flow /\ streamed' = streamed
  BY DEF PayOut, StreamsOK, Shaped, clocks
<1>2. ASSUME NEW s \in S
      PROVE  IsGood(s)' /\ Keeps(s)
  <2>1. IsGood(s) /\ IsActive(stream[s])
    BY DEF StreamsOK, Active, IsActive
  <2>2. /\ stream'[s] = Withdrawn(Checkpointed(stream[s], now), amount[s])
        /\ paid'[s] = paid[s] + amount[s]
    BY <1>0 DEF PayOut
  <2>3. amount[s] \in Nat /\ amount[s] =< Claim(stream[s], now)
    BY <2>1 DEF Claim, Accrued
  <2>4. /\ Good(stream'[s], now, deposited[s], paid'[s], refunded[s], residual[s], flow[s], streamed[s])
        /\ amount[s] + Claim(stream'[s], now) = Claim(stream[s], now)
    BY <2>1, <2>2, <2>3, DoWithdraw DEF IsGood
  <2>5. IsGood(s)'
    BY <1>1, <2>4 DEF IsGood
  <2>6. /\ paid[s] \in Nat /\ residual[s] \in Nat /\ Claim(stream[s], now) \in Nat
        /\ Claim(stream'[s], now) \in Nat
    BY <2>1, <2>4, ClaimInt DEF IsGood, Good
  <2>7. paid'[s] - residual'[s] = paid[s] - residual[s] + amount[s]
    BY <1>1, <2>2, <2>3, <2>6
  <2>8. /\ amount[s] + Claim(stream'[s], now') = Claim(stream[s], now)
        /\ amount[s] + Claim(stream'[s], now') >= Claim(stream[s], now)
        /\ Claim(stream'[s], now') \in Int /\ Claim(stream[s], now) \in Int
    BY <1>1, <2>4, <2>6
  <2>9. Keeps(s)
    BY <2>1, <2>3, <2>5, <2>7, <2>8, KeepsIf
  <2>10. QED
    BY <2>5, <2>9
<1>3. ASSUME NEW z \in StreamIds, z \notin S
      PROVE  IsGood(z)' /\ Keeps(z)
  <2>1. IsGood(z) /\ stream'[z] = stream[z] /\ paid'[z] = paid[z]
    BY <1>0, <1>3 DEF PayOut, StreamsOK
  <2>2. QED
    BY <1>1, <2>1, Untouched
<1>4. QED
  BY <1>0, <1>1, <1>2, <1>3 DEF StreamsOK

\* A triggered withdrawal with nothing to withdraw.
LEMMA DryTriggerStep ==
  ASSUME StreamsOK, NEW s \in StreamIds, Active(s),
         stream' = [stream EXCEPT ![s] = Checkpointed(@, now)],
         UNCHANGED <<ledger, clocks>>
  PROVE  StreamsOK' /\ \A z \in StreamIds : Keeps(z)
<1>0. IsGood(s) /\ now \in Nat /\ IsActive(stream[s])
  BY DEF StreamsOK, Active, IsActive
<1>1. /\ Shaped' /\ now' = now /\ deposited' = deposited /\ refunded' = refunded
      /\ paid' = paid /\ residual' = residual /\ flow' = flow /\ streamed' = streamed
      /\ stream'[s] = Checkpointed(stream[s], now)
  BY DEF StreamsOK, Shaped, clocks, ledger
<1>2. /\ Good(stream'[s], now, deposited[s], paid[s], refunded[s], residual[s], flow[s], streamed[s])
      /\ Claim(stream'[s], now) = Claim(stream[s], now)
  BY <1>0, <1>1, DoCheckpoint DEF IsGood
<1>3. IsGood(s)'
  BY <1>1, <1>2 DEF IsGood
<1>4. paid[s] \in Nat /\ residual[s] \in Nat /\ Claim(stream[s], now) \in Nat
  BY <1>0, ClaimInt DEF IsGood, Good
<1>5. /\ paid'[s] - residual'[s] = paid[s] - residual[s] + 0
      /\ 0 + Claim(stream'[s], now') = Claim(stream[s], now)
      /\ 0 + Claim(stream'[s], now') >= Claim(stream[s], now)
      /\ Claim(stream'[s], now') \in Int
  BY <1>1, <1>2, <1>4
<1>6. Keeps(s)
  BY <1>0, <1>1, <1>3, <1>4, <1>5, KeepsIf
<1>7. ASSUME NEW z \in StreamIds, z # s
      PROVE  IsGood(z)' /\ Keeps(z)
  <2>1. IsGood(z) /\ stream'[z] = stream[z]
    BY <1>7 DEF StreamsOK, Shaped
  <2>2. QED
    BY <1>1, <2>1, Untouched
<1>8. QED
  BY <1>0, <1>1, <1>3, <1>6, <1>7 DEF StreamsOK

LEMMA TopUpStep ==
  ASSUME StreamsOK, NEW snd \in Senders, NEW S \in SUBSET StreamIds,
         NEW amount \in [S -> Amounts], TopUpMultipleStreams(snd, amount)
  PROVE  StreamsOK' /\ \A z \in StreamIds : Keeps(z)
<1>0. now \in Nat /\ DOMAIN amount = S
  BY DEF StreamsOK
<1>1. /\ Shaped' /\ now' = now /\ paid' = paid /\ refunded' = refunded
      /\ residual' = residual /\ flow' = flow /\ streamed' = streamed
  BY DEF TopUpMultipleStreams, StreamsOK, Shaped, clocks
<1>2. ASSUME NEW s \in S
      PROVE  IsGood(s)' /\ Keeps(s)
  <2>1. IsGood(s) /\ IsActive(stream[s]) /\ Active(s)
    BY <1>0 DEF StreamsOK, Active, IsActive, TopUpMultipleStreams
  <2>2. amount[s] \in Nat \ {0}
    BY StreamsAssumption
  <2>3. /\ stream'[s] = [stream[s] EXCEPT !.remaining = @ + amount[s]]
        /\ deposited'[s] = deposited[s] + amount[s]
    BY <1>0 DEF TopUpMultipleStreams
  <2>4. /\ Good(stream'[s], now, deposited'[s], paid[s], refunded[s], residual[s], flow[s], streamed[s])
        /\ Claim(stream'[s], now) >= Claim(stream[s], now)
    BY <2>1, <2>2, <2>3, DoTopUp DEF IsGood
  <2>5. IsGood(s)'
    BY <1>1, <2>4 DEF IsGood
  <2>6. /\ paid[s] \in Nat /\ residual[s] \in Nat /\ Claim(stream[s], now) \in Nat
        /\ Claim(stream'[s], now) \in Nat /\ deposited[s] \in Nat
    BY <2>1, <2>4, ClaimInt DEF IsGood, Good
  <2>7. /\ paid'[s] - residual'[s] = paid[s] - residual[s] + 0
        /\ 0 + Claim(stream'[s], now') >= Claim(stream[s], now)
        /\ deposited'[s] # deposited[s]
        /\ Claim(stream'[s], now') \in Int /\ Claim(stream[s], now) \in Int
    BY <1>1, <2>2, <2>3, <2>4, <2>6
  <2>8. Keeps(s)
    BY <2>1, <2>5, <2>7, KeepsIf
  <2>9. QED
    BY <2>5, <2>8
<1>3. ASSUME NEW z \in StreamIds, z \notin S
      PROVE  IsGood(z)' /\ Keeps(z)
  <2>1. IsGood(z) /\ stream'[z] = stream[z] /\ deposited'[z] = deposited[z]
    BY <1>0, <1>3 DEF TopUpMultipleStreams, StreamsOK
  <2>2. QED
    BY <1>1, <2>1, Untouched
<1>4. QED
  BY <1>0, <1>1, <1>2, <1>3 DEF StreamsOK

\* Every cancellation.
LEMMA CancelStep ==
  ASSUME StreamsOK, NEW S \in SUBSET StreamIds, \A s \in S : Active(s), CancelAll(S)
  PROVE  StreamsOK' /\ \A z \in StreamIds : Keeps(z)
<1>0. now \in Nat
  BY DEF StreamsOK
<1>1. /\ Shaped' /\ now' = now /\ deposited' = deposited
      /\ residual' = residual /\ flow' = flow /\ streamed' = streamed
  BY DEF CancelAll, StreamsOK, Shaped, clocks
<1>2. ASSUME NEW s \in S
      PROVE  IsGood(s)' /\ Keeps(s)
  <2>1. IsGood(s) /\ IsActive(stream[s])
    BY DEF StreamsOK, Active, IsActive
  <2>2. Accrued(s) = Claim(stream[s], now)
    BY <2>1 DEF Claim, Accrued
  <2>3. /\ stream'[s] = CancelledForm(Checkpointed(stream[s], now))
        /\ paid'[s] = paid[s] + Claim(stream[s], now)
        /\ refunded'[s] = refunded[s] + (stream[s].remaining - Claim(stream[s], now))
    BY <2>2 DEF CancelAll
  <2>4. /\ Good(stream'[s], now, deposited[s], paid'[s], refunded'[s], residual[s], flow[s], streamed[s])
        /\ Claim(stream'[s], now) = 0
    BY <2>1, <2>3, DoCancel DEF IsGood
  <2>5. IsGood(s)'
    BY <1>1, <2>4 DEF IsGood
  <2>6. paid[s] \in Nat /\ residual[s] \in Nat /\ Claim(stream[s], now) \in Nat
    BY <2>1, ClaimInt DEF IsGood, Good
  <2>7. paid'[s] - residual'[s] = paid[s] - residual[s] + Claim(stream[s], now)
    BY <1>1, <2>3, <2>6
  <2>8. /\ Claim(stream[s], now) + Claim(stream'[s], now') = Claim(stream[s], now)
        /\ Claim(stream[s], now) + Claim(stream'[s], now') >= Claim(stream[s], now)
        /\ Claim(stream'[s], now') \in Int
    BY <1>1, <2>4, <2>6
  <2>9. Keeps(s)
    BY <2>1, <2>5, <2>6, <2>7, <2>8, KeepsIf
  <2>10. QED
    BY <2>5, <2>9
<1>3. ASSUME NEW z \in StreamIds, z \notin S
      PROVE  IsGood(z)' /\ Keeps(z)
  <2>1. /\ IsGood(z) /\ stream'[z] = stream[z] /\ paid'[z] = paid[z]
        /\ refunded'[z] = refunded[z]
    BY <1>3 DEF CancelAll, StreamsOK
  <2>2. QED
    BY <1>1, <2>1, Untouched
<1>4. QED
  BY <1>0, <1>1, <1>2, <1>3 DEF StreamsOK
LEMMA CloseStep ==
  ASSUME StreamsOK, NEW s \in StreamIds, CloseExpiredStream(s)
  PROVE  StreamsOK' /\ \A z \in StreamIds : Keeps(z)
<1> DEFINE rest == Lesser(stream[s].accrued, stream[s].remaining)
<1>0. IsGood(s) /\ now \in Nat /\ ~IsActive(stream[s])
  BY DEF StreamsOK, CloseExpiredStream, Active, IsActive
<1>1. /\ Shaped' /\ now' = now /\ deposited' = deposited /\ refunded' = refunded
      /\ flow' = flow /\ streamed' = streamed
      /\ stream'[s] = NoStream /\ paid'[s] = paid[s] + rest
      /\ residual'[s] = residual[s] + rest
  BY DEF CloseExpiredStream, StreamsOK, Shaped, clocks
<1>2. rest \in Nat
  <2>1. stream[s] \in StreamRecord
    BY <1>0 DEF CloseExpiredStream, Exists, IsGood, Good, NoStream
  <2>2. QED
    BY <2>1 DEF StreamRecord, Lesser
<1> HIDE DEF rest
<1>3. /\ Good(NoStream, now, deposited[s], paid'[s], refunded[s], residual'[s], flow[s], streamed[s])
      /\ Claim(NoStream, now) = 0 /\ Claim(stream[s], now) = 0
  BY <1>0, <1>1, <1>2, DoClose DEF IsGood
<1>4. IsGood(s)'
  BY <1>1, <1>3 DEF IsGood
<1>5. paid[s] \in Nat /\ residual[s] \in Nat
  BY <1>0 DEF IsGood, Good
<1>6. /\ paid'[s] - residual'[s] = paid[s] - residual[s] + 0
      /\ 0 + Claim(stream'[s], now') = Claim(stream[s], now)
      /\ 0 + Claim(stream'[s], now') >= Claim(stream[s], now)
      /\ Claim(stream'[s], now') \in Int /\ Claim(stream[s], now) \in Int
  BY <1>1, <1>2, <1>3, <1>5
<1>7. Keeps(s)
  BY <1>0, <1>4, <1>6, KeepsIf
<1>8. ASSUME NEW z \in StreamIds, z # s
      PROVE  IsGood(z)' /\ Keeps(z)
  <2>1. /\ IsGood(z) /\ stream'[z] = stream[z] /\ paid'[z] = paid[z]
        /\ residual'[z] = residual[z]
    BY <1>8 DEF CloseExpiredStream, StreamsOK, Shaped
  <2>2. QED
    BY <1>1, <2>1, Untouched
<1>9. QED
  BY <1>0, <1>1, <1>4, <1>7, <1>8 DEF StreamsOK

LEMMA TickStep ==
  ASSUME StreamsOK, Tick
  PROVE  StreamsOK' /\ \A z \in StreamIds : Keeps(z)
<1>0. now \in Nat /\ now' = now + 1 /\ now' # now
  BY DEF StreamsOK, Tick
<1>1. /\ Shaped' /\ stream' = stream /\ deposited' = deposited /\ refunded' = refunded
      /\ paid' = paid /\ residual' = residual
  BY DEF Tick, StreamsOK, Shaped, ledger
<1>2. ASSUME NEW s \in StreamIds
      PROVE  IsGood(s)' /\ Keeps(s)
  <2>1. IsGood(s)
    BY DEF StreamsOK
  <2>2. /\ IsGood(s)'
        /\ Claim(stream'[s], now') >= Claim(stream[s], now)
        /\ Claim(stream'[s], now') \in Nat
    <3>1. CASE IsActive(stream[s])
      <4>1. Accrued(s) = Claim(stream[s], now)
        BY <3>1 DEF Claim, Accrued
      <4>2. /\ flow'[s] = flow[s] + stream[s].rate
            /\ streamed'[s] = streamed[s] +
                   Lesser(stream[s].rate, stream[s].remaining - Claim(stream[s], now))
        BY <3>1, <4>1 DEF Tick, Active, IsActive
      <4>3. /\ Good(stream[s], now + 1, deposited[s], paid[s], refunded[s], residual[s],
                    flow'[s], streamed'[s])
            /\ Claim(stream[s], now + 1) >= Claim(stream[s], now)
        BY <2>1, <3>1, <4>2, DoTick DEF IsGood
      <4>4. IsGood(s)'
        BY <1>0, <1>1, <4>3 DEF IsGood
      <4>5. Claim(stream[s], now + 1) \in Nat
        BY <4>3, ClaimInt
      <4>6. QED
        BY <1>0, <1>1, <4>3, <4>4, <4>5
    <3>2. CASE ~IsActive(stream[s])
      <4>1. flow'[s] = flow[s] /\ streamed'[s] = streamed[s]
        BY <3>2 DEF Tick, Active, IsActive
      <4>2. Good(stream[s], now + 1, deposited[s], paid[s], refunded[s], residual[s],
                 flow[s], streamed[s])
        BY <1>0, <2>1, <3>2 DEF IsGood, Good, Claim, Meter, Holds
      <4>3. IsGood(s)'
        BY <1>0, <1>1, <4>1, <4>2 DEF IsGood
      <4>4. QED
        BY <1>1, <3>2, <4>3 DEF Claim
    <3>3. QED
      BY <3>1, <3>2
  <2>3. paid[s] \in Nat /\ residual[s] \in Nat /\ Claim(stream[s], now) \in Nat
    BY <2>1, ClaimInt DEF IsGood, Good
  <2>4. /\ paid'[s] - residual'[s] = paid[s] - residual[s] + 0
        /\ 0 + Claim(stream'[s], now') >= Claim(stream[s], now)
    BY <1>1, <2>2, <2>3
  <2>5. Keeps(s)
    BY <1>0, <2>1, <2>2, <2>3, <2>4, KeepsIf
  <2>6. QED
    BY <2>2, <2>5
<1>3. QED
  BY <1>0, <1>1, <1>2 DEF StreamsOK

\* Steps that touch no stream: the pause, a lapsed lock, a stutter.
LEMMA IdleStep ==
  ASSUME StreamsOK, UNCHANGED <<stream, ledger, clocks>>
  PROVE  StreamsOK' /\ \A z \in StreamIds : Keeps(z)
<1>1. /\ Shaped' /\ now' = now /\ stream' = stream /\ deposited' = deposited
      /\ refunded' = refunded /\ paid' = paid /\ residual' = residual
      /\ flow' = flow /\ streamed' = streamed
  BY DEF StreamsOK, Shaped, ledger, clocks
<1>2. ASSUME NEW z \in StreamIds
      PROVE  IsGood(z)' /\ Keeps(z)
  <2>1. IsGood(z)
    BY DEF StreamsOK
  <2>2. QED
    BY <1>1, <2>1, Untouched
<1>3. QED
  BY <1>1, <1>2 DEF StreamsOK
-----------------------------------------------------------------------------
(* The step, and what follows of every state *)

\* The parts of a withdrawal's guard and amount that PayOutStep asks for.
LEMMA WithdrawStep ==
  ASSUME StreamsOK, NEW S \in SUBSET StreamIds, NEW amount, DOMAIN amount = S,
         amount = [s \in S |-> amount[s]],
         \A s \in S : Active(s) /\ amount[s] \in Nat /\ amount[s] =< Accrued(s),
         PayOut(amount)
  PROVE  StreamsOK' /\ \A z \in StreamIds : Keeps(z)
<1>1. amount \in [S -> Nat]
  OBVIOUS
<1>2. QED
  BY <1>1, PayOutStep

LEMMA AccruedNat ==
  ASSUME StreamsOK, NEW s \in StreamIds, Active(s)
  PROVE  Accrued(s) \in Nat
<1>1. IsGood(s) /\ IsActive(stream[s])
  BY DEF StreamsOK, Active, IsActive
<1>2. QED
  BY <1>1, ActiveFacts DEF IsGood, Accrued

LEMMA NextStep ==
  ASSUME IInv, [Next]_vars
  PROVE  IInv' /\ \A z \in StreamIds : Keeps(z)
<1> DEFINE Goal == IInv' /\ \A z \in StreamIds : Keeps(z)
<1>0. StreamsOK /\ RestOK
  BY DEF IInv
<1>1. ASSUME NEW s \in StreamIds, NEW snd \in Senders, NEW rcv \in Receivers,
             NEW rate \in Rates, NEW a \in Amounts, CreateStream(s, snd, rcv, rate, a)
      PROVE  Goal
  <2>1. RestOK'
    BY <1>0, <1>1 DEF CreateStream, RestOK
  <2>2. QED
    BY <1>0, <1>1, <2>1, CreateStep DEF IInv
<1>2. ASSUME NEW s \in StreamIds, SetStreamDestination(s) \/ ApproveStreamMilestone(s)
      PROVE  Goal
  <2>1. RestOK'
    BY <1>0, <1>2 DEF SetStreamDestination, ApproveStreamMilestone, RestOK, indexes
  <2>2. QED
    BY <1>0, <1>2, <2>1, FlagStep DEF IInv
<1>3. ASSUME NEW s \in StreamIds, NEW n \in Rates,
             UpdateStreamRate(s, n) \/ DecreaseRatePerSecond(s, n)
      PROVE  Goal
  <2>1. ChangeRate(s, n)
    BY <1>3 DEF UpdateStreamRate, DecreaseRatePerSecond
  <2>2. RestOK'
    BY <1>0, <2>1 DEF ChangeRate, RestOK, indexes
  <2>3. QED
    BY <1>0, <2>1, <2>2, ChangeRateStep DEF IInv
<1>4. ASSUME NEW rcv \in Receivers, NEW max, WithdrawAllForRecipient(rcv, max)
      PROVE  Goal
  <2> DEFINE S == Picked(rcv, max)
             amount == [s \in S |-> Accrued(s)]
  <2>1. S \in SUBSET StreamIds /\ \A s \in S : Active(s)
    <3>1. recipientIdx[rcv] \in Seq(StreamIds)
      BY <1>0 DEF RestOK
    <3>2. ASSUME NEW s \in S
          PROVE  s \in StreamIds /\ Active(s)
      <4>1. PICK i \in DOMAIN recipientIdx[rcv] : s = recipientIdx[rcv][i] /\ Pays(rcv, i)
        BY DEF Picked, Scanned
      <4>2. s \in StreamIds
        BY <3>1, <4>1
      <4>3. Active(s)
        BY <4>1 DEF Pays
      <4>4. QED
        BY <4>2, <4>3
    <3>3. QED
      BY <3>2
  <2>2. \A s \in S : Active(s) /\ amount[s] = Accrued(s) /\ Accrued(s) \in Nat
    BY <1>0, <2>1, AccruedNat
  <2>3. PayOut(amount)
    BY <1>4 DEF WithdrawAllForRecipient
  <2>4. RestOK'
    BY <1>0, <1>4 DEF WithdrawAllForRecipient, PayOut, RestOK, indexes
  <2> HIDE DEF S
  <2>5. StreamsOK' /\ \A z \in StreamIds : Keeps(z)
    <3>1. DOMAIN amount = S /\ amount = [s \in S |-> amount[s]]
      OBVIOUS
    <3>2. \A s \in S : Active(s) /\ amount[s] \in Nat /\ amount[s] =< Accrued(s)
      BY <2>2
    <3> HIDE DEF amount
    <3>3. QED
      BY <1>0, <2>1, <2>3, <3>1, <3>2, WithdrawStep
  <2>6. QED
    BY <2>4, <2>5 DEF IInv
<1>5. ASSUME NEW s \in StreamIds, TriggerWithdrawal(s)
      PROVE  Goal
  <2>0. Active(s)
    BY <1>5 DEF TriggerWithdrawal, TriggerAllowed
  <2>1. CASE Accrued(s) = 0 /\ locked' = locked \cup {s}
              /\ stream' = [stream EXCEPT ![s] = Checkpointed(@, now)]
              /\ UNCHANGED <<indexes, paused, ledger, clocks>>
    <3>1. RestOK'
      BY <1>0, <2>1 DEF RestOK, indexes
    <3>2. QED
      BY <1>0, <2>0, <2>1, <3>1, DryTriggerStep DEF IInv
  <2>2. CASE Accrued(s) > 0 /\ PayOut([x \in {s} |-> Accrued(x)]) /\ UNCHANGED locked
    <3> DEFINE amount == [x \in {s} |-> Accrued(x)]
    <3>1. RestOK'
      BY <1>0, <2>2 DEF PayOut, RestOK, indexes
    <3>2. Accrued(s) \in Nat
      BY <1>0, <2>0, AccruedNat
    <3>3. /\ DOMAIN amount = {s} /\ amount = [x \in {s} |-> amount[x]]
          /\ \A x \in {s} : Active(x) /\ amount[x] \in Nat /\ amount[x] =< Accrued(x)
          /\ PayOut(amount)
      BY <2>0, <2>2, <3>2
    <3> HIDE DEF amount
    <3>4. StreamsOK' /\ \A z \in StreamIds : Keeps(z)
      BY <1>0, <3>3, WithdrawStep
    <3>5. QED
      BY <3>1, <3>4 DEF IInv
  <2>3. QED
    BY <1>5, <2>1, <2>2 DEF TriggerWithdrawal
<1>6. ASSUME NEW rcv \in Receivers, NEW X \in SUBSET StreamIds,
             NEW asked \in [X -> Amounts], BatchWithdrawTo(rcv, asked)
      PROVE  Goal
  <2> DEFINE S == {x \in DOMAIN asked : Accrued(x) > 0}
             amount == [s \in S |-> Lesser(Accrued(s), asked[s])]
  <2>1. S \in SUBSET StreamIds /\ \A s \in S : Active(s) /\ asked[s] \in Nat
    BY <1>6, StreamsAssumption DEF BatchWithdrawTo
  <2>2. \A s \in S : amount[s] \in Nat /\ amount[s] =< Accrued(s)
    BY <1>0, <2>1, AccruedNat DEF Lesser
  <2>3. PayOut(amount)
    BY <1>6 DEF BatchWithdrawTo
  <2>4. RestOK'
    BY <1>0, <1>6 DEF BatchWithdrawTo, PayOut, RestOK, indexes
  <2> HIDE DEF S
  <2>5. DOMAIN amount = S /\ amount = [s \in S |-> amount[s]]
    OBVIOUS
  <2> HIDE DEF amount
  <2>6. StreamsOK' /\ \A z \in StreamIds : Keeps(z)
    BY <1>0, <2>1, <2>2, <2>3, <2>5, WithdrawStep
  <2>7. QED
    BY <2>4, <2>6 DEF IInv
<1>7. ASSUME NEW snd \in Senders, NEW S \in SUBSET StreamIds,
             NEW amount \in [S -> Amounts], TopUpMultipleStreams(snd, amount)
      PROVE  Goal
  <2>1. RestOK'
    BY <1>0, <1>7 DEF TopUpMultipleStreams, RestOK, indexes
  <2>2. QED
    BY <1>0, <1>7, <2>1, TopUpStep DEF IInv
<1>8. ASSUME NEW snd \in Senders, NEW S \in SUBSET StreamIds, CancelMultipleStreams(snd, S)
      PROVE  Goal
  <2>1. RestOK' /\ CancelAll(S) /\ \A s \in S : Active(s)
    BY <1>0, <1>8 DEF CancelMultipleStreams, CancelAll, RestOK, indexes
  <2>2. QED
    BY <1>0, <2>1, CancelStep DEF IInv
<1>9. ASSUME NEW snd \in Senders, NEW n \in 0 .. MaxBatchCancel + 1,
             NEW ids \in [1 .. n -> StreamIds], BatchCancelStreams(snd, ids)
      PROVE  Goal
  <2> DEFINE S == {s \in {ids[i] : i \in {j \in DOMAIN ids : j =< MaxBatchCancel}} :
                      Active(s) /\ stream[s].sender = snd}
  <2>1. S \in SUBSET StreamIds /\ (\A s \in S : Active(s)) /\ CancelAll(S)
    BY <1>9 DEF BatchCancelStreams
  <2> HIDE DEF S
  <2>2. RestOK'
    BY <1>0, <2>1 DEF CancelAll, RestOK, indexes
  <2>3. QED
    BY <1>0, <2>1, <2>2, CancelStep DEF IInv
<1>10. ASSUME NEW s \in StreamIds, CloseExpiredStream(s)
       PROVE  Goal
  <2>1. RestOK'
    BY <1>0, <1>10 DEF CloseExpiredStream, RestOK, indexes
  <2>2. QED
    BY <1>0, <1>10, <2>1, CloseStep DEF IInv
<1>11. ASSUME NEW s \in StreamIds, LockLapses(s)
       PROVE  Goal
  <2>1. RestOK' /\ UNCHANGED <<stream, ledger, clocks>>
    BY <1>0, <1>11 DEF LockLapses, RestOK, indexes
  <2>2. QED
    BY <1>0, <2>1, IdleStep DEF IInv
<1>12. ASSUME NEW value \in BOOLEAN, SetGlobalPause(value)
       PROVE  Goal
  <2>1. RestOK' /\ UNCHANGED <<stream, ledger, clocks>>
    BY <1>0, <1>12 DEF SetGlobalPause, RestOK, indexes
  <2>2. QED
    BY <1>0, <2>1, IdleStep DEF IInv
<1>13. CASE Tick
  <2>1. RestOK'
    BY <1>0, <1>13 DEF Tick, RestOK, indexes
  <2>2. QED
    BY <1>0, <1>13, <2>1, TickStep DEF IInv
<1>14. CASE UNCHANGED vars
  <2>1. RestOK' /\ UNCHANGED <<stream, ledger, clocks>>
    BY <1>0, <1>14 DEF vars, RestOK, ledger, clocks
  <2>2. QED
    BY <1>0, <2>1, IdleStep DEF IInv
<1>15. CASE ProcessorNext
  BY <1>1, <1>2, <1>3, <1>4, <1>5, <1>6, <1>7, <1>8, <1>9, <1>10, <1>11, <1>12,
     <1>13, <1>15 DEF ProcessorNext
<1>16. CASE Next
  BY <1>2, <1>3, <1>15, <1>16 DEF Next
<1>17. QED
  BY <1>14, <1>16

LEMMA InitGood == Init => IInv
<1> SUFFICES ASSUME Init PROVE IInv
  OBVIOUS
<1>1. RestOK
  <2>1. <<>> \in Seq(StreamIds)
    OBVIOUS
  <2>2. /\ senderIdx \in [Senders -> Seq(StreamIds)]
        /\ recipientIdx \in [Receivers -> Seq(StreamIds)]
    BY <2>1 DEF Init
  <2>3. QED
    BY <2>2 DEF Init, RestOK
<1>2. Shaped /\ now \in Nat
  BY DEF Init, Shaped
<1>3. ASSUME NEW s \in StreamIds
      PROVE  IsGood(s)
  BY DEF Init, IsGood, Good, NoStream, IsActive, Holds, Claim, Meter
<1>4. QED
  BY <1>1, <1>2, <1>3 DEF IInv, StreamsOK

\* The inductive invariant contains the three invariants the runs check.
LEMMA IInvImplies == IInv => TypeOK /\ Conserved /\ PaidForElapsedTime
<1> SUFFICES ASSUME IInv PROVE TypeOK /\ Conserved /\ PaidForElapsedTime
  OBVIOUS
<1>1. Shaped /\ RestOK /\ now \in Nat /\ \A s \in StreamIds : IsGood(s)
  BY DEF IInv, StreamsOK
<1>2. TypeOK
  <2>1. \A s \in StreamIds :
           /\ stream[s] \in StreamRecord \cup {NoStream}
           /\ deposited[s] \in Nat /\ paid[s] \in Nat /\ refunded[s] \in Nat
           /\ residual[s] \in Nat /\ flow[s] \in Nat /\ streamed[s] \in Nat
    BY <1>1 DEF IsGood, Good
  <2>2. QED
    BY <1>1, <2>1 DEF TypeOK, Shaped, RestOK
<1>3. Conserved
  BY <1>1 DEF Conserved, IsGood, Good, Holds, Locked, Active, IsActive
<1>4. PaidForElapsedTime
  <2> SUFFICES ASSUME NEW s \in StreamIds
               PROVE  streamed[s] =< Entitled(s) /\ Entitled(s) =< flow[s]
    BY DEF PaidForElapsedTime
  <2>1. /\ IsGood(s) /\ Entitled(s) = paid[s] - residual[s] + Claim(stream[s], now)
    BY <1>1, EntitledIs
  <2>2. /\ paid[s] \in Nat /\ residual[s] \in Nat /\ flow[s] \in Nat
        /\ streamed[s] =< paid[s] - residual[s] + Claim(stream[s], now)
        /\ paid[s] - residual[s] + Meter(stream[s], now) =< flow[s]
    BY <2>1 DEF IsGood, Good
  <2>3. /\ Claim(stream[s], now) \in Nat /\ Meter(stream[s], now) \in Nat
        /\ Claim(stream[s], now) =< Meter(stream[s], now)
    <3>1. CASE IsActive(stream[s])
      BY <2>1, <3>1, ActiveFacts DEF IsGood
    <3>2. CASE ~IsActive(stream[s])
      BY <3>2 DEF Claim, Meter
    <3>3. QED
      BY <3>1, <3>2
  <2>4. QED
    BY <2>1, <2>2, <2>3
<1>5. QED
  BY <1>2, <1>3, <1>4

\* Every reachable state of the streaming library satisfies the inductive
\* invariant, for all sets of streams, rates and amounts.
THEOREM StreamsInductive == Spec => []IInv
<1>1. IInv /\ [Next]_vars => IInv'
  BY NextStep
<1>2. QED
  BY <1>1, InitGood, PTL DEF Spec

\* Type correctness of the streaming library.
THEOREM StreamsTypeCorrect == Spec => []TypeOK
BY StreamsInductive, IInvImplies, PTL

\* Conservation of the tokens of every stream (deposit, payments, refunds),
\* with the second payment of close_expired_stream as the only excess.
THEOREM StreamsConserved == Spec => []Conserved
BY StreamsInductive, IInvImplies, PTL

\* Until a close pays a residual, the balance is what the Active streams lock.
LEMMA BalanceState == IInv => BalanceExact
<1> SUFFICES ASSUME IInv, \A s \in StreamIds : residual[s] = 0
             PROVE  Pool = SumFunction([s \in StreamIds |-> Locked(s)])
  BY DEF BalanceExact
<1>1. ASSUME NEW s \in StreamIds
      PROVE  deposited[s] - paid[s] - refunded[s] = Locked(s)
  <2>1. /\ deposited[s] \in Nat /\ paid[s] \in Nat /\ refunded[s] \in Nat
        /\ residual[s] = 0
    BY DEF IInv, StreamsOK, IsGood, Good
  <2>2. deposited[s] + residual[s] = paid[s] + refunded[s] + Locked(s)
    BY IInvImplies DEF Conserved
  <2>3. Locked(s) \in Nat
    BY DEF IInv, StreamsOK, IsGood, Good, Sound, StreamRecord,
           Locked, Active, IsActive
  <2>4. QED
    BY <2>1, <2>2, <2>3
<1>2. [s \in StreamIds |-> deposited[s] - paid[s] - refunded[s]]
      = [s \in StreamIds |-> Locked(s)]
  BY <1>1
<1>3. QED
  BY <1>2 DEF Pool

\* The contract holds exactly what its Active streams lock, for as long as no
\* close_expired_stream has paid a residual.
THEOREM StreamsBalanceExact == Spec => []BalanceExact
BY StreamsInductive, BalanceState, PTL

\* The receiver is paid for the seconds that elapsed: never more than rate
\* times time, never less than the deposit covered.
THEOREM StreamsPaidForElapsedTime == Spec => []PaidForElapsedTime
BY StreamsInductive, IInvImplies, PTL

\* No handler takes back what was earned, and only time or a top-up adds to it.
THEOREM StreamsEntitlementKept == Spec => EntitlementKept
<1>1. IInv /\ [Next]_vars => [\A s \in StreamIds : Keeps(s)]_vars
  BY NextStep
<1>2. QED
  BY <1>1, StreamsInductive, PTL DEF Spec, EntitlementKept
-----------------------------------------------------------------------------
(* What a step leaves of a stream that stays Active *)

\* The rate and the receiver of s are those it had.
SameTerms(s) ==
    Active(s)' => /\ Active(s)
                  /\ stream'[s].rate = stream[s].rate
                  /\ stream'[s].receiver = stream[s].receiver

\* Creations and rate changes apart, a step leaves the index and the terms of
\* every stream alone.
TermsKept == recipientIdx' = recipientIdx /\ \A s \in StreamIds : SameTerms(s)

LEMMA RecordOf ==
  ASSUME StreamsOK, NEW s \in StreamIds, Active(s)
  PROVE  /\ stream[s] \in StreamRecord /\ IsActive(stream[s]) /\ IsGood(s)
         /\ Sound(stream[s], now)
         /\ Checkpointed(stream[s], now) \in StreamRecord
         /\ Checkpointed(stream[s], now).rate = stream[s].rate
         /\ Checkpointed(stream[s], now).receiver = stream[s].receiver
<1>1. IsGood(s) /\ IsActive(stream[s])
  BY DEF StreamsOK, Active, IsActive
<1>2. stream[s] \in StreamRecord /\ Sound(stream[s], now)
  BY <1>1 DEF IsGood, Good, NoStream, IsActive
<1>3. /\ Checkpointed(stream[s], now) \in StreamRecord
      /\ Checkpointed(stream[s], now).rate = stream[s].rate
  BY <1>2, CheckpointFacts DEF Sound, StreamsOK
<1>4. Checkpointed(stream[s], now).receiver = stream[s].receiver
  BY <1>2 DEF Checkpointed, StreamRecord
<1>5. QED
  BY <1>1, <1>2, <1>3, <1>4

LEMMA PayOutTerms ==
  ASSUME StreamsOK, NEW S \in SUBSET StreamIds, NEW amount, DOMAIN amount = S,
         \A s \in S : Active(s), PayOut(amount)
  PROVE  TermsKept
<1>1. recipientIdx' = recipientIdx
  BY DEF PayOut, indexes
<1>2. ASSUME NEW s \in StreamIds
      PROVE  SameTerms(s)
  <2>1. CASE s \notin S
    BY <2>1 DEF PayOut, SameTerms, Active
  <2>2. CASE s \in S
    <3> DEFINE c == Checkpointed(stream[s], now)
    <3>1. c \in StreamRecord /\ c.rate = stream[s].rate /\ c.receiver = stream[s].receiver
      BY <2>2, RecordOf
    <3>2. stream'[s] = Withdrawn(c, amount[s])
      BY <2>2 DEF PayOut
    <3> HIDE DEF c
    <3>3. stream'[s].rate = c.rate /\ stream'[s].receiver = c.receiver
      BY <3>1, <3>2 DEF Withdrawn, StreamRecord
    <3>4. QED
      BY <2>2, <3>1, <3>3 DEF SameTerms
  <2>3. QED
    BY <2>1, <2>2
<1>3. QED
  BY <1>1, <1>2 DEF TermsKept

LEMMA CancelTerms ==
  ASSUME StreamsOK, NEW S \in SUBSET StreamIds, \A s \in S : Active(s), CancelAll(S)
  PROVE  /\ TermsKept
         /\ \A s \in S : stream'[s].status = "Cancelled"
<1>1. recipientIdx' = recipientIdx
  BY DEF CancelAll, indexes
<1>2. ASSUME NEW s \in S
      PROVE  stream'[s].status = "Cancelled"
  <2> DEFINE c == Checkpointed(stream[s], now)
  <2>1. c \in StreamRecord
    BY <1>2, RecordOf
  <2>2. stream'[s] = CancelledForm(c)
    BY <1>2 DEF CancelAll
  <2> HIDE DEF c
  <2>3. QED
    BY <2>1, <2>2 DEF CancelledForm, StreamRecord
<1>3. ASSUME NEW s \in StreamIds
      PROVE  SameTerms(s)
  <2>1. CASE s \notin S
    BY <2>1 DEF CancelAll, SameTerms, Active
  <2>2. CASE s \in S
    BY <1>2, <2>2 DEF SameTerms, Active
  <2>3. QED
    BY <2>1, <2>2
<1>4. QED
  BY <1>1, <1>2, <1>3 DEF TermsKept

\* The streams that withdraw_all_for_recipient pays.
LEMMA PickedFacts ==
  ASSUME StreamsOK, RestOK, NEW rcv \in Receivers, NEW max
  PROVE  /\ Picked(rcv, max) \in SUBSET StreamIds
         /\ \A s \in Picked(rcv, max) : Active(s) /\ stream[s].approved
<1>1. recipientIdx[rcv] \in Seq(StreamIds)
  BY DEF RestOK
<1>2. ASSUME NEW s \in Picked(rcv, max)
      PROVE  s \in StreamIds /\ Active(s) /\ stream[s].approved
  <2>1. PICK i \in DOMAIN recipientIdx[rcv] : s = recipientIdx[rcv][i] /\ Pays(rcv, i)
    BY DEF Picked, Scanned
  <2>2. QED
    BY <1>1, <2>1 DEF Pays
<1>3. QED
  BY <1>2

\* What a step is for the properties below: a creation, a rate change, or one
\* that keeps the terms.
LEMMA TermsShape ==
  ASSUME IInv, [Next]_vars
  PROVE  \/ \E s \in StreamIds, snd \in Senders, rcv \in Receivers,
               rate \in Rates, a \in Amounts : CreateStream(s, snd, rcv, rate, a)
         \/ \E s \in StreamIds, rate \in Rates : ChangeRate(s, rate)
         \/ TermsKept
<1>0. StreamsOK /\ RestOK /\ Shaped
  BY DEF IInv, StreamsOK
<1>2. ASSUME NEW s \in StreamIds, SetStreamDestination(s) \/ ApproveStreamMilestone(s)
      PROVE  TermsKept
  <2>1. recipientIdx' = recipientIdx
    BY <1>2 DEF SetStreamDestination, ApproveStreamMilestone, indexes
  <2>2. ASSUME NEW x \in StreamIds
        PROVE  SameTerms(x)
    <3>1. CASE x # s
      BY <1>0, <1>2, <3>1 DEF SetStreamDestination, ApproveStreamMilestone, SameTerms,
         Active, Shaped
    <3>2. CASE x = s
      <4>1. stream[s] \in StreamRecord
        BY <1>0, <1>2 DEF SetStreamDestination, ApproveStreamMilestone, StreamsOK, IsGood,
           Good, Exists, Active, NoStream
      <4>2. \/ stream'[s] = [stream[s] EXCEPT !.destination = TRUE]
            \/ stream'[s] = [stream[s] EXCEPT !.approved = TRUE]
        BY <1>0, <1>2 DEF SetStreamDestination, ApproveStreamMilestone, Shaped
      <4>3. QED
        BY <3>2, <4>1, <4>2 DEF SameTerms, StreamRecord, Active
    <3>3. QED
      BY <3>1, <3>2
  <2>3. QED
    BY <2>1, <2>2 DEF TermsKept
<1>3. ASSUME NEW s \in StreamIds, NEW n \in Rates,
             UpdateStreamRate(s, n) \/ DecreaseRatePerSecond(s, n)
      PROVE  ChangeRate(s, n)
  BY <1>3 DEF UpdateStreamRate, DecreaseRatePerSecond
<1>4. ASSUME NEW rcv \in Receivers, NEW max, WithdrawAllForRecipient(rcv, max)
      PROVE  TermsKept
  <2> DEFINE S == Picked(rcv, max)
             amount == [s \in S |-> Accrued(s)]
  <2>1. S \in SUBSET StreamIds /\ \A s \in S : Active(s)
    BY <1>0, PickedFacts
  <2>2. PayOut(amount)
    BY <1>4 DEF WithdrawAllForRecipient
  <2> HIDE DEF S
  <2>3. DOMAIN amount = S
    OBVIOUS
  <2> HIDE DEF amount
  <2>4. QED
    BY <1>0, <2>1, <2>2, <2>3, PayOutTerms
<1>5. ASSUME NEW s \in StreamIds, TriggerWithdrawal(s)
      PROVE  TermsKept
  <2>1. Active(s)
    BY <1>5 DEF TriggerWithdrawal, TriggerAllowed
  <2>2. CASE PayOut([x \in {s} |-> Accrued(x)])
    <3> DEFINE amount == [x \in {s} |-> Accrued(x)]
    <3>1. DOMAIN amount = {s} /\ {s} \in SUBSET StreamIds /\ \A x \in {s} : Active(x)
      BY <2>1
    <3>2. PayOut(amount)
      BY <2>2
    <3> HIDE DEF amount
    <3>3. QED
      BY <1>0, <3>1, <3>2, PayOutTerms
  <2>3. CASE /\ stream' = [stream EXCEPT ![s] = Checkpointed(@, now)]
             /\ UNCHANGED indexes
    <3> DEFINE c == Checkpointed(stream[s], now)
    <3>1. c.rate = stream[s].rate /\ c.receiver = stream[s].receiver
      BY <1>0, <2>1, RecordOf
    <3>2. stream' = [stream EXCEPT ![s] = c]
      BY <2>3
    <3> HIDE DEF c
    <3>3. \A x \in StreamIds : SameTerms(x)
      BY <1>0, <2>1, <3>1, <3>2 DEF SameTerms, Active, Shaped
    <3>4. QED
      BY <2>3, <3>3 DEF TermsKept, indexes
  <2>4. QED
    BY <1>5, <2>2, <2>3 DEF TriggerWithdrawal
<1>6. ASSUME NEW rcv \in Receivers, NEW S \in SUBSET StreamIds, NEW asked \in [S -> Amounts],
             BatchWithdrawTo(rcv, asked)
      PROVE  TermsKept
  <2> DEFINE P == {x \in DOMAIN asked : Accrued(x) > 0}
             amount == [s \in P |-> Lesser(Accrued(s), asked[s])]
  <2>1. P \in SUBSET StreamIds /\ \A s \in P : Active(s)
    BY <1>6 DEF BatchWithdrawTo
  <2>2. PayOut(amount)
    BY <1>6 DEF BatchWithdrawTo
  <2> HIDE DEF P
  <2>3. DOMAIN amount = P
    OBVIOUS
  <2> HIDE DEF amount
  <2>4. QED
    BY <1>0, <2>1, <2>2, <2>3, PayOutTerms
<1>7. ASSUME NEW snd \in Senders, NEW S \in SUBSET StreamIds, NEW amount \in [S -> Amounts],
             TopUpMultipleStreams(snd, amount)
      PROVE  TermsKept
  <2>1. recipientIdx' = recipientIdx
    BY <1>7 DEF TopUpMultipleStreams, indexes
  <2>2. ASSUME NEW s \in StreamIds
        PROVE  SameTerms(s)
    <3>1. CASE s \notin S
      BY <1>7, <3>1 DEF TopUpMultipleStreams, SameTerms, Active
    <3>2. CASE s \in S
      <4>1. Active(s)
        BY <1>7, <3>2 DEF TopUpMultipleStreams
      <4>2. stream[s] \in StreamRecord
        BY <1>0, <4>1, RecordOf
      <4>3. stream'[s] = [stream[s] EXCEPT !.remaining = @ + amount[s]]
        BY <1>7, <3>2 DEF TopUpMultipleStreams
      <4>4. QED
        BY <4>1, <4>2, <4>3 DEF SameTerms, StreamRecord
    <3>3. QED
      BY <3>1, <3>2
  <2>3. QED
    BY <2>1, <2>2 DEF TermsKept
<1>8. ASSUME NEW snd \in Senders, NEW S \in SUBSET StreamIds, CancelMultipleStreams(snd, S)
      PROVE  TermsKept
  BY <1>0, <1>8, CancelTerms DEF CancelMultipleStreams
<1>9. ASSUME NEW snd \in Senders, NEW n \in 0 .. MaxBatchCancel + 1,
             NEW ids \in [1 .. n -> StreamIds], BatchCancelStreams(snd, ids)
      PROVE  TermsKept
  <2> DEFINE S == {s \in {ids[i] : i \in {j \in DOMAIN ids : j =< MaxBatchCancel}} :
                      Active(s) /\ stream[s].sender = snd}
  <2>1. S \in SUBSET StreamIds /\ (\A s \in S : Active(s)) /\ CancelAll(S)
    BY <1>9 DEF BatchCancelStreams
  <2> HIDE DEF S
  <2>2. QED
    BY <1>0, <2>1, CancelTerms
<1>10. ASSUME NEW s \in StreamIds, CloseExpiredStream(s)
       PROVE  TermsKept
  BY <1>0, <1>10 DEF CloseExpiredStream, TermsKept, SameTerms, Active, NoStream, indexes,
     Shaped
<1>11. ASSUME UNCHANGED <<stream, indexes>>
       PROVE  TermsKept
  BY <1>11 DEF TermsKept, SameTerms, Active, indexes
<1>12. ASSUME NEW s \in StreamIds, LockLapses(s)
       PROVE  TermsKept
  BY <1>11, <1>12 DEF LockLapses
<1>13. ASSUME NEW value \in BOOLEAN, SetGlobalPause(value)
       PROVE  TermsKept
  BY <1>11, <1>13 DEF SetGlobalPause
<1>14. Tick \/ UNCHANGED vars => TermsKept
  BY <1>11 DEF Tick, vars, indexes
<1> HIDE DEF TermsKept
<1>15. QED
  BY <1>2, <1>3, <1>4, <1>5, <1>6, <1>7, <1>8, <1>9, <1>10, <1>12, <1>13, <1>14
     DEF Next, ProcessorNext
-----------------------------------------------------------------------------
(* Who is paid before the approval *)

Distributes(s) ==
    paid'[s] > paid[s]
       => stream[s].approved \/ stream'[s].status \in {"Cancelled", "None"}

LEMMA PaidNat ==
  ASSUME StreamsOK, NEW s \in StreamIds
  PROVE  paid[s] \in Nat
BY DEF StreamsOK, IsGood, Good

LEMMA PayOutDistributes ==
  ASSUME StreamsOK, NEW amount, \A s \in DOMAIN amount : stream[s].approved,
         PayOut(amount), NEW s \in StreamIds
  PROVE  Distributes(s)
<1>1. CASE s \in DOMAIN amount
  BY <1>1 DEF Distributes
<1>2. CASE s \notin DOMAIN amount
  BY <1>2, PaidNat DEF PayOut, Distributes
<1>3. QED
  BY <1>1, <1>2

LEMMA CancelDistributes ==
  ASSUME StreamsOK, NEW S \in SUBSET StreamIds, \A s \in S : Active(s), CancelAll(S),
         NEW s \in StreamIds
  PROVE  Distributes(s)
<1>1. CASE s \in S
  BY <1>1, CancelTerms DEF Distributes
<1>2. CASE s \notin S
  BY <1>2, PaidNat DEF CancelAll, Distributes
<1>3. QED
  BY <1>1, <1>2

LEMMA NothingPaid ==
  ASSUME StreamsOK, paid' = paid
  PROVE  \A s \in StreamIds : Distributes(s)
BY PaidNat DEF Distributes

LEMMA NextDistributes ==
  ASSUME IInv, [Next]_vars
  PROVE  \A s \in StreamIds : Distributes(s)
<1> DEFINE Goal == \A s \in StreamIds : Distributes(s)
<1>0. StreamsOK /\ RestOK /\ Shaped
  BY DEF IInv, StreamsOK
<1>1. ASSUME paid' = paid
      PROVE  Goal
  BY <1>0, <1>1, NothingPaid
<1>2. ASSUME NEW rcv \in Receivers, NEW max, WithdrawAllForRecipient(rcv, max)
      PROVE  Goal
  <2> DEFINE amount == [s \in Picked(rcv, max) |-> Accrued(s)]
  <2>1. \A s \in DOMAIN amount : stream[s].approved
    BY <1>0, PickedFacts
  <2>2. PayOut(amount)
    BY <1>2 DEF WithdrawAllForRecipient
  <2> HIDE DEF amount
  <2>3. QED
    BY <1>0, <2>1, <2>2, PayOutDistributes
<1>3. ASSUME NEW s \in StreamIds, TriggerWithdrawal(s)
      PROVE  Goal
  <2>1. CASE PayOut([x \in {s} |-> Accrued(x)])
    <3> DEFINE amount == [x \in {s} |-> Accrued(x)]
    <3>1. PayOut(amount) /\ \A x \in DOMAIN amount : stream[x].approved
      BY <1>3, <2>1 DEF TriggerWithdrawal, TriggerAllowed
    <3> HIDE DEF amount
    <3>2. QED
      BY <1>0, <3>1, PayOutDistributes
  <2>2. CASE UNCHANGED ledger
    BY <1>1, <2>2 DEF ledger
  <2>3. QED
    BY <1>3, <2>1, <2>2 DEF TriggerWithdrawal
<1>4. ASSUME NEW rcv \in Receivers, NEW asked, BatchWithdrawTo(rcv, asked)
      PROVE  Goal
  <2> DEFINE amount == [s \in {x \in DOMAIN asked : Accrued(x) > 0} |->
                           Lesser(Accrued(s), asked[s])]
  <2>1. PayOut(amount) /\ \A x \in DOMAIN amount : stream[x].approved
    BY <1>4 DEF BatchWithdrawTo
  <2> HIDE DEF amount
  <2>2. QED
    BY <1>0, <2>1, PayOutDistributes
<1>5. ASSUME NEW S \in SUBSET StreamIds, \A s \in S : Active(s), CancelAll(S)
      PROVE  Goal
  BY <1>0, <1>5, CancelDistributes
<1>6. ASSUME NEW snd \in Senders, NEW n \in 0 .. MaxBatchCancel + 1,
             NEW ids \in [1 .. n -> StreamIds], BatchCancelStreams(snd, ids)
      PROVE  Goal
  <2> DEFINE S == {s \in {ids[i] : i \in {j \in DOMAIN ids : j =< MaxBatchCancel}} :
                      Active(s) /\ stream[s].sender = snd}
  <2>1. S \in SUBSET StreamIds /\ (\A s \in S : Active(s)) /\ CancelAll(S)
    BY <1>6 DEF BatchCancelStreams
  <2> HIDE DEF S, Goal
  <2>2. QED
    BY <1>5, <2>1
<1>7. ASSUME NEW snd \in Senders, NEW S \in SUBSET StreamIds, CancelMultipleStreams(snd, S)
      PROVE  Goal
  BY <1>5, <1>7 DEF CancelMultipleStreams
<1>8. ASSUME NEW s \in StreamIds, CloseExpiredStream(s)
      PROVE  Goal
  <2>1. ASSUME NEW x \in StreamIds
        PROVE  Distributes(x)
    <3>1. CASE x = s
      BY <1>0, <1>8, <3>1 DEF CloseExpiredStream, Distributes, NoStream, Shaped
    <3>2. CASE x # s
      BY <1>0, <1>8, <3>2, PaidNat DEF CloseExpiredStream, Distributes, Shaped
    <3>3. QED
      BY <3>1, <3>2
  <2>2. QED
    BY <2>1
<1> HIDE DEF Goal
<1>9. ASSUME NEW s \in StreamIds
      PROVE  /\ SetStreamDestination(s) \/ ApproveStreamMilestone(s) \/ LockLapses(s) => Goal
             /\ \A n \in Rates : UpdateStreamRate(s, n) \/ DecreaseRatePerSecond(s, n) => Goal
             /\ \A snd \in Senders, rcv \in Receivers, n \in Rates, a \in Amounts :
                   CreateStream(s, snd, rcv, n, a) => Goal
  BY <1>1 DEF SetStreamDestination, ApproveStreamMilestone, LockLapses, UpdateStreamRate,
     DecreaseRatePerSecond, ChangeRate, CreateStream, ledger
<1>10. ASSUME NEW snd \in Senders, NEW amount, TopUpMultipleStreams(snd, amount)
       PROVE  Goal
  BY <1>1, <1>10 DEF TopUpMultipleStreams
<1>11. ASSUME NEW value \in BOOLEAN, SetGlobalPause(value)
       PROVE  Goal
  BY <1>1, <1>11 DEF SetGlobalPause, ledger
<1>12. Tick \/ UNCHANGED vars => Goal
  BY <1>1 DEF Tick, vars, ledger
<1>13. Goal
  BY <1>2, <1>3, <1>4, <1>6, <1>7, <1>8, <1>9, <1>10, <1>11, <1>12 DEF Next, ProcessorNext
<1>14. QED
  BY <1>13 DEF Goal

\* Distributions wait for the sender's approval: a stream that was not approved
\* pays its receiver only when it is cancelled, or closed after that.
THEOREM StreamsNeedApproval == Spec => DistributionNeedsApproval
<1>1. IInv /\ [Next]_vars => [\A s \in StreamIds : Distributes(s)]_vars
  BY NextDistributes
<1>2. [][\A s \in StreamIds : Distributes(s)]_vars => DistributionNeedsApproval
  BY PTL DEF DistributionNeedsApproval, Distributes
<1>3. QED
  BY <1>1, <1>2, StreamsInductive, PTL DEF Spec
-----------------------------------------------------------------------------
(* What a rate cut leaves of the duration *)

KeepsDuration(s) ==
    Active(s) /\ Active(s)' /\ stream'[s].rate < stream[s].rate
       => SecondsLeft(s)' = SecondsLeft(s)

LEMMA WholeQuotient ==
  ASSUME NEW k \in Nat, NEW n \in Nat \ {0}
  PROVE  (k * n) \div n = k
<1> DEFINE m == k * n
<1>1. m \in Nat /\ m = n * k
  OBVIOUS
<1>2. m \div n \in Int /\ n * (m \div n) =< m /\ m < n * (m \div n) + n
  BY <1>1, Z3
<1> DEFINE q == m \div n
<1>3. q \in Int /\ n * q =< n * k /\ n * k < n * q + n
  BY <1>1, <1>2
<1> HIDE DEF q, m
<1>4. q =< k /\ k < q + 1
  BY <1>3, Z3
<1>5. QED
  BY <1>3, <1>4 DEF q, m

\* Of a checkpointed record, a rate cut to n keeps k * n unlocked, k the whole
\* seconds that the old rate would have run.
LEMMA CutFacts ==
  ASSUME NEW c \in StreamRecord, c.accrued =< c.remaining, NEW n \in Nat \ {0},
         n < c.rate
  PROVE  LET q == Rerated(c, n)
         IN  /\ q.rate = n /\ q.accrued = c.accrued /\ q.checkpoint = c.checkpoint
             /\ q.remaining - q.accrued = ((c.remaining - c.accrued) \div c.rate) * n
             /\ q \in StreamRecord /\ q.accrued =< q.remaining
<1> DEFINE u == c.remaining - c.accrued
           k == u \div c.rate
           s == Surplus(c, n)
           q == Rerated(c, n)
<1>1. c.remaining \in Nat /\ c.accrued \in Nat /\ c.rate \in Nat \ {0} /\ u \in Nat
  BY DEF StreamRecord
<1>2. s \in Nat /\ s =< c.remaining - c.accrued
  BY SurplusFacts
<1>3. s = u - k * n
  BY DEF Surplus
<1>4. k \in Nat
  BY <1>1, Z3
<1>5. q = [c EXCEPT !.rate = n, !.remaining = c.remaining - s]
  BY DEF Rerated
<1> HIDE DEF s, q, k
<1>6. /\ q.rate = n /\ q.accrued = c.accrued /\ q.checkpoint = c.checkpoint
      /\ q.remaining = c.remaining - s
  BY <1>5 DEF StreamRecord
<1>7. q \in StreamRecord
  <2>1. c.remaining - s \in Nat
    BY <1>1, <1>2
  <2>2. QED
    BY <1>5, <2>1 DEF StreamRecord
<1> DEFINE p == k * n
<1>8. p \in Nat
  BY <1>4, ProductNat
<1> HIDE DEF p
<1>9. q.remaining - q.accrued = p /\ q.accrued =< q.remaining
  BY <1>1, <1>2, <1>3, <1>6, <1>8 DEF p
<1>10. QED
  BY <1>6, <1>7, <1>9 DEF p, k, q

LEMMA CutKeepsDuration ==
  ASSUME StreamsOK, NEW s \in StreamIds, NEW n \in Rates, ChangeRate(s, n)
  PROVE  \A x \in StreamIds : KeepsDuration(x)
<1> DEFINE c == Checkpointed(stream[s], now)
           q == Rerated(c, n)
<1>1. Active(s) /\ now \in Nat /\ n \in Nat \ {0} /\ now' = now /\ stream'[s] = q
  BY StreamsAssumption DEF StreamsOK, ChangeRate, clocks, Shaped
<1>2. /\ c \in StreamRecord /\ c.rate = stream[s].rate /\ c.checkpoint = now
      /\ c.remaining = stream[s].remaining /\ c.accrued = Accrued(s)
      /\ c.accrued =< c.remaining
  <2>1. Sound(stream[s], now)
    BY <1>1, RecordOf
  <2>2. Sound(c, now) /\ c.rate = stream[s].rate /\ c.checkpoint = now
        /\ c.remaining = stream[s].remaining
    BY <1>1, <2>1, CheckpointFacts
  <2>3. QED
    BY <2>2 DEF Sound, Accrued
<1> HIDE DEF c
<1>3. ASSUME n < c.rate
      PROVE  SecondsLeft(s)' = SecondsLeft(s)
  <2> DEFINE k == (c.remaining - c.accrued) \div c.rate
  <2>1. /\ q.rate = n /\ q.checkpoint = now
        /\ q.remaining - q.accrued = k * n
        /\ q \in StreamRecord /\ q.accrued =< q.remaining
    BY <1>1, <1>2, <1>3, CutFacts
  <2>2. k \in Nat
    BY <1>2, Z3 DEF StreamRecord
  <2> HIDE DEF q
  <2>3. Checkpointed(q, now).accrued = q.accrued
    <3>1. Sound(q, now)
      BY <1>1, <2>1 DEF Sound
    <3>2. QED
      BY <1>1, <2>1, <3>1, FreshFacts
  <2>4. SecondsLeft(s) = k
    BY <1>2 DEF SecondsLeft
  <2>5. SecondsLeft(s)' = (q.remaining - q.accrued) \div q.rate
    BY <1>1, <2>3 DEF SecondsLeft, Accrued
  <2> HIDE DEF k
  <2>6. (k * n) \div n = k
    BY <1>1, <2>2, WholeQuotient
  <2>7. QED
    BY <2>1, <2>4, <2>5, <2>6
<1>4. stream'[s].rate = n
  <2>1. q = [c EXCEPT !.rate = n, !.remaining = c.remaining - Surplus(c, n)]
    BY DEF Rerated
  <2>2. QED
    BY <1>1, <1>2, <2>1 DEF StreamRecord
<1>5. ASSUME NEW x \in StreamIds, x # s
      PROVE  stream'[x] = stream[x]
  BY <1>5 DEF ChangeRate, StreamsOK, Shaped
<1>6. ASSUME NEW x \in StreamIds
      PROVE  KeepsDuration(x)
  <2>1. CASE x = s
    BY <1>2, <1>3, <1>4, <2>1 DEF KeepsDuration
  <2>2. CASE x # s
    <3>1. ASSUME Active(x)
          PROVE  ~(stream'[x].rate < stream[x].rate)
      <4>1. stream[x].rate \in Nat
        BY <3>1, RecordOf DEF StreamRecord
      <4>2. QED
        BY <1>5, <2>2, <4>1
    <3>2. QED
      BY <3>1 DEF KeepsDuration
  <2>3. QED
    BY <2>1, <2>2
<1>7. QED
  BY <1>6

LEMMA NextKeepsDuration ==
  ASSUME IInv, [Next]_vars
  PROVE  \A s \in StreamIds : KeepsDuration(s)
<1>0. StreamsOK /\ Shaped
  BY DEF IInv, StreamsOK
<1>1. ASSUME NEW x \in StreamIds, Active(x) => stream'[x].rate = stream[x].rate \/ ~Active(x)'
      PROVE  KeepsDuration(x)
  <2>1. Active(x) => stream[x].rate \in Nat
    BY <1>0, RecordOf DEF StreamRecord
  <2>2. QED
    BY <1>1, <2>1 DEF KeepsDuration
<1>2. ASSUME TermsKept, NEW x \in StreamIds
      PROVE  KeepsDuration(x)
  BY <1>1, <1>2 DEF TermsKept, SameTerms
<1>3. ASSUME NEW s \in StreamIds, NEW snd \in Senders, NEW rcv \in Receivers,
             NEW rate \in Rates, NEW a \in Amounts, CreateStream(s, snd, rcv, rate, a),
             NEW x \in StreamIds
      PROVE  KeepsDuration(x)
  <2>1. Active(x) => stream'[x] = stream[x]
    BY <1>0, <1>3 DEF CreateStream, Exists, Active, Shaped
  <2>2. QED
    BY <1>1, <2>1
<1>4. QED
  BY <1>0, <1>2, <1>3, CutKeepsDuration, TermsShape

\* A rate cut returns the surplus of the deposit and no more: the stream runs for
\* the same number of whole seconds, at every rate.
THEOREM StreamsCutKeepsDuration == Spec => RateCutKeepsDuration
<1>1. IInv /\ [Next]_vars => [\A s \in StreamIds : KeepsDuration(s)]_vars
  BY NextKeepsDuration
<1>2. [][\A s \in StreamIds : KeepsDuration(s)]_vars => RateCutKeepsDuration
  BY PTL DEF RateCutKeepsDuration, KeepsDuration
<1>3. QED
  BY <1>1, <1>2, StreamsInductive, PTL DEF Spec
-----------------------------------------------------------------------------
(* The recipient's index, and what a full withdraw_all leaves *)

\* A set of naturals that is not empty has a least element: the interval up to
\* it is smallest among the intervals up to its elements.
LEMMA Least ==
  ASSUME NEW D \in SUBSET Nat, D # {}
  PROVE  \E m \in D : \A k \in D : m =< k
<1> DEFINE B == {1 .. m : m \in D}
<1>1. B # {} /\ B \subseteq FiniteSubsetsOf(Nat)
  <2>1. ASSUME NEW m \in D
        PROVE  1 .. m \in FiniteSubsetsOf(Nat)
    <3>1. 1 \in Int /\ m \in Int
      OBVIOUS
    <3>2. IsFiniteSet(1 .. m)
      BY <3>1, FS_Interval, Zenon
    <3>3. 1 .. m \in SUBSET Nat
      OBVIOUS
    <3>4. QED
      BY <3>2, <3>3, Zenon DEF FiniteSubsetsOf
  <2>2. B # {}
    OBVIOUS
  <2>3. QED
    BY <2>1, <2>2
<1>2. IsWellFoundedOn(StrictSubsetOrdering(Nat), FiniteSubsetsOf(Nat))
  BY FS_StrictSubsetOrderingWellFounded
<1>3. PICK T \in B : \A U \in B : ~(<<U, T>> \in StrictSubsetOrdering(Nat))
  <2> HIDE DEF B, StrictSubsetOrdering, FiniteSubsetsOf
  <2>1. QED
    BY <1>1, <1>2, WFMin
<1>4. PICK m \in D : T = 1 .. m
  OBVIOUS
<1>5. ASSUME NEW k \in D, k < m
      PROVE  FALSE
  <2>1. m \in 1 .. m /\ m \notin 1 .. k /\ 1 .. k \subseteq 1 .. m
    BY <1>5
  <2>2. 1 .. k \in SUBSET Nat /\ 1 .. m \in SUBSET Nat
    OBVIOUS
  <2>3. <<1 .. k, 1 .. m>> \in StrictSubsetOrdering(Nat)
    BY <2>1, <2>2, Zenon DEF StrictSubsetOrdering
  <2>4. QED
    BY <1>3, <1>4, <2>3
<1>6. QED
  BY <1>4, <1>5

\* The index of the receiver of an Active stream names the stream.
IndexPart ==
    \A s \in StreamIds : Active(s) =>
        \E i \in DOMAIN recipientIdx[stream[s].receiver] :
            recipientIdx[stream[s].receiver][i] = s

LEMMA NextIndex ==
  ASSUME IInv, IndexPart, [Next]_vars
  PROVE  IndexPart'
<1>0. StreamsOK /\ RestOK /\ Shaped
  BY DEF IInv, StreamsOK
<1>1. CASE TermsKept
  BY <1>1 DEF TermsKept, SameTerms, IndexPart
<1>2. ASSUME NEW s \in StreamIds, NEW n \in Rates, ChangeRate(s, n)
      PROVE  IndexPart'
  <2>1. recipientIdx' = recipientIdx
    BY <1>2 DEF ChangeRate, indexes
  <2>2. ASSUME NEW x \in StreamIds, Active(x)'
        PROVE  Active(x) /\ stream'[x].receiver = stream[x].receiver
    <3>1. CASE x = s
      <4> DEFINE c == Checkpointed(stream[s], now)
      <4>1. Active(s) /\ c \in StreamRecord /\ c.receiver = stream[s].receiver
        BY <1>2, RecordOf, <1>0 DEF ChangeRate
      <4>2. stream'[s] = Rerated(c, n)
        BY <1>0, <1>2 DEF ChangeRate, Shaped
      <4> HIDE DEF c
      <4>3. stream'[s].receiver = c.receiver
        BY <4>1, <4>2 DEF Rerated, StreamRecord
      <4>4. QED
        BY <3>1, <4>1, <4>3
    <3>2. CASE x # s
      BY <1>0, <1>2, <2>2, <3>2 DEF ChangeRate, Shaped, Active
    <3>3. QED
      BY <3>1, <3>2
  <2>3. QED
    BY <2>1, <2>2 DEF IndexPart
<1>3. ASSUME NEW s \in StreamIds, NEW snd \in Senders, NEW rcv \in Receivers,
             NEW rate \in Rates, NEW a \in Amounts, CreateStream(s, snd, rcv, rate, a)
      PROVE  IndexPart'
  <2> DEFINE q == recipientIdx[rcv]
  <2>1. /\ q \in Seq(StreamIds)
        /\ recipientIdx'[rcv] = Append(q, s)
        /\ \A r \in Receivers : r # rcv => recipientIdx'[r] = recipientIdx[r]
    BY <1>0, <1>3 DEF CreateStream, RestOK
  <2>2. ASSUME NEW x \in StreamIds, Active(x)'
        PROVE  \E i \in DOMAIN recipientIdx'[stream'[x].receiver] :
                   recipientIdx'[stream'[x].receiver][i] = x
    <3>1. CASE x = s
      <4>1. stream'[s].receiver = rcv
        BY <1>0, <1>3 DEF CreateStream, Shaped
      <4>2. Len(q) + 1 \in DOMAIN Append(q, s) /\ Append(q, s)[Len(q) + 1] = s
        BY <2>1
      <4>3. QED
        BY <2>1, <3>1, <4>1, <4>2
    <3>2. CASE x # s
      <4>1. stream'[x] = stream[x] /\ Active(x)
        BY <1>0, <1>3, <2>2, <3>2 DEF CreateStream, Shaped, Active
      <4> DEFINE r == stream[x].receiver
      <4>2. r \in Receivers
        BY <1>0, <4>1, RecordOf DEF StreamRecord
      <4>3. PICK i \in DOMAIN recipientIdx[r] : recipientIdx[r][i] = x
        BY <4>1 DEF IndexPart
      <4>4. i \in DOMAIN recipientIdx'[r] /\ recipientIdx'[r][i] = x
        <5>1. CASE r = rcv
          <6>1. i \in DOMAIN q /\ q[i] = x
            BY <4>3, <5>1
          <6>2. i \in DOMAIN Append(q, s) /\ Append(q, s)[i] = x
            BY <2>1, <6>1
          <6>3. QED
            BY <2>1, <5>1, <6>2
        <5>2. CASE r # rcv
          BY <2>1, <4>2, <4>3, <5>2
        <5>3. QED
          BY <5>1, <5>2
      <4>5. QED
        BY <4>1, <4>4
    <3>3. QED
      BY <3>1, <3>2
  <2>3. QED
    BY <2>2 DEF IndexPart
<1>4. QED
  BY <1>1, <1>2, <1>3, TermsShape

\* The first mention of a stream that may be paid is reached by a scan that
\* stops after as many payments as there are identifiers.
LEMMA FirstMentionScanned ==
  ASSUME RestOK, IndexPart, IsFiniteSet(StreamIds), NEW s \in StreamIds, Active(s),
         stream[s].receiver \in Receivers, stream[s].approved, Accrued(s) > 0
  PROVE  s \in Picked(stream[s].receiver, Cardinality(StreamIds))
<1> DEFINE rcv == stream[s].receiver
           idx == recipientIdx[rcv]
           D == {i \in DOMAIN idx : idx[i] = s}
<1>1. idx \in Seq(StreamIds)
  BY DEF RestOK
<1>2. PICK i \in D : \A k \in D : i =< k
  <2>1. D \in SUBSET Nat /\ D # {}
    BY <1>1 DEF IndexPart
  <2> HIDE DEF D
  <2>2. QED
    BY <2>1, Least
<1>3. i \in DOMAIN idx /\ idx[i] = s /\ \A j \in 1 .. i - 1 : idx[j] # s
  BY <1>1, <1>2
<1>4. Pays(rcv, i)
  BY <1>3 DEF Pays
<1> DEFINE J == {j \in 1 .. i - 1 : Pays(rcv, j)}
           f == [j \in J |-> idx[j]]
           T == StreamIds \ {s}
<1>5. f \in Injection(J, T)
  <2>1. ASSUME NEW j \in J
        PROVE  idx[j] \in T
    BY <1>1, <1>3
  <2>2. ASSUME NEW j \in J, NEW k \in J, j < k
        PROVE  idx[j] # idx[k]
    <3>1. j \in 1 .. k - 1
      BY <2>2, <1>1, <1>3
    <3>2. Pays(rcv, k)
      OBVIOUS
    <3>3. QED
      BY <3>1, <3>2 DEF Pays
  <2>3. \A j, k \in J : j \in Int /\ k \in Int
    BY <1>1, <1>3
  <2>4. \A j, k \in J : idx[j] = idx[k] => j = k
    BY <2>2, <2>3
  <2>5. f \in [J -> T] /\ \A j, k \in J : f[j] = f[k] => j = k
    BY <2>1, <2>4
  <2>6. QED
    BY <2>5, Zenon DEF Injection, IsInjective
<1>6. IsFiniteSet(T) /\ Cardinality(T) = Cardinality(StreamIds) - 1
  BY FS_RemoveElement
<1>7. IsFiniteSet(J) /\ Cardinality(J) =< Cardinality(T)
  <2> HIDE DEF J, T, f
  <2>1. QED
    BY <1>5, <1>6, FS_Injection
<1>8. Cardinality(J) < Cardinality(StreamIds)
  <2>1. Cardinality(StreamIds) \in Nat
    BY FS_CardinalityType
  <2>2. Cardinality(J) \in Nat
    <3> HIDE DEF J
    <3>1. QED
      BY <1>7, FS_CardinalityType
  <2> HIDE DEF J, T
  <2>3. QED
    BY <1>6, <1>7, <2>1, <2>2
<1>9. i \in Scanned(rcv, Cardinality(StreamIds))
  BY <1>3, <1>8 DEF Scanned
<1>10. QED
  BY <1>3, <1>4, <1>9 DEF Picked

Drains(rcv) ==
    WithdrawAllForRecipient(rcv, Cardinality(StreamIds))
       => \A s \in StreamIds :
              Active(s)' /\ stream'[s].receiver = rcv /\ stream'[s].approved
                 => Accrued(s)' = 0

LEMMA NextDrains ==
  ASSUME IInv, IndexPart, IsFiniteSet(StreamIds), [Next]_vars, NEW rcv \in Receivers
  PROVE  Drains(rcv)
<1> DEFINE max == Cardinality(StreamIds)
           P == Picked(rcv, max)
           amount == [s \in P |-> Accrued(s)]
<1> SUFFICES ASSUME WithdrawAllForRecipient(rcv, max),
                    NEW s \in StreamIds,
                    Active(s)', stream'[s].receiver = rcv, stream'[s].approved
             PROVE  Accrued(s)' = 0
  BY DEF Drains
<1>0. StreamsOK /\ RestOK /\ StreamsOK' /\ now' = now /\ now \in Nat /\ now' \in Nat
  <2>1. IInv'
    BY NextStep
  <2>2. now' = now
    BY DEF WithdrawAllForRecipient, PayOut, clocks
  <2>3. QED
    BY <2>1, <2>2 DEF IInv, StreamsOK
<1>1. P \in SUBSET StreamIds /\ \A x \in P : Active(x)
  BY <1>0, PickedFacts
<1>2. PayOut(amount)
  BY DEF WithdrawAllForRecipient
<1> HIDE DEF P
<1>3. CASE s \in P
  <2> DEFINE c == Checkpointed(stream[s], now)
             q == Withdrawn(c, c.accrued)
  <2>1. c \in StreamRecord /\ c.checkpoint = now
    BY <1>0, <1>1, <1>3, RecordOf, CheckpointFacts
  <2>2. stream'[s] = q
    BY <1>2, <1>3 DEF PayOut, Accrued
  <2> HIDE DEF c
  <2>3. q.accrued = 0 /\ q.checkpoint = now
    BY <2>1 DEF Withdrawn, StreamRecord
  <2> HIDE DEF q
  <2>4. Sound(stream'[s], now')
    BY <1>0 DEF StreamsOK, IsGood, Good, Active, IsActive
  <2>5. Checkpointed(stream'[s], now').accrued = stream'[s].accrued
    BY <1>0, <2>2, <2>3, <2>4, FreshFacts
  <2>6. QED
    BY <2>2, <2>3, <2>5 DEF Accrued
<1>4. CASE s \notin P
  <2>1. stream'[s] = stream[s]
    BY <1>2, <1>4 DEF PayOut
  <2>2. Active(s) /\ stream[s].receiver = rcv /\ stream[s].approved
    BY <2>1 DEF Active
  <2>3. Accrued(s)' = Accrued(s)
    BY <1>0, <2>1 DEF Accrued
  <2>4. Accrued(s) \in Nat
    BY <1>0, <2>2, AccruedNat
  <2>5. ~(Accrued(s) > 0)
    BY <1>0, <1>4, <2>2, FirstMentionScanned DEF P
  <2>6. QED
    BY <2>3, <2>4, <2>5
<1>5. QED
  BY <1>3, <1>4

\* A withdraw_all_for_recipient that may process every stream leaves its
\* recipient nothing to claim: the index still names every Active stream, and
\* the names it is scanned past never use up the limit.  Identifiers are taken
\* from a finite set: the limit is their number.
THEOREM StreamsWithdrawAllDrains ==
  ASSUME IsFiniteSet(StreamIds)
  PROVE  Spec => WithdrawAllDrains
<1> DEFINE J == IInv /\ IndexPart
<1>1. Init => J
  <2>1. Init => IndexPart
    BY DEF Init, IndexPart, Active, NoStream
  <2>2. QED
    BY <2>1, InitGood
<1>2. J /\ [Next]_vars => J'
  BY NextStep, NextIndex
<1>3. J /\ [Next]_vars => [\A rcv \in Receivers : Drains(rcv)]_vars
  BY NextDrains
<1>4. [][\A rcv \in Receivers : Drains(rcv)]_vars => WithdrawAllDrains
  BY PTL DEF WithdrawAllDrains, Drains
<1>5. QED
  BY <1>1, <1>2, <1>3, <1>4, PTL DEF Spec

-----------------------------------------------------------------------------
(* The escrow *)

\* What drips from a record each second.
Speed(r) == IF IsActive(r) THEN r.rate ELSE 0

\* An account is divided into its four parts, and none of them is overdrawn.
Accounted(s) ==
    /\ deposited[s] \in Nat /\ refunded[s] \in Nat /\ ReceivedBar[s] \in Int
    /\ EarnedBar[s] \in Nat /\ UnearnedBar[s] \in Nat
    /\ deposited[s] = ReceivedBar[s] + refunded[s] + (EarnedBar[s] + UnearnedBar[s])

\* A step moves tokens between the parts of an account, and what was received
\* or earned only grows with time or a deposit.
Moves(s) ==
    /\ Accounted(s) /\ Accounted(s)'
    /\ ReceivedBar'[s] + EarnedBar'[s] >= ReceivedBar[s] + EarnedBar[s]
    /\ now' = now /\ (Active(s) => deposited'[s] = deposited[s])
          => ReceivedBar'[s] + EarnedBar'[s] = ReceivedBar[s] + EarnedBar[s]

Still(s) ==
    /\ RunningBar'[s] = RunningBar[s] /\ UnearnedBar'[s] = UnearnedBar[s]
    /\ EarnedBar'[s] = EarnedBar[s] /\ ReceivedBar'[s] = ReceivedBar[s]
    /\ deposited'[s] = deposited[s] /\ refunded'[s] = refunded[s]

LEMMA BarValues ==
  ASSUME NEW s \in StreamIds
  PROVE  /\ RunningBar[s] = Speed(stream[s])
         /\ EarnedBar[s] = Claim(stream[s], now)
         /\ UnearnedBar[s] = Holds(stream[s]) - Claim(stream[s], now)
         /\ ReceivedBar[s] = paid[s] - residual[s]
BY DEF RunningBar, EarnedBar, UnearnedBar, ReceivedBar, Speed, Claim, Holds, IsActive,
   Active, Accrued

LEMMA BarValuesNext ==
  ASSUME NEW s \in StreamIds
  PROVE  /\ RunningBar'[s] = Speed(stream'[s])
         /\ EarnedBar'[s] = Claim(stream'[s], now')
         /\ UnearnedBar'[s] = Holds(stream'[s]) - Claim(stream'[s], now')
         /\ ReceivedBar'[s] = paid'[s] - residual'[s]
BY DEF RunningBar, EarnedBar, UnearnedBar, ReceivedBar, Speed, Claim, Holds, IsActive,
   Active, Accrued

\* The parts of the escrow are functions on the identifiers.
Parts ==
    /\ RunningBar = [s \in StreamIds |-> RunningBar[s]]
    /\ UnearnedBar = [s \in StreamIds |-> UnearnedBar[s]]
    /\ EarnedBar = [s \in StreamIds |-> EarnedBar[s]]
    /\ ReceivedBar = [s \in StreamIds |-> ReceivedBar[s]]

LEMMA PartsAre == Parts /\ Parts'
BY DEF Parts, RunningBar, UnearnedBar, EarnedBar, ReceivedBar

LEMMA GoodParts ==
  ASSUME NEW r, NEW t, NEW d, NEW p, NEW f, NEW x, NEW fl, NEW st,
         Good(r, t, d, p, f, x, fl, st)
  PROVE  /\ d \in Nat /\ p \in Nat /\ f \in Nat /\ x \in Nat
         /\ Claim(r, t) \in Nat /\ Holds(r) \in Nat /\ Claim(r, t) =< Holds(r)
         /\ d + x = p + f + Holds(r)
<1>1. CASE IsActive(r)
  <2>1. /\ Claim(r, t) \in Nat /\ r.remaining \in Nat /\ Claim(r, t) =< r.remaining
        /\ d + x = p + f + r.remaining
    BY <1>1, ActiveFacts
  <2>2. Holds(r) = r.remaining
    BY <1>1 DEF Holds
  <2>3. d \in Nat /\ p \in Nat /\ f \in Nat /\ x \in Nat
    BY DEF Good
  <2>4. QED
    BY <2>1, <2>2, <2>3
<1>2. CASE ~IsActive(r)
  BY <1>2 DEF Good, Holds, Claim
<1>3. QED
  BY <1>1, <1>2

LEMMA StepMoves ==
  ASSUME IInv, [Next]_vars, NEW s \in StreamIds
  PROVE  Moves(s)
<1>1. IsGood(s) /\ IsGood(s)' /\ Keeps(s)
  BY NextStep DEF IInv, StreamsOK
<1> DEFINE C == Claim(stream[s], now)
           H == Holds(stream[s])
           C2 == Claim(stream'[s], now')
           H2 == Holds(stream'[s])
<1>2. /\ deposited[s] \in Nat /\ paid[s] \in Nat /\ refunded[s] \in Nat
      /\ residual[s] \in Nat /\ C \in Nat /\ H \in Nat /\ C =< H
      /\ deposited[s] + residual[s] = paid[s] + refunded[s] + H
  BY <1>1, GoodParts DEF IsGood
<1>3. /\ deposited'[s] \in Nat /\ paid'[s] \in Nat /\ refunded'[s] \in Nat
      /\ residual'[s] \in Nat /\ C2 \in Nat /\ H2 \in Nat /\ C2 =< H2
      /\ deposited'[s] + residual'[s] = paid'[s] + refunded'[s] + H2
  BY <1>1, GoodParts DEF IsGood
<1>4. /\ Entitled(s) = paid[s] - residual[s] + C
      /\ Entitled(s)' = paid'[s] - residual'[s] + C2
  BY DEF Entitled, Claim, IsActive, Active, Accrued
<1> HIDE DEF C, H, C2, H2
<1>5. Accounted(s)
  <2>1. /\ EarnedBar[s] = C /\ UnearnedBar[s] = H - C
        /\ ReceivedBar[s] = paid[s] - residual[s]
    BY BarValues DEF C, H
  <2>2. QED
    BY <1>2, <2>1 DEF Accounted
<1>6. Accounted(s)'
  <2>1. /\ EarnedBar'[s] = C2 /\ UnearnedBar'[s] = H2 - C2
        /\ ReceivedBar'[s] = paid'[s] - residual'[s]
    BY BarValuesNext DEF C2, H2
  <2>2. QED
    BY <1>3, <2>1 DEF Accounted
<1>7. /\ Entitled(s) = ReceivedBar[s] + EarnedBar[s]
      /\ Entitled(s)' = ReceivedBar'[s] + EarnedBar'[s]
  BY <1>4, BarValues, BarValuesNext DEF C, C2
<1>8. QED
  BY <1>1, <1>5, <1>6, <1>7 DEF Moves, Keeps

\* Where nothing is received and nothing put into a running account, what was
\* earned stays, and the rest changes by what comes in and goes back.
LEMMA EarnedKept ==
  ASSUME NEW s \in StreamIds, Moves(s), now' = now,
         Active(s) => deposited'[s] = deposited[s], ReceivedBar'[s] = ReceivedBar[s]
  PROVE  /\ EarnedBar'[s] = EarnedBar[s]
         /\ UnearnedBar[s] \in Nat /\ UnearnedBar'[s] \in Nat
         /\ deposited[s] \in Nat /\ deposited'[s] \in Nat
         /\ refunded[s] \in Nat /\ refunded'[s] \in Nat
         /\ deposited'[s] + (refunded[s] + UnearnedBar[s])
                = deposited[s] + (refunded'[s] + UnearnedBar'[s])
<1>1. /\ EarnedBar[s] \in Nat /\ EarnedBar'[s] \in Nat /\ ReceivedBar[s] \in Int
      /\ UnearnedBar[s] \in Nat /\ UnearnedBar'[s] \in Nat
      /\ deposited[s] \in Nat /\ deposited'[s] \in Nat
      /\ refunded[s] \in Nat /\ refunded'[s] \in Nat
      /\ deposited[s] = ReceivedBar[s] + refunded[s] + (EarnedBar[s] + UnearnedBar[s])
      /\ deposited'[s] = ReceivedBar'[s] + refunded'[s] + (EarnedBar'[s] + UnearnedBar'[s])
  BY DEF Moves, Accounted
<1>2. ReceivedBar'[s] + EarnedBar'[s] = ReceivedBar[s] + EarnedBar[s]
  BY DEF Moves
<1>3. EarnedBar'[s] = EarnedBar[s]
  BY <1>1, <1>2
<1>4. QED
  BY <1>1, <1>3

\* An identifier that a step does not touch, and one whose record changes in
\* nothing the escrow knows of.
LEMMA StillIf ==
  ASSUME NEW s \in StreamIds, stream'[s] = stream[s], now' = now, paid'[s] = paid[s],
         residual'[s] = residual[s], deposited'[s] = deposited[s], refunded'[s] = refunded[s]
  PROVE  Still(s)
BY BarValues, BarValuesNext DEF Still

LEMMA StillTerms ==
  ASSUME NEW s \in StreamIds, Moves(s), RunningBar'[s] = RunningBar[s], now' = now,
         ReceivedBar'[s] = ReceivedBar[s], deposited'[s] = deposited[s],
         refunded'[s] = refunded[s]
  PROVE  Still(s)
<1>1. /\ EarnedBar'[s] = EarnedBar[s]
      /\ UnearnedBar[s] \in Nat /\ UnearnedBar'[s] \in Nat
      /\ deposited[s] \in Nat /\ refunded[s] \in Nat
      /\ deposited'[s] + (refunded[s] + UnearnedBar[s])
             = deposited[s] + (refunded'[s] + UnearnedBar'[s])
  BY EarnedKept
<1>2. UnearnedBar'[s] = UnearnedBar[s]
  BY <1>1
<1>3. QED
  BY <1>1, <1>2 DEF Still

LEMMA StillAll ==
  ASSUME \A s \in StreamIds : Still(s), Shaped, Shaped'
  PROVE  UNCHANGED E!vars
<1>1. /\ RunningBar' = RunningBar /\ UnearnedBar' = UnearnedBar
      /\ EarnedBar' = EarnedBar /\ ReceivedBar' = ReceivedBar
  BY PartsAre DEF Parts, Still
<1>2. deposited' = deposited /\ refunded' = refunded
  BY DEF Shaped, Still
<1>3. QED
  BY <1>1, <1>2 DEF E!vars, E!parts

-----------------------------------------------------------------------------
(* Each handler is a step of the escrow *)

\* What a step of the streams has to hand for a step of the escrow.
Ready == /\ \A s \in StreamIds : Moves(s)
         /\ StreamsOK /\ StreamsOK' /\ Shaped /\ Shaped'

LEMMA StepReady ==
  ASSUME IInv, [Next]_vars
  PROVE  Ready
BY StepMoves, NextStep DEF Ready, IInv, StreamsOK

\* The parts of an account that does not run are gone.
LEMMA NotRunning ==
  ASSUME NEW s \in StreamIds
  PROVE  /\ ~Active(s) => RunningBar[s] = 0 /\ EarnedBar[s] = 0 /\ UnearnedBar[s] = 0
         /\ ~Active(s)' => RunningBar'[s] = 0 /\ EarnedBar'[s] = 0 /\ UnearnedBar'[s] = 0
BY DEF RunningBar, EarnedBar, UnearnedBar, Active

LEMMA RunningIs ==
  ASSUME StreamsOK, NEW s \in StreamIds, Active(s)
  PROVE  RunningBar[s] = stream[s].rate /\ stream[s].rate \in Nat \ {0}
<1>1. stream[s].rate \in Nat \ {0}
  BY RecordOf DEF StreamRecord
<1>2. QED
  BY <1>1 DEF RunningBar

LEMMA OpenStep ==
  ASSUME Ready, NEW s \in StreamIds, NEW snd \in Senders, NEW rcv \in Receivers,
         NEW n \in Rates, NEW a \in Amounts, CreateStream(s, snd, rcv, n, a)
  PROVE  E!Open(s, n, a)
<1>0. /\ StreamsOK /\ Shaped /\ a \in Nat \ {0} /\ n \in Nat \ {0}
      /\ \A z \in StreamIds : Moves(z)
  BY StreamsAssumption DEF Ready
<1>1. /\ ~Active(s) /\ now' = now /\ paid' = paid /\ residual' = residual
      /\ refunded' = refunded /\ deposited' = [deposited EXCEPT ![s] = @ + a]
      /\ deposited'[s] = deposited[s] + a
      /\ Active(s)' /\ stream'[s].rate = n
  BY <1>0 DEF CreateStream, Exists, Active, Shaped, clocks
<1>2. \A z \in StreamIds : z # s => Still(z)
  BY <1>0, <1>1, StillIf DEF CreateStream, Shaped
<1>3. RunningBar[s] = 0 /\ EarnedBar[s] = 0 /\ UnearnedBar[s] = 0
  BY <1>1, NotRunning
<1>4. ReceivedBar'[s] = ReceivedBar[s] /\ RunningBar'[s] = n
  BY <1>1, BarValues, BarValuesNext DEF RunningBar
<1>5. EarnedBar'[s] = EarnedBar[s] /\ UnearnedBar'[s] = a
  <2>1. /\ EarnedBar'[s] = EarnedBar[s]
        /\ UnearnedBar[s] \in Nat /\ UnearnedBar'[s] \in Nat
        /\ deposited[s] \in Nat /\ refunded[s] \in Nat
        /\ deposited'[s] + (refunded[s] + UnearnedBar[s])
               = deposited[s] + (refunded'[s] + UnearnedBar'[s])
    BY <1>0, <1>1, <1>4, EarnedKept
  <2>2. QED
    BY <1>0, <1>1, <1>3, <2>1
<1>6. /\ RunningBar' = [RunningBar EXCEPT ![s] = n]
      /\ UnearnedBar' = [UnearnedBar EXCEPT ![s] = a]
      /\ EarnedBar' = EarnedBar /\ ReceivedBar' = ReceivedBar
  BY <1>2, <1>4, <1>5, PartsAre DEF Parts, Still
<1>7. QED
  BY <1>1, <1>3, <1>6 DEF E!Open, E!Running

LEMMA TakeStep ==
  ASSUME Ready, NEW S \in SUBSET StreamIds, NEW amount \in [S -> Nat \ {0}],
         \A s \in S : Active(s), PayOut(amount)
  PROVE  E!Take
<1>0. StreamsOK /\ Shaped /\ \A z \in StreamIds : Moves(z)
  BY DEF Ready
<1>1. /\ now' = now /\ deposited' = deposited /\ residual' = residual
      /\ refunded' = refunded /\ DOMAIN amount = S
  BY DEF PayOut, clocks
<1>2. ASSUME NEW s \in StreamIds
      PROVE  /\ E!Taken(s) \in 0 .. EarnedBar[s]
             /\ EarnedBar'[s] = EarnedBar[s] - E!Taken(s)
             /\ UnearnedBar'[s] = UnearnedBar[s]
             /\ RunningBar'[s] =
                   IF E!Taken(s) > 0 /\ E!Taken(s) = EarnedBar[s] + UnearnedBar[s]
                   THEN 0 ELSE RunningBar[s]
  <2>1. CASE s \notin S
    <3>1. Still(s)
      BY <1>1, <2>1, StillIf DEF PayOut
    <3>2. E!Taken(s) = 0 /\ EarnedBar[s] \in Nat
      BY <1>0, <3>1 DEF E!Taken, Still, Moves, Accounted
    <3>3. QED
      BY <3>1, <3>2 DEF Still
  <2>2. CASE s \in S
    <3> DEFINE c == Checkpointed(stream[s], now)
               q == Withdrawn(c, amount[s])
    <3>0. amount[s] \in Nat \ {0} /\ Active(s)
      BY <2>2
    <3>1. E!Taken(s) = amount[s]
      <4>1. paid[s] \in Nat /\ residual[s] \in Nat
        BY <1>0 DEF StreamsOK, IsGood, Good
      <4>2. paid'[s] = paid[s] + amount[s] /\ residual'[s] = residual[s]
        BY <1>1, <2>2 DEF PayOut
      <4>3. /\ ReceivedBar'[s] = (paid[s] + amount[s]) - residual[s]
            /\ ReceivedBar[s] = paid[s] - residual[s]
        BY <4>2, BarValues, BarValuesNext
      <4>4. QED
        BY <3>0, <4>1, <4>3 DEF E!Taken
    <3>2. /\ EarnedBar'[s] = EarnedBar[s] - amount[s] /\ UnearnedBar'[s] = UnearnedBar[s]
          /\ amount[s] =< EarnedBar[s]
      <4>1. ReceivedBar'[s] = ReceivedBar[s] + amount[s]
        BY <1>0, <3>0, <3>1 DEF E!Taken, Moves, Accounted
      <4>2. ReceivedBar'[s] + EarnedBar'[s] = ReceivedBar[s] + EarnedBar[s]
        BY <1>0, <1>1 DEF Moves
      <4>3. /\ EarnedBar[s] \in Nat /\ EarnedBar'[s] \in Nat /\ UnearnedBar[s] \in Nat
            /\ UnearnedBar'[s] \in Nat /\ ReceivedBar[s] \in Int /\ refunded[s] \in Nat
            /\ deposited[s] = ReceivedBar[s] + refunded[s] + (EarnedBar[s] + UnearnedBar[s])
            /\ deposited[s] = ReceivedBar'[s] + refunded[s] + (EarnedBar'[s] + UnearnedBar'[s])
        BY <1>0, <1>1 DEF Moves, Accounted
      <4>4. QED
        BY <3>0, <4>1, <4>2, <4>3
    <3>3. c \in StreamRecord /\ c.status = "Active" /\ c.rate = stream[s].rate
          /\ c.remaining = EarnedBar[s] + UnearnedBar[s]
      <4>1. Sound(stream[s], now) /\ now \in Nat
        BY <1>0, <3>0, RecordOf DEF StreamsOK
      <4>2. /\ Sound(c, now) /\ c.rate = stream[s].rate /\ c.status = stream[s].status
            /\ c.remaining = stream[s].remaining
        BY <4>1, CheckpointFacts
      <4>3. stream[s].remaining = EarnedBar[s] + UnearnedBar[s]
        <5>1. /\ UnearnedBar[s] = stream[s].remaining - EarnedBar[s]
              /\ EarnedBar[s] \in Nat
          BY <1>0, <3>0 DEF UnearnedBar, EarnedBar, Moves, Accounted
        <5>2. stream[s].remaining \in Nat
          BY <4>1 DEF Sound, StreamRecord
        <5>3. QED
          BY <5>1, <5>2
      <4>4. QED
        BY <3>0, <4>2, <4>3 DEF Sound, Active
    <3>4. stream'[s] = q
      BY <1>1, <2>2 DEF PayOut
    <3> HIDE DEF c
    <3>5. /\ q.status = IF c.remaining = amount[s] THEN "Exhausted" ELSE "Active"
          /\ q.rate = c.rate
      BY <3>3 DEF Withdrawn, StreamRecord
    <3> HIDE DEF q
    <3>6. RunningBar'[s] = IF c.remaining = amount[s] THEN 0 ELSE RunningBar[s]
      BY <3>0, <3>3, <3>4, <3>5 DEF RunningBar, Active
    <3>7. EarnedBar[s] \in Nat
      BY <1>0 DEF Moves, Accounted
    <3>8. E!Taken(s) \in 0 .. EarnedBar[s]
      BY <3>0, <3>1, <3>2, <3>7
    <3>9. /\ EarnedBar'[s] = EarnedBar[s] - E!Taken(s)
          /\ E!Taken(s) > 0
          /\ E!Taken(s) = EarnedBar[s] + UnearnedBar[s] <=> c.remaining = amount[s]
      BY <3>0, <3>1, <3>2, <3>3
    <3>10. QED
      BY <3>2, <3>6, <3>8, <3>9
  <2>3. QED
    BY <2>1, <2>2
<1>3. /\ UnearnedBar' = UnearnedBar
      /\ EarnedBar' = [s \in StreamIds |-> EarnedBar[s] - E!Taken(s)]
      /\ RunningBar' = [s \in StreamIds |->
            IF E!Taken(s) > 0 /\ E!Taken(s) = EarnedBar[s] + UnearnedBar[s]
            THEN 0 ELSE RunningBar[s]]
      /\ ReceivedBar' = [s \in StreamIds |-> ReceivedBar'[s]]
  BY <1>2, PartsAre DEF Parts
<1>4. QED
  BY <1>1, <1>2, <1>3 DEF E!Take

\* Arithmetic of the parts of an account.
LEMMA Cancels ==
  ASSUME NEW d \in Nat, NEW f \in Nat, NEW u \in Nat, NEW v \in Nat, NEW x \in Nat,
         d + (f + u) = d + ((f + x) + v)
  PROVE  v = u - x
OBVIOUS

LEMMA ChangeStep ==
  ASSUME Ready, NEW s \in StreamIds, NEW n \in Rates, ChangeRate(s, n)
  PROVE  E!Change(s, n)
<1> DEFINE c == Checkpointed(stream[s], now)
           k == E!Kept(s, n)
<1>0. StreamsOK /\ Shaped /\ now \in Nat /\ n \in Nat \ {0} /\ \A z \in StreamIds : Moves(z)
  BY StreamsAssumption DEF Ready, StreamsOK
<1>1. /\ Active(s) /\ now' = now /\ paid' = paid /\ residual' = residual
      /\ deposited' = deposited
      /\ refunded' = [refunded EXCEPT ![s] = @ + Surplus(c, n)]
      /\ refunded'[s] = refunded[s] + Surplus(c, n)
      /\ stream'[s] = Rerated(c, n)
  BY <1>0 DEF ChangeRate, Shaped, clocks
<1>2. \A z \in StreamIds : z # s => Still(z)
  BY <1>0, <1>1, StillIf DEF ChangeRate, Shaped
<1>3. /\ c \in StreamRecord /\ c.status = "Active" /\ c.rate = stream[s].rate
      /\ c.remaining = stream[s].remaining /\ c.accrued = EarnedBar[s]
      /\ c.accrued =< c.remaining
  <2>1. Sound(stream[s], now)
    BY <1>0, <1>1, RecordOf
  <2>2. /\ Sound(c, now) /\ c.rate = stream[s].rate /\ c.status = stream[s].status
        /\ c.remaining = stream[s].remaining
    BY <1>0, <2>1, CheckpointFacts
  <2>3. c.accrued = EarnedBar[s]
    BY <1>1 DEF EarnedBar, Accrued
  <2>4. QED
    BY <1>1, <2>2, <2>3 DEF Sound, Active
<1>4. RunningBar[s] = c.rate /\ c.rate \in Nat \ {0}
  BY <1>0, <1>1, <1>3, RunningIs
<1>5. UnearnedBar[s] = c.remaining - c.accrued
  BY <1>1, <1>3 DEF UnearnedBar, EarnedBar
<1> HIDE DEF c
<1>6. Surplus(c, n) \in Nat /\ Surplus(c, n) = UnearnedBar[s] - k
  <2>1. Surplus(c, n) \in Nat
    BY <1>0, <1>3, SurplusFacts
  <2>2. CASE n < c.rate
    <3> DEFINE u == c.remaining - c.accrued
               m == (u \div c.rate) * n
    <3>1. k = m
      BY <1>4, <1>5, <2>2, Zenon DEF E!Kept
    <3>2. Surplus(c, n) = u - m
      BY <2>2 DEF Surplus
    <3> HIDE DEF m, u, k
    <3>3. QED
      BY <1>5, <2>1, <3>1, <3>2 DEF u
  <2>3. CASE ~(n < c.rate)
    <3>1. k = UnearnedBar[s] /\ Surplus(c, n) = 0 /\ UnearnedBar[s] \in Nat
      BY <1>0, <1>4, <2>3 DEF Surplus, E!Kept, Moves, Accounted
    <3>2. QED
      BY <3>1
  <2>4. QED
    BY <2>1, <2>2, <2>3
<1>7. RunningBar'[s] = n
  <2> DEFINE q == Rerated(c, n)
  <2>1. q.rate = n /\ q.status = "Active"
    BY <1>3 DEF Rerated, StreamRecord
  <2> HIDE DEF q
  <2>2. QED
    BY <1>1, <2>1 DEF RunningBar, Active, q
<1>8. k \in Int
  <2>1. UnearnedBar[s] \in Nat
    BY <1>0 DEF Moves, Accounted
  <2> DEFINE m == UnearnedBar[s] \div RunningBar[s]
  <2>2. m \in Int
    BY <1>4, <2>1, Z3
  <2> HIDE DEF m
  <2>3. m * n \in Int
    BY <1>0, <2>2
  <2>4. k = IF n < RunningBar[s] THEN m * n ELSE UnearnedBar[s]
    BY DEF E!Kept, m
  <2>5. QED
    BY <2>1, <2>3, <2>4
<1> HIDE DEF k
<1>9. ReceivedBar'[s] = ReceivedBar[s]
  BY <1>1, BarValues, BarValuesNext
<1>10. EarnedBar'[s] = EarnedBar[s] /\ UnearnedBar'[s] = k
  <2>1. /\ EarnedBar'[s] = EarnedBar[s]
        /\ UnearnedBar[s] \in Nat /\ UnearnedBar'[s] \in Nat
        /\ deposited[s] \in Nat /\ refunded[s] \in Nat
        /\ deposited'[s] + (refunded[s] + UnearnedBar[s])
               = deposited[s] + (refunded'[s] + UnearnedBar'[s])
    BY <1>0, <1>1, <1>9, EarnedKept
  <2> DEFINE x == Surplus(c, n)
  <2>2. x \in Nat /\ x = UnearnedBar[s] - k /\ refunded'[s] = refunded[s] + x
    BY <1>1, <1>6
  <2> HIDE DEF x
  <2>3. UnearnedBar'[s] = UnearnedBar[s] - x
    <3>1. deposited'[s] = deposited[s]
      BY <1>1
    <3>2. deposited[s] + (refunded[s] + UnearnedBar[s])
              = deposited[s] + ((refunded[s] + x) + UnearnedBar'[s])
      BY <2>1, <2>2, <3>1, Zenon
    <3>3. x \in Nat
      BY <2>2
    <3>4. QED
      BY <2>1, <3>2, <3>3, Cancels
  <2>4. QED
    BY <1>8, <2>1, <2>2, <2>3
<1>11. /\ RunningBar' = [RunningBar EXCEPT ![s] = n]
       /\ UnearnedBar' = [UnearnedBar EXCEPT ![s] = k]
       /\ EarnedBar' = EarnedBar /\ ReceivedBar' = ReceivedBar
  BY <1>2, <1>7, <1>9, <1>10, PartsAre DEF Parts, Still
<1>12. refunded' = [refunded EXCEPT ![s] = @ + (UnearnedBar[s] - k)]
  BY <1>1, <1>6
<1>13. RunningBar[s] > 0
  BY <1>4
<1>14. QED
  BY <1>1, <1>11, <1>12, <1>13 DEF E!Change, E!Running, k

\* Tokens added to a running account are its own, and become the receiver's
\* only where the account had run dry.
LEMMA AddStep ==
  ASSUME Ready, NEW snd \in Senders, NEW S \in SUBSET StreamIds,
         NEW amount \in [S -> Amounts], TopUpMultipleStreams(snd, amount)
  PROVE  E!Add
<1>0. StreamsOK /\ Shaped' /\ \A z \in StreamIds : Moves(z)
  BY DEF Ready
<1>1. /\ now' = now /\ paid' = paid /\ residual' = residual /\ refunded' = refunded
      /\ DOMAIN amount = S
  BY DEF TopUpMultipleStreams, clocks
<1>2. ASSUME NEW s \in StreamIds
      PROVE  /\ E!Added(s) \in Amounts \cup {0}
             /\ E!Added(s) > 0 => E!Running(s)
             /\ E!Late(s) \in 0 .. E!Added(s)
             /\ E!Late(s) > 0 => UnearnedBar[s] = 0
             /\ UnearnedBar'[s] = UnearnedBar[s] + (E!Added(s) - E!Late(s))
             /\ RunningBar'[s] = RunningBar[s]
             /\ ReceivedBar'[s] = ReceivedBar[s]
  <2>0. /\ EarnedBar[s] \in Nat /\ EarnedBar'[s] \in Nat /\ ReceivedBar[s] \in Int
        /\ UnearnedBar[s] \in Nat /\ UnearnedBar'[s] \in Nat
        /\ deposited[s] \in Nat /\ deposited'[s] \in Nat /\ refunded[s] \in Nat
        /\ deposited[s] = ReceivedBar[s] + refunded[s] + (EarnedBar[s] + UnearnedBar[s])
        /\ deposited'[s] = ReceivedBar'[s] + refunded'[s] + (EarnedBar'[s] + UnearnedBar'[s])
    BY <1>0 DEF Moves, Accounted
  <2>1. ReceivedBar'[s] = ReceivedBar[s] /\ refunded'[s] = refunded[s]
    BY <1>1, BarValues, BarValuesNext
  <2>2. CASE s \notin S
    <3>1. Still(s)
      BY <1>1, <2>2, StillIf DEF TopUpMultipleStreams
    <3>2. E!Added(s) = 0 /\ E!Late(s) = 0
      BY <2>0, <3>1 DEF Still, E!Added, E!Late
    <3>3. QED
      BY <2>0, <3>1, <3>2 DEF Still
  <2>3. CASE s \in S
    <3> DEFINE r == stream[s]
               a == amount[s]
               q == [r EXCEPT !.remaining = @ + a]
    <3>1. /\ Active(s) /\ a \in Amounts /\ a \in Nat \ {0}
          /\ stream'[s] = q /\ deposited'[s] = deposited[s] + a
      BY <1>1, <2>3, StreamsAssumption DEF TopUpMultipleStreams
    <3>2. /\ Claim(q, now) >= Claim(r, now) /\ Claim(q, now) =< Claim(r, now) + a
          /\ Claim(q, now) > Claim(r, now) => Claim(r, now) = r.remaining
      BY <1>0, <3>1, DoTopUp DEF StreamsOK, IsGood, IsActive, Active
    <3>3. EarnedBar[s] = Claim(r, now) /\ EarnedBar'[s] = Claim(q, now)
      BY <1>1, <3>1, BarValues, BarValuesNext
    <3>4. RunningBar'[s] = RunningBar[s] /\ RunningBar[s] > 0
      <4>1. r \in StreamRecord
        BY <1>0, <3>1, RecordOf
      <4>2. q.status = r.status /\ q.rate = r.rate
        BY <4>1 DEF StreamRecord
      <4> HIDE DEF q
      <4>3. RunningBar'[s] = RunningBar[s]
        BY <3>1, <4>2 DEF RunningBar, Active
      <4>4. QED
        BY <1>0, <3>1, <4>3, RunningIs
    <3>5. UnearnedBar[s] = r.remaining - EarnedBar[s] /\ r.remaining \in Nat
      <4>1. r.remaining \in Nat
        BY <1>0, <3>1, RecordOf DEF StreamRecord
      <4>2. QED
        BY <3>1, <4>1 DEF UnearnedBar, EarnedBar
    <3>6. E!Added(s) = a
      BY <2>0, <3>1 DEF E!Added
    <3>7. E!Late(s) = EarnedBar'[s] - EarnedBar[s]
      BY DEF E!Late
    <3> HIDE DEF q, r, a
    <3>8. /\ E!Late(s) \in 0 .. a
          /\ E!Late(s) > 0 => UnearnedBar[s] = 0
      BY <2>0, <3>1, <3>2, <3>3, <3>5, <3>7
    <3>9. UnearnedBar'[s] = UnearnedBar[s] + (a - E!Late(s))
      BY <2>0, <2>1, <3>1, <3>7
    <3>10. QED
      BY <2>1, <3>1, <3>4, <3>6, <3>8, <3>9 DEF E!Running
  <2>4. QED
    BY <2>2, <2>3
<1>3. /\ RunningBar' = RunningBar /\ ReceivedBar' = ReceivedBar
      /\ UnearnedBar' = [s \in StreamIds |-> UnearnedBar[s] + (E!Added(s) - E!Late(s))]
      /\ EarnedBar' = [s \in StreamIds |-> EarnedBar'[s]]
  BY <1>2, PartsAre DEF Parts
<1>4. deposited' = [s \in StreamIds |-> deposited'[s]]
  BY <1>0 DEF Shaped
<1>5. QED
  BY <1>1, <1>2, <1>3, <1>4 DEF E!Add

LEMMA Settles ==
  ASSUME NEW d \in Int, NEW r \in Int, NEW e \in Nat, NEW u \in Nat, NEW f \in Nat, NEW g \in Nat,
         d = r + f + (e + u), d = (r + e) + g + (0 + 0)
  PROVE  g = f + u
OBVIOUS

LEMMA SplitStep ==
  ASSUME Ready, NEW S \in SUBSET StreamIds, \A s \in S : Active(s), CancelAll(S)
  PROVE  E!Close(S)
<1>0. StreamsOK /\ Shaped /\ Shaped' /\ \A z \in StreamIds : Moves(z)
  BY DEF Ready
<1>1. now' = now /\ deposited' = deposited /\ residual' = residual
  BY DEF CancelAll, clocks
<1>2. \A s \in StreamIds : s \notin S => Still(s)
  BY <1>1, StillIf DEF CancelAll
<1>3. ASSUME NEW s \in S
      PROVE  /\ E!Running(s)
             /\ RunningBar'[s] = 0 /\ EarnedBar'[s] = 0 /\ UnearnedBar'[s] = 0
             /\ ReceivedBar'[s] = ReceivedBar[s] + EarnedBar[s]
             /\ refunded'[s] = refunded[s] + UnearnedBar[s]
  <2>1. E!Running(s)
    BY <1>0, RunningIs DEF E!Running
  <2>2. RunningBar'[s] = 0 /\ EarnedBar'[s] = 0 /\ UnearnedBar'[s] = 0
    BY <1>0, CancelTerms, NotRunning DEF Active
  <2>3. /\ EarnedBar[s] \in Nat /\ ReceivedBar[s] \in Int /\ ReceivedBar'[s] \in Int
        /\ UnearnedBar[s] \in Nat /\ refunded[s] \in Nat /\ refunded'[s] \in Nat
        /\ deposited[s] = ReceivedBar[s] + refunded[s] + (EarnedBar[s] + UnearnedBar[s])
        /\ deposited'[s] = ReceivedBar'[s] + refunded'[s] + (EarnedBar'[s] + UnearnedBar'[s])
    BY <1>0 DEF Moves, Accounted
  <2>4. ReceivedBar'[s] + EarnedBar'[s] = ReceivedBar[s] + EarnedBar[s]
    BY <1>0, <1>1 DEF Moves
  <2>5. deposited'[s] = deposited[s]
    BY <1>1
  <2>6. ReceivedBar'[s] = ReceivedBar[s] + EarnedBar[s]
    BY <2>2, <2>3, <2>4
  <2>7. refunded'[s] = refunded[s] + UnearnedBar[s]
    <3>1. /\ deposited[s] = ReceivedBar[s] + refunded[s] + (EarnedBar[s] + UnearnedBar[s])
          /\ deposited[s] = (ReceivedBar[s] + EarnedBar[s]) + refunded'[s] + (0 + 0)
      BY <2>2, <2>3, <2>5, <2>6, Zenon
    <3>2. /\ deposited[s] \in Int /\ ReceivedBar[s] \in Int /\ EarnedBar[s] \in Nat
          /\ UnearnedBar[s] \in Nat /\ refunded[s] \in Nat /\ refunded'[s] \in Nat
      BY <1>0, <2>3 DEF Moves, Accounted
    <3>3. QED
      BY <3>1, <3>2, Settles
  <2>8. QED
    BY <2>1, <2>2, <2>6, <2>7
<1>4. /\ RunningBar' = [s \in StreamIds |-> IF s \in S THEN 0 ELSE RunningBar[s]]
      /\ EarnedBar' = [s \in StreamIds |-> IF s \in S THEN 0 ELSE EarnedBar[s]]
      /\ UnearnedBar' = [s \in StreamIds |-> IF s \in S THEN 0 ELSE UnearnedBar[s]]
      /\ ReceivedBar' = [s \in StreamIds |->
            IF s \in S THEN ReceivedBar[s] + EarnedBar[s] ELSE ReceivedBar[s]]
  BY <1>2, <1>3, PartsAre DEF Parts, Still
<1>5. refunded' = [s \in StreamIds |->
            IF s \in S THEN refunded[s] + UnearnedBar[s] ELSE refunded[s]]
  BY <1>0, <1>2, <1>3 DEF Shaped, Still
<1>6. QED
  BY <1>1, <1>3, <1>4, <1>5 DEF E!Close

LEMMA SecondStep ==
  ASSUME Ready, Tick
  PROVE  E!Second
<1>0. StreamsOK /\ \A z \in StreamIds : Moves(z)
  BY DEF Ready
<1>1. /\ now' = now + 1 /\ stream' = stream /\ deposited' = deposited /\ paid' = paid
      /\ residual' = residual /\ refunded' = refunded
  BY DEF Tick, ledger
<1>2. ASSUME NEW s \in StreamIds
      PROVE  /\ RunningBar'[s] = RunningBar[s] /\ ReceivedBar'[s] = ReceivedBar[s]
             /\ EarnedBar'[s] = EarnedBar[s] + E!Drop(s)
             /\ UnearnedBar'[s] = UnearnedBar[s] - E!Drop(s)
  <2>0. /\ EarnedBar[s] \in Nat /\ EarnedBar'[s] \in Nat /\ ReceivedBar[s] \in Int
        /\ UnearnedBar[s] \in Nat /\ UnearnedBar'[s] \in Nat /\ refunded[s] \in Nat
        /\ deposited[s] = ReceivedBar[s] + refunded[s] + (EarnedBar[s] + UnearnedBar[s])
        /\ deposited'[s] = ReceivedBar'[s] + refunded'[s] + (EarnedBar'[s] + UnearnedBar'[s])
    BY <1>0 DEF Moves, Accounted
  <2>1. RunningBar'[s] = RunningBar[s] /\ ReceivedBar'[s] = ReceivedBar[s]
    BY <1>1, BarValues, BarValuesNext
  <2>2. EarnedBar'[s] = EarnedBar[s] + E!Drop(s) /\ E!Drop(s) \in Int
    <3>1. CASE Active(s)
      <4>1. /\ IsGood(s) /\ IsActive(stream[s])
            /\ RunningBar[s] = stream[s].rate /\ stream[s].rate \in Nat
        BY <1>0, <3>1, RecordOf, RunningIs
      <4>2. Claim(stream[s], now + 1) = Claim(stream[s], now) +
               Lesser(stream[s].rate, stream[s].remaining - Claim(stream[s], now))
        BY <4>1, DoTick DEF IsGood
      <4>3. /\ EarnedBar[s] = Claim(stream[s], now)
            /\ EarnedBar'[s] = Claim(stream[s], now + 1)
            /\ UnearnedBar[s] = stream[s].remaining - Claim(stream[s], now)
        BY <1>1, <4>1, BarValues, BarValuesNext DEF Holds
      <4>4. E!Drop(s) = Lesser(stream[s].rate, UnearnedBar[s])
        BY <4>1 DEF E!Drop, E!Lesser, Lesser
      <4>5. E!Drop(s) \in Int
        BY <2>0, <4>1, <4>4 DEF Lesser
      <4>6. QED
        BY <4>2, <4>3, <4>4, <4>5
    <3>2. CASE ~Active(s)
      <4>1. ~Active(s)'
        BY <1>1, <3>2 DEF Active
      <4>2. /\ RunningBar[s] = 0 /\ EarnedBar[s] = 0 /\ UnearnedBar[s] = 0
            /\ EarnedBar'[s] = 0
        BY <3>2, <4>1, NotRunning
      <4>3. E!Drop(s) = 0
        BY <4>2 DEF E!Drop, E!Lesser
      <4>4. QED
        BY <4>2, <4>3
    <3>3. QED
      BY <3>1, <3>2
  <2>3. deposited'[s] = deposited[s] /\ refunded'[s] = refunded[s]
    BY <1>1
  <2>4. QED
    BY <2>0, <2>1, <2>2, <2>3
<1>3. /\ RunningBar' = RunningBar /\ ReceivedBar' = ReceivedBar
      /\ EarnedBar' = [s \in StreamIds |-> EarnedBar[s] + E!Drop(s)]
      /\ UnearnedBar' = [s \in StreamIds |-> UnearnedBar[s] - E!Drop(s)]
  BY <1>2, PartsAre DEF Parts
<1>4. QED
  BY <1>1, <1>3 DEF E!Second

\* Calls the escrow does not notice: a flag, a checkpoint, a closed record.
LEMMA UnnoticedStep ==
  ASSUME Ready, NEW s \in StreamIds,
         \A z \in StreamIds : z # s => stream'[z] = stream[z],
         now' = now, deposited' = deposited, refunded' = refunded,
         RunningBar'[s] = RunningBar[s],
         \A z \in StreamIds : ReceivedBar'[z] = ReceivedBar[z],
         \A z \in StreamIds : z # s => paid'[z] = paid[z] /\ residual'[z] = residual[z]
  PROVE  UNCHANGED E!vars
<1>1. \A z \in StreamIds : z # s => Still(z)
  BY StillIf
<1>2. Still(s)
  BY StillTerms DEF Ready
<1>3. QED
  BY <1>1, <1>2, StillAll DEF Ready

\* A flag and a checkpoint leave status and rate of a record alone.
LEMMA FlagUnnoticed ==
  ASSUME Ready, NEW s \in StreamIds,
         SetStreamDestination(s) \/ ApproveStreamMilestone(s)
  PROVE  UNCHANGED E!vars
<1>0. StreamsOK /\ Shaped
  BY DEF Ready
<1>1. /\ now' = now /\ deposited' = deposited /\ refunded' = refunded
      /\ paid' = paid /\ residual' = residual
  BY DEF SetStreamDestination, ApproveStreamMilestone, ledger, clocks
<1>2. /\ \/ stream'[s] = [stream[s] EXCEPT !.destination = TRUE]
         \/ stream'[s] = [stream[s] EXCEPT !.approved = TRUE]
      /\ \A z \in StreamIds : z # s => stream'[z] = stream[z]
  BY <1>0 DEF SetStreamDestination, ApproveStreamMilestone, Shaped
<1>3. stream[s] \in StreamRecord
  <2>1. IsGood(s)
    BY <1>0 DEF StreamsOK
  <2>2. QED
    BY <2>1 DEF SetStreamDestination, ApproveStreamMilestone, Active, Exists, IsGood, Good, NoStream
<1>4. stream'[s].status = stream[s].status /\ stream'[s].rate = stream[s].rate
  BY <1>2, <1>3 DEF StreamRecord
<1>5. RunningBar'[s] = RunningBar[s]
  BY <1>4 DEF RunningBar, Active
<1>6. \A z \in StreamIds : ReceivedBar'[z] = ReceivedBar[z]
  BY <1>1, BarValues, BarValuesNext
<1>7. QED
  BY <1>1, <1>2, <1>5, <1>6, UnnoticedStep

LEMMA CheckpointUnnoticed ==
  ASSUME Ready, NEW s \in StreamIds, Active(s),
         stream' = [stream EXCEPT ![s] = Checkpointed(@, now)],
         UNCHANGED <<ledger, clocks>>
  PROVE  UNCHANGED E!vars
<1>0. StreamsOK /\ Shaped
  BY DEF Ready
<1>1. /\ now' = now /\ deposited' = deposited /\ refunded' = refunded
      /\ paid' = paid /\ residual' = residual
  BY DEF ledger, clocks
<1>2. /\ stream'[s] = Checkpointed(stream[s], now)
      /\ \A z \in StreamIds : z # s => stream'[z] = stream[z]
  BY <1>0 DEF Shaped
<1>3. stream'[s].status = stream[s].status /\ stream'[s].rate = stream[s].rate
  BY <1>0, <1>2, RecordOf, CheckpointFacts DEF StreamsOK
<1>4. RunningBar'[s] = RunningBar[s]
  BY <1>3 DEF RunningBar, Active
<1>5. \A z \in StreamIds : ReceivedBar'[z] = ReceivedBar[z]
  BY <1>1, BarValues, BarValuesNext
<1>6. QED
  BY <1>1, <1>2, <1>4, <1>5, UnnoticedStep

\* Removing a record that ended long ago pays what the escrow does not count.
LEMMA CloseUnnoticed ==
  ASSUME Ready, NEW s \in StreamIds, CloseExpiredStream(s)
  PROVE  UNCHANGED E!vars
<1> DEFINE rest == Lesser(stream[s].accrued, stream[s].remaining)
<1>0. StreamsOK /\ Shaped
  BY DEF Ready
<1>1. /\ now' = now /\ deposited' = deposited /\ refunded' = refunded
      /\ stream'[s] = NoStream /\ paid'[s] = paid[s] + rest
      /\ residual'[s] = residual[s] + rest
      /\ \A z \in StreamIds : z # s =>
            stream'[z] = stream[z] /\ paid'[z] = paid[z] /\ residual'[z] = residual[z]
  BY <1>0 DEF CloseExpiredStream, Shaped, clocks
<1>2. rest \in Nat /\ paid[s] \in Nat /\ residual[s] \in Nat
  <2>1. IsGood(s) /\ stream[s] \in StreamRecord
    BY <1>0 DEF StreamsOK, CloseExpiredStream, Exists, IsGood, Good, NoStream
  <2>2. QED
    BY <2>1 DEF StreamRecord, Lesser, IsGood, Good
<1> HIDE DEF rest
<1>3. ReceivedBar'[s] = ReceivedBar[s]
  <2>1. /\ ReceivedBar[s] = paid[s] - residual[s]
        /\ ReceivedBar'[s] = (paid[s] + rest) - (residual[s] + rest)
    BY <1>1, BarValues, BarValuesNext
  <2>2. QED
    BY <1>2, <2>1
<1>4. \A z \in StreamIds : z # s => ReceivedBar'[z] = ReceivedBar[z]
  BY <1>1, BarValues, BarValuesNext
<1>5. RunningBar'[s] = RunningBar[s]
  BY <1>1, NotRunning DEF CloseExpiredStream, Active, NoStream
<1>6. \A z \in StreamIds : ReceivedBar'[z] = ReceivedBar[z]
  BY <1>3, <1>4
<1>7. QED
  BY <1>1, <1>5, <1>6, UnnoticedStep

\* The three ways to withdraw.
LEMMA WithdrawalsTake ==
  ASSUME IInv, Ready
  PROVE  /\ \A rcv \in Receivers : \A max : WithdrawAllForRecipient(rcv, max) => E!Take
         /\ \A s \in StreamIds : TriggerWithdrawal(s) => E!Take \/ UNCHANGED E!vars
         /\ \A rcv : \A X \in SUBSET StreamIds : \A asked \in [X -> Amounts] :
               BatchWithdrawTo(rcv, asked) => E!Take
<1>0. StreamsOK /\ RestOK /\ \A s \in StreamIds : Active(s) => Accrued(s) \in Nat
  BY AccruedNat DEF IInv
<1>1. ASSUME NEW rcv \in Receivers, NEW max, WithdrawAllForRecipient(rcv, max)
      PROVE  E!Take
  <2> DEFINE S == Picked(rcv, max)
             amount == [s \in S |-> Accrued(s)]
  <2>1. S \in SUBSET StreamIds /\ \A s \in S : Active(s)
    BY <1>0, PickedFacts
  <2>2. \A s \in S : Accrued(s) > 0
    BY DEF Picked, Pays
  <2>3. PayOut(amount)
    BY <1>1 DEF WithdrawAllForRecipient
  <2> HIDE DEF S
  <2>4. \A s \in S : Accrued(s) \in Nat \ {0}
    BY <1>0, <2>1, <2>2
  <2>5. amount \in [S -> Nat \ {0}]
    BY <2>4
  <2> HIDE DEF amount
  <2>6. QED
    BY <2>1, <2>3, <2>5, TakeStep
<1>2. ASSUME NEW s \in StreamIds, TriggerWithdrawal(s)
      PROVE  E!Take \/ UNCHANGED E!vars
  <2>0. Active(s)
    BY <1>2 DEF TriggerWithdrawal, TriggerAllowed
  <2>1. CASE Accrued(s) > 0 /\ PayOut([x \in {s} |-> Accrued(x)])
    <3> DEFINE amount == [x \in {s} |-> Accrued(x)]
    <3>1. Accrued(s) \in Nat \ {0}
      BY <1>0, <2>0, <2>1
    <3>2. amount \in [{s} -> Nat \ {0}] /\ PayOut(amount)
      BY <2>1, <3>1
    <3>3. {s} \in SUBSET StreamIds /\ \A x \in {s} : Active(x)
      BY <2>0
    <3> HIDE DEF amount
    <3>4. QED
      BY <3>2, <3>3, TakeStep
  <2>2. CASE /\ stream' = [stream EXCEPT ![s] = Checkpointed(@, now)]
             /\ UNCHANGED <<indexes, paused, ledger, clocks>>
    BY <2>0, <2>2, CheckpointUnnoticed
  <2>3. QED
    BY <1>2, <2>1, <2>2 DEF TriggerWithdrawal
<1>3. ASSUME NEW rcv, NEW X \in SUBSET StreamIds, NEW asked \in [X -> Amounts],
             BatchWithdrawTo(rcv, asked)
      PROVE  E!Take
  <2> DEFINE S == {x \in DOMAIN asked : Accrued(x) > 0}
             amount == [s \in S |-> Lesser(Accrued(s), asked[s])]
  <2>1. S \in SUBSET StreamIds /\ \A s \in S : Active(s) /\ asked[s] \in Nat \ {0}
    BY <1>3, StreamsAssumption DEF BatchWithdrawTo
  <2>2. \A s \in S : Lesser(Accrued(s), asked[s]) \in Nat \ {0}
    BY <1>0, <2>1 DEF Lesser
  <2>3. PayOut(amount)
    BY <1>3 DEF BatchWithdrawTo
  <2> HIDE DEF S
  <2>4. amount \in [S -> Nat \ {0}]
    BY <2>2
  <2> HIDE DEF amount
  <2>5. QED
    BY <2>1, <2>3, <2>4, TakeStep
<1>4. QED
  BY <1>1, <1>2, <1>3

LEMMA EscrowNext ==
  ASSUME IInv, [Next]_vars
  PROVE  [E!Next]_(E!vars)
<1> DEFINE Goal == E!Next \/ UNCHANGED E!vars
<1>0. Ready /\ StreamsOK /\ Shaped
  BY StepReady DEF Ready
<1>1. ASSUME NEW s \in StreamIds, NEW snd \in Senders, NEW rcv \in Receivers,
             NEW n \in Rates, NEW a \in Amounts, CreateStream(s, snd, rcv, n, a)
      PROVE  Goal
  <2>1. E!Open(s, n, a)
    BY <1>0, <1>1, OpenStep
  <2>2. QED
    BY <2>1 DEF E!Next
<1>2. ASSUME NEW s \in StreamIds,
             SetStreamDestination(s) \/ ApproveStreamMilestone(s) \/ CloseExpiredStream(s)
      PROVE  Goal
  BY <1>0, <1>2, FlagUnnoticed, CloseUnnoticed
<1>3. ASSUME NEW s \in StreamIds, NEW n \in Rates,
             UpdateStreamRate(s, n) \/ DecreaseRatePerSecond(s, n)
      PROVE  Goal
  <2>1. ChangeRate(s, n)
    BY <1>3 DEF UpdateStreamRate, DecreaseRatePerSecond
  <2>2. E!Change(s, n)
    BY <1>0, <2>1, ChangeStep
  <2>3. QED
    BY <2>2 DEF E!Next
<1>4. ASSUME E!Take \/ UNCHANGED E!vars
      PROVE  Goal
  BY <1>4 DEF E!Next
<1>5. /\ \A rcv \in Receivers : \A max : WithdrawAllForRecipient(rcv, max) => Goal
      /\ \A s \in StreamIds : TriggerWithdrawal(s) => Goal
      /\ \A rcv : \A X \in SUBSET StreamIds : \A asked \in [X -> Amounts] :
            BatchWithdrawTo(rcv, asked) => Goal
  <2> HIDE DEF Goal
  <2>1. QED
    BY <1>0, <1>4, WithdrawalsTake
<1>6. ASSUME NEW snd \in Senders, NEW S \in SUBSET StreamIds,
             NEW amount \in [S -> Amounts], TopUpMultipleStreams(snd, amount)
      PROVE  Goal
  <2>1. E!Add
    BY <1>0, <1>6, AddStep
  <2>2. QED
    BY <2>1 DEF E!Next
<1>7. ASSUME NEW S \in SUBSET StreamIds, \A s \in S : Active(s), CancelAll(S)
      PROVE  Goal
  <2>1. E!Close(S)
    BY <1>0, <1>7, SplitStep
  <2>2. QED
    BY <2>1 DEF E!Next
<1>8. ASSUME NEW snd \in Senders, NEW S \in SUBSET StreamIds, CancelMultipleStreams(snd, S)
      PROVE  Goal
  <2> HIDE DEF Goal
  <2>1. QED
    BY <1>7, <1>8 DEF CancelMultipleStreams
<1>9. ASSUME NEW snd \in Senders, NEW n \in 0 .. MaxBatchCancel + 1,
             NEW ids \in [1 .. n -> StreamIds], BatchCancelStreams(snd, ids)
      PROVE  Goal
  <2> DEFINE S == {s \in {ids[i] : i \in {j \in DOMAIN ids : j =< MaxBatchCancel}} :
                      Active(s) /\ stream[s].sender = snd}
  <2>1. S \in SUBSET StreamIds /\ (\A s \in S : Active(s)) /\ CancelAll(S)
    BY <1>9 DEF BatchCancelStreams
  <2> HIDE DEF S, Goal
  <2>2. QED
    BY <1>7, <2>1
<1>10. ASSUME UNCHANGED <<stream, ledger, clocks>>
       PROVE  Goal
  <2>1. \A z \in StreamIds : Still(z)
    BY <1>10, StillIf DEF ledger, clocks
  <2>2. QED
    BY <1>0, <2>1, StillAll DEF Ready
<1>11. ASSUME Tick
       PROVE  Goal
  <2>1. E!Second
    BY <1>0, <1>11, SecondStep
  <2>2. QED
    BY <2>1 DEF E!Next
<1>12. ASSUME NEW s \in StreamIds, LockLapses(s)
       PROVE  Goal
  BY <1>10, <1>12 DEF LockLapses
<1>13. ASSUME NEW value \in BOOLEAN, SetGlobalPause(value)
       PROVE  Goal
  BY <1>10, <1>13 DEF SetGlobalPause
<1> HIDE DEF Goal
<1> SUFFICES Goal
  BY DEF Goal
<1>14. CASE UNCHANGED vars
  <2>1. UNCHANGED <<stream, ledger, clocks>>
    BY <1>14 DEF vars, ledger, clocks
  <2>2. QED
    BY <1>10, <2>1
<1>15. CASE ProcessorNext
  BY <1>1, <1>2, <1>3, <1>5, <1>6, <1>8, <1>9, <1>11, <1>12, <1>13, <1>15 DEF ProcessorNext
<1>16. CASE Next
  BY <1>2, <1>3, <1>15, <1>16 DEF Next
<1>17. QED
  BY <1>14, <1>16

LEMMA EscrowInit == Init => E!Init
<1> SUFFICES ASSUME Init PROVE E!Init
  OBVIOUS
<1>1. \A s \in StreamIds : stream[s] = NoStream /\ ~Active(s)
  BY DEF Init, Active, NoStream
<1>2. \A s \in StreamIds : ReceivedBar[s] = 0
  BY BarValues DEF Init
<1>3. \A s \in StreamIds : RunningBar[s] = 0 /\ EarnedBar[s] = 0 /\ UnearnedBar[s] = 0
  BY <1>1, NotRunning
<1>4. /\ RunningBar = [s \in StreamIds |-> 0] /\ EarnedBar = [s \in StreamIds |-> 0]
      /\ UnearnedBar = [s \in StreamIds |-> 0] /\ ReceivedBar = [s \in StreamIds |-> 0]
  BY <1>2, <1>3, PartsAre DEF Parts
<1>5. QED
  BY <1>4 DEF Init, E!Init

\* Lazy accrual is unobservable: a contract that brings a checkpoint up to date
\* when a call looks at a stream implements an escrow that drips each second.
THEOREM StreamsImplementEscrow == Spec => ImplementsEscrow
<1>1. Init => E!Init
  BY EscrowInit
<1>2. IInv /\ [Next]_vars => [E!Next]_(E!vars)
  BY EscrowNext
<1>3. QED
  BY <1>1, <1>2, StreamsInductive, PTL DEF Spec, ImplementsEscrow, E!Spec
=============================================================================
