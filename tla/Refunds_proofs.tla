--------------------------- MODULE Refunds_proofs ---------------------------
(***************************************************************************)
(* Theorems about Refunds.  First what the limits and the tallies are made *)
(* of, sums over finite sets; then the typing of the state, where the only *)
(* arithmetic is that a fee and a slash are parts of their amount; then    *)
(* the inductive invariant, argued on the few shapes that a step gives the *)
(* refunds, the disputes and the stakes.  The last part shows that each    *)
(* step is one of the abstract Claims.                                     *)
(*                                                                         *)
(* What a recursive definition computes is argued by a smallest            *)
(* counterexample: the library's theorem WFMin gives one for the order of  *)
(* strict subsets, and takes no operator as a parameter.                   *)
(***************************************************************************)
EXTENDS Refunds, FiniteSetTheorems, WellFoundedInduction, TLAPS

-----------------------------------------------------------------------------
(* Sums over finite sets *)

\* The element that the fold of the community modules takes next.
Pick(s) == CHOOSE x \in s : TRUE

\* g solves the equations of the fold on the sets in D.
Folded(f, g, D) ==
    g = [s \in D |-> IF s = {} THEN 0 ELSE f[Pick(s)] + g[s \ {Pick(s)}]]

\* SumFunctionOnSet is some solution, if there is one.
LEMMA SumFolded ==
  ASSUME NEW f, NEW S
  PROVE  SumFunctionOnSet(f, S) = (CHOOSE g : Folded(f, g, SUBSET S))[S]
BY Zenon DEF SumFunctionOnSet, FoldFunctionOnSet, MapThenFoldSet, Folded, Pick

\* Among subsets of a finite set there is a smallest one.
LEMMA Minimal ==
  ASSUME NEW S, IsFiniteSet(S), NEW B \in SUBSET SUBSET S, B # {}
  PROVE  \E s \in B : \A t \in SUBSET s : t # s => t \notin B
<1>1. IsWellFoundedOn(StrictSubsetOrdering(S), FiniteSubsetsOf(S))
  BY FS_StrictSubsetOrderingWellFounded
<1>2. B \subseteq FiniteSubsetsOf(S)
  BY FS_Subset DEF FiniteSubsetsOf
<1>3. PICK s \in B : \A t \in B : ~(<<t, s>> \in StrictSubsetOrdering(S))
  <2> HIDE DEF StrictSubsetOrdering
  <2>1. QED
    BY <1>1, <1>2, WFMin
<1>4. ASSUME NEW t \in SUBSET s, t # s, t \in B
      PROVE  FALSE
  <2>1. t \in SUBSET S /\ s \in SUBSET S
    OBVIOUS
  <2>2. <<t, s>> \in StrictSubsetOrdering(S)
    BY <1>4, <2>1 DEF StrictSubsetOrdering
  <2>3. QED
    BY <1>3, <1>4, <2>2
<1>5. QED
  BY <1>4

\* Two solutions agree wherever both are defined.
LEMMA FoldedAgree ==
  ASSUME NEW f, NEW g, NEW h, NEW S, NEW T, IsFiniteSet(S),
         Folded(f, g, SUBSET S), Folded(f, h, SUBSET T), NEW u \in SUBSET S, u \in SUBSET T
  PROVE  g[u] = h[u]
<1> DEFINE B == {t \in SUBSET u : g[t] # h[t]}
<1>1. IsFiniteSet(u)
  BY FS_Subset
<1>2. ASSUME B # {}
      PROVE  FALSE
  <2>1. PICK s \in B : \A t \in SUBSET s : t # s => t \notin B
    <3> HIDE DEF B
    <3>1. B \in SUBSET SUBSET u
      BY DEF B
    <3>2. QED
      BY <1>1, <1>2, <3>1, Minimal
  <2> DEFINE c == Pick(s)
  <2>2. /\ g[s] = IF s = {} THEN 0 ELSE f[c] + g[s \ {c}]
        /\ h[s] = IF s = {} THEN 0 ELSE f[c] + h[s \ {c}]
    BY DEF Folded
  <2>3. s # {}
    BY <2>1, <2>2
  <2>4. c \in s
    BY <2>3 DEF Pick
  <2>5. g[s \ {c}] = h[s \ {c}]
    BY <2>1, <2>4
  <2>6. QED
    BY <2>1, <2>2, <2>3, <2>5
<1>3. QED
  BY <1>2

\* A solution exists for every finite set: where a smallest set had none, those
\* of its subsets would make one.
LEMMA FoldedExists ==
  ASSUME NEW f, NEW S, IsFiniteSet(S)
  PROVE  \E g : Folded(f, g, SUBSET S)
<1> DEFINE B == {s \in SUBSET S : ~\E g : Folded(f, g, SUBSET s)}
<1>1. ASSUME B # {}
      PROVE  FALSE
  <2>1. PICK s \in B : \A t \in SUBSET s : t # s => t \notin B
    <3> HIDE DEF B
    <3>1. B \in SUBSET SUBSET S
      BY DEF B
    <3>2. QED
      BY <1>1, <3>1, Minimal
  <2> DEFINE G(u) == CHOOSE g : Folded(f, g, SUBSET u)
             V(u) == G(u)[u]
             h == [t \in SUBSET s |-> IF t = {} THEN 0 ELSE f[Pick(t)] + V(t \ {Pick(t)})]
  <2>2. \A u \in SUBSET s : u # s => Folded(f, G(u), SUBSET u)
    <3>1. ASSUME NEW u \in SUBSET s, u # s
          PROVE  Folded(f, G(u), SUBSET u)
      <4>1. \E g : Folded(f, g, SUBSET u)
        BY <2>1, <3>1
      <4> HIDE DEF Folded
      <4>2. QED
        BY <4>1
    <3>2. QED
      BY <3>1
  <2>3. ASSUME NEW u \in SUBSET s, u # s
        PROVE  V(u) = IF u = {} THEN 0 ELSE f[Pick(u)] + V(u \ {Pick(u)})
    <3>1. Folded(f, G(u), SUBSET u)
      BY <2>2, <2>3
    <3>2. G(u)[u] = IF u = {} THEN 0 ELSE f[Pick(u)] + G(u)[u \ {Pick(u)}]
      <4> HIDE DEF G
      <4>1. QED
        BY <3>1 DEF Folded
    <3> DEFINE v == u \ {Pick(u)}
    <3>3. v \in SUBSET s /\ v # s /\ v \in SUBSET u
      BY <2>3
    <3>4. Folded(f, G(v), SUBSET v)
      <4> HIDE DEF G, v
      <4>1. QED
        BY <2>2, <3>3
    <3>5. IsFiniteSet(u)
      BY FS_Subset
    <3>6. G(u)[v] = G(v)[v]
      <4> HIDE DEF G, v
      <4>1. v \in SUBSET v
        OBVIOUS
      <4>2. QED
        BY <3>1, <3>3, <3>4, <3>5, <4>1, FoldedAgree
    <3>7. QED
      BY <3>2, <3>6
  <2> HIDE DEF V
  <2>4. ASSUME NEW t \in SUBSET s
        PROVE  h[t] = IF t = {} THEN 0 ELSE f[Pick(t)] + h[t \ {Pick(t)}]
    <3>1. CASE t = {}
      BY <3>1
    <3>2. CASE t # {}
      <4> DEFINE u == t \ {Pick(t)}
      <4>1. Pick(t) \in t
        BY <3>2 DEF Pick
      <4>2. u \in SUBSET s /\ u # s
        BY <4>1
      <4>3. h[u] = V(u)
        BY <2>3, <4>2
      <4>4. QED
        BY <3>2, <4>3
    <3>3. QED
      BY <3>1, <3>2
  <2>5. Folded(f, h, SUBSET s)
    <3>1. h = [t \in SUBSET s |-> h[t]]
      OBVIOUS
    <3> HIDE DEF h
    <3>2. QED
      BY <2>4, <3>1 DEF Folded
  <2>6. QED
    BY <2>1, <2>5
<1>2. QED
  BY <1>1

\* The fold of the community module, one element at a time.
LEMMA SumUnfold ==
  ASSUME NEW f, NEW S, IsFiniteSet(S)
  PROVE  SumFunctionOnSet(f, S) =
             IF S = {} THEN 0 ELSE f[Pick(S)] + SumFunctionOnSet(f, S \ {Pick(S)})
<1> DEFINE G(u) == CHOOSE g : Folded(f, g, SUBSET u)
           T == S \ {Pick(S)}
<1>1. \A u : SumFunctionOnSet(f, u) = G(u)[u]
  BY SumFolded
<1>2. IsFiniteSet(T)
  BY FS_RemoveElement
<1>3. Folded(f, G(S), SUBSET S) /\ Folded(f, G(T), SUBSET T)
  <2>1. (\E g : Folded(f, g, SUBSET S)) /\ (\E g : Folded(f, g, SUBSET T))
    <3> HIDE DEF T
    <3>1. QED
      BY <1>2, FoldedExists
  <2> HIDE DEF Folded
  <2>2. QED
    BY <2>1
<1> HIDE DEF G
<1>4. G(S)[S] = IF S = {} THEN 0 ELSE f[Pick(S)] + G(S)[T]
  BY <1>3 DEF Folded
<1>5. G(S)[T] = G(T)[T]
  <2>1. T \in SUBSET S /\ T \in SUBSET T
    OBVIOUS
  <2> HIDE DEF T
  <2>2. QED
    BY <1>3, <2>1, FoldedAgree
<1>6. QED
  BY <1>1, <1>4, <1>5

LEMMA SumEmpty ==
  ASSUME NEW f
  PROVE  SumFunctionOnSet(f, {}) = 0
BY SumUnfold, FS_EmptySet

\* Any element may be taken first.
LEMMA SumRemove ==
  ASSUME NEW S, IsFiniteSet(S), NEW f, \A x \in S : f[x] \in Nat, NEW x \in S
  PROVE  /\ SumFunctionOnSet(f, S) \in Nat
         /\ SumFunctionOnSet(f, S \ {x}) \in Nat
         /\ SumFunctionOnSet(f, S) = f[x] + SumFunctionOnSet(f, S \ {x})
<1> DEFINE sum(T) == SumFunctionOnSet(f, T)
           Good(T) == /\ sum(T) \in Nat
                      /\ \A y \in T : sum(T) = f[y] + sum(T \ {y})
           B == {T \in SUBSET S : ~Good(T)}
<1>1. \A T \in SUBSET S : sum(T) = IF T = {} THEN 0 ELSE f[Pick(T)] + sum(T \ {Pick(T)})
  <2>1. \A T \in SUBSET S : IsFiniteSet(T)
    BY FS_Subset
  <2>2. QED
    BY <2>1, SumUnfold
<1> HIDE DEF sum
<1>2. ASSUME B # {}
      PROVE  FALSE
  <2>1. PICK T \in B : \A U \in SUBSET T : U # T => U \notin B
    <3>1. B \in SUBSET SUBSET S
      OBVIOUS
    <3> HIDE DEF B
    <3>2. QED
      BY <1>2, <3>1, Minimal
  <2> DEFINE c == Pick(T)
  <2>2. T # {}
    <3>1. sum({}) = 0
      BY <1>1
    <3>2. Good({})
      BY <3>1
    <3>3. QED
      BY <2>1, <3>2
  <2>3. c \in T
    BY <2>2 DEF Pick
  <2>4. sum(T) = f[c] + sum(T \ {c})
    BY <1>1, <2>2
  <2> HIDE DEF c
  <2>5. Good(T \ {c})
    BY <2>1, <2>3
  <2>6. sum(T) \in Nat
    BY <2>1, <2>3, <2>4, <2>5
  <2>7. ASSUME NEW y \in T, y # c
        PROVE  sum(T) = f[y] + sum(T \ {y})
    <3>1. Good(T \ {y})
      BY <2>1
    <3>2. sum(T \ {c}) = f[y] + sum((T \ {c}) \ {y})
      BY <2>5, <2>7
    <3>3. sum(T \ {y}) = f[c] + sum((T \ {y}) \ {c})
      BY <2>3, <2>7, <3>1
    <3>4. (T \ {c}) \ {y} = (T \ {y}) \ {c}
      OBVIOUS
    <3>5. Good((T \ {y}) \ {c})
      BY <2>1, <2>7
    <3> DEFINE k == sum((T \ {y}) \ {c})
    <3>6. /\ k \in Nat /\ f[y] \in Nat /\ f[c] \in Nat
          /\ sum(T \ {c}) = f[y] + k /\ sum(T \ {y}) = f[c] + k
      BY <2>1, <2>3, <3>2, <3>3, <3>4, <3>5
    <3> HIDE DEF k
    <3>7. QED
      BY <2>4, <3>6
  <2>8. QED
    BY <2>1, <2>4, <2>6, <2>7
<1>3. Good(S) /\ Good(S \ {x})
  BY <1>2
<1>4. QED
  BY <1>3 DEF sum

\* Natural numbers add up to one.
LEMMA SumNat ==
  ASSUME NEW S, IsFiniteSet(S), NEW f, \A x \in S : f[x] \in Nat
  PROVE  SumFunctionOnSet(f, S) \in Nat
<1>1. CASE S = {}
  BY <1>1, SumEmpty
<1>2. CASE S # {}
  <2>1. PICK x : x \in S
    BY <1>2
  <2>2. QED
    BY <2>1, SumRemove
<1>3. QED
  BY <1>1, <1>2

\* The sum over the part of T that is in Q.
PartSum(f, Q, T) == SumFunctionOnSet(f, T \cap Q)

NatOn(f, Q) == \A x \in Q : f[x] \in Nat

\* What one element c of T adds to it.
Splits(f, Q, T, c) ==
    /\ PartSum(f, Q, T) \in Nat
    /\ PartSum(f, Q, T \ {c}) \in Nat
    /\ c \in Q => PartSum(f, Q, T) = f[c] + PartSum(f, Q, T \ {c})
    /\ c \notin Q => PartSum(f, Q, T) = PartSum(f, Q, T \ {c})

LEMMA SumSplit ==
  ASSUME NEW T, IsFiniteSet(T), NEW Q, NEW f, NatOn(f, Q), NEW c \in T
  PROVE  Splits(f, Q, T, c)
<1> DEFINE P == T \cap Q
<1>1. P \in SUBSET T /\ \A x \in P : f[x] \in Nat
  BY DEF NatOn
<1>2. c \in P <=> c \in Q
  OBVIOUS
<1>3. (T \ {c}) \cap Q = P \ {c}
  OBVIOUS
<1> HIDE DEF P
<1>4. IsFiniteSet(P)
  BY <1>1, FS_Subset
<1>5. SumFunctionOnSet(f, P) \in Nat
  BY <1>1, <1>4, SumNat
<1>6. CASE c \in P
  <2>1. /\ SumFunctionOnSet(f, P \ {c}) \in Nat
        /\ SumFunctionOnSet(f, P) = f[c] + SumFunctionOnSet(f, P \ {c})
    BY <1>1, <1>4, <1>6, SumRemove
  <2>2. QED
    BY <1>2, <1>3, <1>5, <1>6, <2>1 DEF P, PartSum, Splits
<1>7. CASE c \notin P
  <2>1. P \ {c} = P
    BY <1>7
  <2>2. QED
    BY <1>2, <1>3, <1>5, <1>7, <2>1 DEF P, PartSum, Splits
<1>8. QED
  BY <1>6, <1>7

\* Terms over R that are no larger than those over S, where one that is not
\* there counts as 0, have no larger sum.
LEMMA SumMonotone ==
  ASSUME NEW U, IsFiniteSet(U), NEW R \in SUBSET U, NEW S \in SUBSET U, NEW f, NEW g,
         \A x \in R : f[x] \in Nat, \A x \in S : g[x] \in Nat,
         \A x \in R : f[x] =< (IF x \in S THEN g[x] ELSE 0)
  PROVE  SumFunctionOnSet(f, R) =< SumFunctionOnSet(g, S)
<1> DEFINE F(T) == PartSum(f, R, T)
           G(T) == PartSum(g, S, T)
           B == {T \in SUBSET U : ~(F(T) =< G(T))}
<1>1. NatOn(f, R) /\ NatOn(g, S)
  BY DEF NatOn
<1>2. \A T : \A c \in T : IsFiniteSet(T) => Splits(f, R, T, c) /\ Splits(g, S, T, c)
  BY <1>1, SumSplit
<1>3. ASSUME B # {}
      PROVE  FALSE
  <2>1. PICK T \in B : \A V \in SUBSET T : V # T => V \notin B
    <3>1. B \in SUBSET SUBSET U
      OBVIOUS
    <3> HIDE DEF B
    <3>2. QED
      BY <1>3, <3>1, Minimal
  <2>2. IsFiniteSet(T)
    BY FS_Subset
  <2>3. T # {}
    <3>1. {} \cap R = {} /\ {} \cap S = {}
      OBVIOUS
    <3>2. F({}) = 0 /\ G({}) = 0
      BY <3>1, SumEmpty DEF PartSum
    <3> HIDE DEF F, G
    <3>3. {} \notin B
      BY <3>2
    <3>4. QED
      BY <2>1, <3>3
  <2>4. PICK c : c \in T
    BY <2>3
  <2>5. /\ F(T) \in Nat /\ F(T \ {c}) \in Nat
        /\ c \in R => F(T) = f[c] + F(T \ {c})
        /\ c \notin R => F(T) = F(T \ {c})
    BY <1>2, <2>2, <2>4 DEF Splits
  <2>6. /\ G(T) \in Nat /\ G(T \ {c}) \in Nat
        /\ c \in S => G(T) = g[c] + G(T \ {c})
        /\ c \notin S => G(T) = G(T \ {c})
    BY <1>2, <2>2, <2>4 DEF Splits
  <2> HIDE DEF F, G
  <2>7. F(T \ {c}) =< G(T \ {c})
    BY <2>1, <2>4
  <2> DEFINE a == IF c \in R THEN f[c] ELSE 0
             b == IF c \in S THEN g[c] ELSE 0
  <2>8. a \in Nat /\ b \in Nat /\ a =< b
    OBVIOUS
  <2>9. F(T) = a + F(T \ {c}) /\ G(T) = b + G(T \ {c})
    BY <2>5, <2>6
  <2> HIDE DEF a, b
  <2>10. F(T) =< G(T)
    BY <2>5, <2>6, <2>7, <2>8, <2>9
  <2>11. QED
    BY <2>1, <2>10
<1>4. U \cap R = R /\ U \cap S = S
  OBVIOUS
<1>5. F(U) =< G(U)
  <2> HIDE DEF F, G
  <2>1. QED
    BY <1>3
<1>6. QED
  BY <1>4, <1>5 DEF PartSum

\* The sum only depends on the terms.
LEMMA SumSame ==
  ASSUME NEW S, IsFiniteSet(S), NEW f, NEW g,
         \A x \in S : f[x] \in Nat /\ g[x] = f[x]
  PROVE  SumFunctionOnSet(g, S) = SumFunctionOnSet(f, S)
<1>1. SumFunctionOnSet(f, S) \in Nat /\ SumFunctionOnSet(g, S) \in Nat
  BY SumNat
<1>2. /\ S \in SUBSET S
      /\ \A x \in S : /\ g[x] \in Nat
                       /\ g[x] =< (IF x \in S THEN f[x] ELSE 0)
                       /\ f[x] =< (IF x \in S THEN g[x] ELSE 0)
  OBVIOUS
<1>3. SumFunctionOnSet(g, S) =< SumFunctionOnSet(f, S)
  BY <1>2, SumMonotone
<1>4. SumFunctionOnSet(f, S) =< SumFunctionOnSet(g, S)
  BY <1>2, SumMonotone
<1>5. QED
  BY <1>1, <1>3, <1>4

-----------------------------------------------------------------------------
(* Parts of an amount *)

LEMMA ShareNat ==
  ASSUME NEW a \in Nat, NEW b \in Nat, b < 10000
  PROVE  Share(a, b) \in Nat /\ Share(a, b) =< a
<1> DEFINE q == a * b
<1>1. q \in Nat
  OBVIOUS
<1>2. q =< a * 9999
  OBVIOUS
<1> HIDE DEF q
<1>3. q \div 10000 \in Nat /\ q \div 10000 =< a
  BY <1>1, <1>2
<1>4. QED
  BY <1>3 DEF q, Share

\* A payout never exceeds the refund, nor what the contract owns.
LEMMA PayoutFacts ==
  ASSUME NEW amount \in Nat, NEW balance \in Nat, NEW x \in Payouts(amount, balance)
  PROVE  x \in Nat /\ x =< amount /\ balance - x \in Nat
<1>1. Fee(amount) \in Nat /\ Fee(amount) =< amount
  BY ShareNat, RefundsAssumption DEF Fee
<1>2. x \in {0, amount - Fee(amount), amount} /\ x =< balance
  BY DEF Payouts
<1>3. QED
  BY <1>1, <1>2

LEMMA SlashFacts ==
  ASSUME NEW amount \in Nat
  PROVE  Slash(amount) \in Nat /\ amount - Slash(amount) \in Nat
<1>1. Slash(amount) \in Nat /\ Slash(amount) =< amount
  BY ShareNat, RefundsAssumption DEF Slash
<1>2. QED
  BY <1>1

-----------------------------------------------------------------------------
(* Types *)

\* Storing a refund keeps the refund variables typed.
RefundTypes ==
    /\ refund \in [RefundIds -> RefundRecord \cup {NoRefund}]
    /\ refundCounter \in 0 .. MaxRefunds
    /\ paymentRefunds \in [PaymentIds -> SUBSET RefundIds]
    /\ sent \in [RefundIds -> Nat]

LEMMA IssueTypes ==
  ASSUME RefundTypes, NEW p \in PaymentIds, NEW amount \in Nat \ {0},
         NEW who \in Customers, NEW status \in {"Pending", "Completed"},
         NEW moved \in Nat, IssueRefund(p, amount, who, status, moved)
  PROVE  RefundTypes'
<1> DEFINE r == refundCounter + 1
<1>1. r \in RefundIds /\ r \in 0 .. MaxRefunds
  BY RefundsAssumption DEF IssueRefund, RefundTypes, RefundIds
<1>2. [payment |-> p, amount |-> amount, requester |-> who, status |-> status]
        \in RefundRecord
  BY DEF RefundRecord
<1>3. refund' \in [RefundIds -> RefundRecord \cup {NoRefund}]
  BY <1>1, <1>2 DEF IssueRefund, RefundTypes
<1>4. refundCounter' \in 0 .. MaxRefunds
  BY <1>1 DEF IssueRefund
<1>5. paymentRefunds' \in [PaymentIds -> SUBSET RefundIds]
  BY <1>1 DEF IssueRefund, RefundTypes
<1>6. sent' \in [RefundIds -> Nat]
  BY <1>1 DEF IssueRefund, RefundTypes
<1>7. QED
  BY <1>3, <1>4, <1>5, <1>6 DEF RefundTypes

DisputeTypes ==
    /\ dispute \in [DisputeIds -> DisputeRecord \cup {NoDispute}]
    /\ disputeCounter \in 0 .. MaxDisputes
    /\ paymentDisputes \in [PaymentIds -> SUBSET DisputeIds]

VoteTypes ==
    /\ stake \in [DisputeIds -> Amounts(Nat)]
    /\ vote \in [DisputeIds -> Amounts({"None", "Favour", "Against"})]
    /\ tally \in [DisputeIds -> [favour : Nat, against : Nat]]
    /\ returned \in [DisputeIds -> Amounts(Nat)]
    /\ slashed \in [DisputeIds -> Amounts(Nat)]

OtherTypes ==
    /\ paymentAmount \in [PaymentIds -> Int \cup {None}]
    /\ held \in [Tokens -> Nat]
    /\ now \in Nat

LEMMA TypeParts ==
  TypeOK <=> RefundTypes /\ DisputeTypes /\ VoteTypes /\ OtherTypes
BY DEF TypeOK, RefundTypes, DisputeTypes, VoteTypes, OtherTypes

LEMMA TypePartsPrime ==
  TypeOK' <=> RefundTypes' /\ DisputeTypes' /\ VoteTypes' /\ OtherTypes'
BY DEF TypeOK, RefundTypes, DisputeTypes, VoteTypes, OtherTypes

\* Variables that a step leaves alone stay typed.
LEMMA SameTypes ==
  /\ RefundTypes /\ UNCHANGED refundState => RefundTypes'
  /\ DisputeTypes /\ UNCHANGED disputeState => DisputeTypes'
  /\ VoteTypes /\ UNCHANGED voteState => VoteTypes'
BY DEF RefundTypes, DisputeTypes, VoteTypes, refundState, disputeState, voteState

\* A dispute that is not the placeholder is a record.
LEMMA DisputeRecorded ==
  ASSUME DisputeTypes, NEW d \in DisputeIds, dispute[d].status # "None"
  PROVE  /\ dispute[d] \in DisputeRecord
         /\ dispute[d].payment \in PaymentIds
         /\ dispute[d].amount \in Nat \ {0}
         /\ dispute[d].disputer \in Customers
         /\ dispute[d].refundId \in RefundIds \cup {None}
<1>1. dispute[d] \in DisputeRecord
  BY DEF DisputeTypes, NoDispute
<1>2. QED
  BY <1>1 DEF DisputeRecord

LEMMA RefundRecorded ==
  ASSUME RefundTypes, NEW r \in RefundIds, refund[r].status # "None"
  PROVE  /\ refund[r] \in RefundRecord
         /\ refund[r].payment \in PaymentIds
         /\ refund[r].amount \in Nat \ {0}
<1>1. refund[r] \in RefundRecord
  BY DEF RefundTypes, NoRefund
<1>2. QED
  BY <1>1 DEF RefundRecord

\* Replacing one record of a dispute by another keeps the disputes typed.
LEMMA DisputeSet ==
  ASSUME DisputeTypes, NEW d \in DisputeIds, NEW x \in DisputeRecord,
         dispute' = [dispute EXCEPT ![d] = x],
         UNCHANGED <<disputeCounter, paymentDisputes>>
  PROVE  DisputeTypes'
BY DEF DisputeTypes

\* The balance after a payout.
LEMMA HeldAfter ==
  ASSUME held \in [Tokens -> Nat], NEW amount \in Nat,
         NEW f \in [Tokens -> Nat], NEW moved \in Payouts(amount, f[UsdcToken]),
         held' = [f EXCEPT ![UsdcToken] = @ - moved]
  PROVE  held' \in [Tokens -> Nat] /\ moved \in Nat
<1>1. f[UsdcToken] \in Nat
  BY RefundsAssumption
<1>2. moved \in Nat /\ f[UsdcToken] - moved \in Nat
  BY <1>1, PayoutFacts
<1>3. QED
  BY <1>2

\* Releasing stakes keeps the votes typed: the slash is a part of the stake.
LEMMA ReleaseTypes ==
  ASSUME VoteTypes, NEW d \in DisputeIds, NEW S, ReleaseStakes(d, S),
         UNCHANGED <<vote, tally>>
  PROVE  VoteTypes'
<1> DEFINE cut(a) == IF Lost(d, a) THEN Slash(stake[d][a]) ELSE 0
<1>1. \A a \in Arbitrators : cut(a) \in Nat /\ stake[d][a] - cut(a) \in Nat
  <2>1. TAKE a \in Arbitrators
  <2>2. stake[d][a] \in Nat
    BY DEF VoteTypes, Amounts
  <2>3. Slash(stake[d][a]) \in Nat /\ stake[d][a] - Slash(stake[d][a]) \in Nat
    BY <2>2, SlashFacts
  <2>4. QED
    BY <2>2, <2>3
<1>2. /\ stake' = [stake EXCEPT ![d] =
              [a \in Arbitrators |-> IF a \in S THEN 0 ELSE stake[d][a]]]
      /\ slashed' = [slashed EXCEPT ![d] =
              [a \in Arbitrators |-> IF a \in S THEN cut(a) ELSE slashed[d][a]]]
      /\ returned' = [returned EXCEPT ![d] =
              [a \in Arbitrators |-> IF a \in S THEN stake[d][a] - cut(a)
                                     ELSE returned[d][a]]]
  BY DEF ReleaseStakes
<1> HIDE DEF cut
<1>3. stake' \in [DisputeIds -> Amounts(Nat)]
  BY <1>2 DEF VoteTypes, Amounts
<1>4. slashed' \in [DisputeIds -> Amounts(Nat)]
  BY <1>1, <1>2 DEF VoteTypes, Amounts
<1>5. returned' \in [DisputeIds -> Amounts(Nat)]
  BY <1>1, <1>2 DEF VoteTypes, Amounts
<1>6. QED
  BY <1>3, <1>4, <1>5 DEF VoteTypes

LEMMA RefundSetTypes ==
  ASSUME RefundTypes, NEW r \in RefundIds, refund[r].status # "None",
         NEW s \in {"Completed", "Rejected"},
         refund' = [refund EXCEPT ![r].status = s],
         UNCHANGED <<refundCounter, paymentRefunds>>,
         sent' \in [RefundIds -> Nat]
  PROVE  RefundTypes'
<1> DEFINE c == refund[r]
<1>1. c \in RefundRecord
  BY RefundRecorded
<1> HIDE DEF c
<1>2. [c EXCEPT !.status = s] \in RefundRecord
  BY <1>1 DEF RefundRecord
<1>3. refund' = [refund EXCEPT ![r] = [c EXCEPT !.status = s]]
  BY DEF c
<1>4. refund' \in [RefundIds -> RefundRecord \cup {NoRefund}]
  BY <1>2, <1>3 DEF RefundTypes
<1>5. QED
  BY <1>4 DEF RefundTypes

\* Every step keeps the types.
LEMMA TypeStep ==
  ASSUME TypeOK, [Next]_vars
  PROVE  TypeOK'
<1> USE DEF OtherTypes
<1>1. RefundTypes /\ DisputeTypes /\ VoteTypes /\ OtherTypes
  BY TypeParts
<1>u. CASE UNCHANGED vars
  BY <1>1, <1>u, SameTypes, TypePartsPrime
     DEF vars, refundState, disputeState, voteState
<1>2. ASSUME NEW p \in PaymentIds, NEW amount \in PaymentAmounts,
             RegisterPayment(p, amount)
      PROVE  TypeOK'
  <2>1. OtherTypes'
    BY <1>1, <1>2, RefundsAssumption DEF RegisterPayment
  <2>2. QED
    BY <1>1, <1>2, <2>1, SameTypes, TypePartsPrime DEF RegisterPayment
<1>3. ASSUME NEW p \in PaymentIds, NEW amount \in RefundAmounts, NEW who \in Customers,
             CreateRefund(p, amount, who)
      PROVE  TypeOK'
  <2>1. amount \in Nat \ {0}
    BY <1>3, RefundsAssumption DEF CreateRefund, Refundable
  <2>2. RefundTypes'
    <3>1. "Pending" \in {"Pending", "Completed"} /\ 0 \in Nat
      OBVIOUS
    <3>2. IssueRefund(p, amount, who, "Pending", 0)
      BY <1>3 DEF CreateRefund
    <3>3. QED
      BY <1>1, <2>1, <3>1, <3>2, IssueTypes
  <2>3. QED
    BY <1>1, <1>3, <2>2, SameTypes, TypePartsPrime DEF CreateRefund
<1>4. ASSUME NEW p \in PaymentIds, NEW amount \in RefundAmounts, NEW who \in Customers,
             CreateDispute(p, amount, who)
      PROVE  TypeOK'
  <2>1. amount \in Nat \ {0}
    BY <1>4, RefundsAssumption DEF CreateDispute
  <2>2. [payment |-> p, amount |-> amount, disputer |-> who, status |-> "Open",
         refundId |-> None, deadline |-> None, escalated |-> FALSE] \in DisputeRecord
    BY <2>1 DEF DisputeRecord
  <2>3. /\ disputeCounter + 1 \in DisputeIds
        /\ disputeCounter' \in 0 .. MaxDisputes
    BY <1>1, <1>4, RefundsAssumption DEF CreateDispute, DisputeTypes, DisputeIds
  <2>4. dispute' \in [DisputeIds -> DisputeRecord \cup {NoDispute}]
    BY <1>1, <1>4, <2>2, <2>3 DEF CreateDispute, DisputeTypes
  <2>5. paymentDisputes' \in [PaymentIds -> SUBSET DisputeIds]
    BY <1>1, <1>4, <2>3 DEF CreateDispute, DisputeTypes
  <2>6. DisputeTypes'
    BY <2>3, <2>4, <2>5 DEF DisputeTypes
  <2>7. QED
    BY <1>1, <1>4, <2>6, SameTypes, TypePartsPrime DEF CreateDispute
<1>5. ASSUME NEW r \in RefundIds, ProcessRefund(r)
      PROVE  TypeOK'
  <2>1. PICK moved \in Payouts(refund[r].amount, held[UsdcToken]) :
           /\ sent' = [sent EXCEPT ![r] = moved]
           /\ held' = [held EXCEPT ![UsdcToken] = @ - moved]
    BY <1>5 DEF ProcessRefund
  <2>2. refund[r].status # "None" /\ refund[r].amount \in Nat
    BY <1>1, <1>5, RefundRecorded DEF ProcessRefund
  <2>3. held' \in [Tokens -> Nat] /\ moved \in Nat
    BY <1>1, <2>1, <2>2, HeldAfter
  <2>4. sent' \in [RefundIds -> Nat]
    BY <1>1, <2>1, <2>3 DEF RefundTypes
  <2>5. RefundTypes'
    BY <1>1, <1>5, <2>2, <2>4, RefundSetTypes DEF ProcessRefund
  <2>6. QED
    BY <1>1, <1>5, <2>3, <2>5, SameTypes, TypePartsPrime DEF ProcessRefund
<1>6. ASSUME NEW r \in RefundIds, RejectRefund(r)
      PROVE  TypeOK'
  <2>1. refund[r].status # "None" /\ sent' \in [RefundIds -> Nat]
    BY <1>1, <1>6 DEF RejectRefund, RefundTypes
  <2>2. RefundTypes'
    BY <1>1, <1>6, <2>1, RefundSetTypes DEF RejectRefund
  <2>3. QED
    BY <1>1, <1>6, <2>2, SameTypes, TypePartsPrime DEF RejectRefund
<1>7. ASSUME NEW r \in RefundIds, CancelRefund(r)
      PROVE  TypeOK'
  <2>1. refund[r].payment \in PaymentIds
    BY <1>1, <1>7, RefundRecorded DEF CancelRefund
  <2>2. RefundTypes'
    BY <1>1, <1>7, <2>1 DEF CancelRefund, RefundTypes
  <2>3. QED
    BY <1>1, <1>7, <2>2, SameTypes, TypePartsPrime DEF CancelRefund
<1>8. ASSUME NEW d \in DisputeIds, ReviewDispute(d)
      PROVE  TypeOK'
  <2>1. [dispute[d] EXCEPT !.status = "UnderReview"] \in DisputeRecord
    BY <1>1, <1>8, DisputeRecorded DEF ReviewDispute, DisputeRecord
  <2>2. DisputeTypes'
    BY <1>1, <1>8, <2>1 DEF ReviewDispute, DisputeTypes
  <2>3. QED
    BY <1>1, <1>8, <2>2, SameTypes, TypePartsPrime DEF ReviewDispute
<1>9. ASSUME NEW d \in DisputeIds, NEW deadline \in Deadlines,
             SetDisputeDeadline(d, deadline)
      PROVE  TypeOK'
  <2> DEFINE b == dispute[d].escalated \/ now > deadline
  <2>1. dispute[d].status # "None" /\ dispute[d] \in DisputeRecord
    BY <1>1, <1>9, DisputeRecorded DEF SetDisputeDeadline, Undecided
  <2>2. deadline \in Nat /\ b \in BOOLEAN
    BY <2>1, RefundsAssumption DEF DisputeRecord
  <2>3. dispute' = [dispute EXCEPT ![d] =
            [dispute[d] EXCEPT !.deadline = deadline, !.escalated = b]]
    BY <1>9 DEF SetDisputeDeadline
  <2> HIDE DEF b
  <2>4. [dispute[d] EXCEPT !.deadline = deadline, !.escalated = b] \in DisputeRecord
    <3> DEFINE c == dispute[d]
    <3>1. c \in DisputeRecord
      BY <2>1
    <3> HIDE DEF c
    <3>2. [c EXCEPT !.deadline = deadline, !.escalated = b] \in DisputeRecord
      BY <2>2, <3>1 DEF DisputeRecord
    <3>3. QED
      BY <3>2 DEF c
  <2>5. DisputeTypes'
    BY <1>1, <1>9, <2>3, <2>4, DisputeSet DEF SetDisputeDeadline
  <2>6. QED
    BY <1>1, <1>9, <2>5, SameTypes, TypePartsPrime DEF SetDisputeDeadline
<1>10. ASSUME NEW d \in DisputeIds, EscalateOnRead(d)
       PROVE  TypeOK'
  <2>1. [dispute[d] EXCEPT !.escalated = TRUE] \in DisputeRecord
    BY <1>1, <1>10, DisputeRecorded DEF EscalateOnRead, Undecided, DisputeRecord
  <2>2. DisputeTypes'
    BY <1>1, <1>10, <2>1 DEF EscalateOnRead, DisputeTypes
  <2>3. QED
    BY <1>1, <1>10, <2>2, SameTypes, TypePartsPrime DEF EscalateOnRead
<1>11. ASSUME NEW d \in DisputeIds, ResolveDisputeWithRefund(d)
       PROVE  TypeOK'
  <2> DEFINE c == dispute[d]
  <2>1. PICK moved \in Payouts(c.amount, held[UsdcToken]) :
           /\ IssueRefund(c.payment, c.amount, c.disputer, "Completed", moved)
           /\ held' = [held EXCEPT ![UsdcToken] = @ - moved]
    BY <1>11 DEF ResolveDisputeWithRefund
  <2>2. /\ c \in DisputeRecord /\ c.payment \in PaymentIds
        /\ c.amount \in Nat \ {0} /\ c.disputer \in Customers
    BY <1>1, <1>11, DisputeRecorded DEF ResolveDisputeWithRefund, Undecided
  <2>3. held' \in [Tokens -> Nat] /\ moved \in Nat
    BY <1>1, <2>1, <2>2, HeldAfter
  <2>4. RefundTypes'
    <3>1. "Completed" \in {"Pending", "Completed"}
      OBVIOUS
    <3>2. QED
      BY <1>1, <2>1, <2>2, <2>3, <3>1, IssueTypes
  <2>5. refundCounter + 1 \in RefundIds
    BY <2>1 DEF IssueRefund
  <2>6. dispute' = [dispute EXCEPT ![d] =
            [c EXCEPT !.status = "Resolved", !.refundId = refundCounter + 1]]
    BY <1>11 DEF ResolveDisputeWithRefund
  <2> HIDE DEF c
  <2>7. [c EXCEPT !.status = "Resolved", !.refundId = refundCounter + 1]
          \in DisputeRecord
    BY <2>2, <2>5 DEF DisputeRecord
  <2>8. DisputeTypes'
    BY <1>1, <1>11, <2>6, <2>7, DisputeSet DEF ResolveDisputeWithRefund
  <2>9. QED
    BY <1>1, <1>11, <2>3, <2>4, <2>8, SameTypes, TypePartsPrime
       DEF ResolveDisputeWithRefund
<1>12. ASSUME NEW d \in DisputeIds, RejectDispute(d)
       PROVE  TypeOK'
  <2>1. [dispute[d] EXCEPT !.status = "Rejected"] \in DisputeRecord
    BY <1>1, <1>12, DisputeRecorded DEF RejectDispute, Undecided, DisputeRecord
  <2>2. DisputeTypes'
    BY <1>1, <1>12, <2>1 DEF RejectDispute, DisputeTypes
  <2>3. QED
    BY <1>1, <1>12, <2>2, SameTypes, TypePartsPrime DEF RejectDispute
<1>13. ASSUME NEW d \in DisputeIds, NEW a \in Arbitrators, NEW token \in Tokens,
              NEW amount \in Stakes, LockStake(d, a, token, amount)
       PROVE  TypeOK'
  <2>1. amount \in Nat
    BY <1>13, RefundsAssumption DEF LockStake
  <2>2. VoteTypes'
    <3>1. stake' \in [DisputeIds -> Amounts(Nat)]
      BY <1>1, <1>13, <2>1 DEF LockStake, VoteTypes, Amounts
    <3>2. QED
      BY <1>1, <1>13, <3>1 DEF LockStake, VoteTypes
  <2>3. OtherTypes'
    BY <1>1, <1>13, <2>1 DEF LockStake
  <2>4. QED
    BY <1>1, <1>13, <2>2, <2>3, SameTypes, TypePartsPrime DEF LockStake
<1>14. ASSUME NEW d \in DisputeIds, NEW a \in Arbitrators,
              NEW choice \in {"Favour", "Against"}, CastVote(d, a, choice)
       PROVE  TypeOK'
  <2>1. stake[d][a] \in Nat /\ tally[d] \in [favour : Nat, against : Nat]
    BY <1>1 DEF VoteTypes, Amounts
  <2>2. tally' \in [DisputeIds -> [favour : Nat, against : Nat]]
    <3> DEFINE t == tally[d]
               f == IF choice = "Favour" THEN t.favour + stake[d][a] ELSE t.favour
               g == IF choice = "Against" THEN t.against + stake[d][a] ELSE t.against
    <3>1. tally' = [tally EXCEPT ![d] = [t EXCEPT !.favour = f, !.against = g]]
      BY <1>14 DEF CastVote
    <3>2. f \in Nat /\ g \in Nat /\ t \in [favour : Nat, against : Nat]
      BY <2>1
    <3> HIDE DEF t, f, g
    <3>3. [t EXCEPT !.favour = f, !.against = g] \in [favour : Nat, against : Nat]
      BY <3>2
    <3>4. QED
      BY <1>1, <3>1, <3>3 DEF VoteTypes
  <2>3. vote' \in [DisputeIds -> Amounts({"None", "Favour", "Against"})]
    BY <1>1, <1>14 DEF CastVote, VoteTypes, Amounts
  <2>4. VoteTypes'
    BY <1>1, <1>14, <2>2, <2>3 DEF CastVote, VoteTypes
  <2>5. QED
    BY <1>1, <1>14, <2>4, SameTypes, TypePartsPrime DEF CastVote
<1>15. ASSUME NEW d \in DisputeIds, NEW token \in Tokens,
              NEW listed \in SUBSET Arbitrators, FinalizeDisputeVote(d, token, listed)
       PROVE  TypeOK'
  <2> DEFINE c == dispute[d]
             S == Released(d, listed)
             left == held[token] - SumFunctionOnSet(stake[d], S)
             rest == [held EXCEPT ![token] = left]
             favour == Majority(d) = "Favour"
             s == IF favour THEN "Resolved" ELSE "Rejected"
  <2>1. /\ left \in Nat
        /\ ReleaseStakes(d, S)
        /\ dispute' = [dispute EXCEPT ![d].status = s]
        /\ Undecided(d)
        /\ UNCHANGED <<paymentAmount, disputeCounter, paymentDisputes, vote,
                       tally, now>>
    BY <1>15 DEF FinalizeDisputeVote
  <2>2. \/ \E moved \in Payouts(c.amount, rest[UsdcToken]) :
              /\ IssueRefund(c.payment, c.amount, c.disputer, "Completed", moved)
              /\ held' = [rest EXCEPT ![UsdcToken] = @ - moved]
        \/ held' = rest /\ UNCHANGED refundState
    BY <1>15 DEF FinalizeDisputeVote
  <2>3. s \in {"Open", "UnderReview", "Resolved", "Rejected"}
    OBVIOUS
  <2> HIDE DEF left, S, s, favour
  <2>4. rest \in [Tokens -> Nat]
    BY <1>1, <2>1
  <2>5. /\ c \in DisputeRecord /\ c.payment \in PaymentIds
        /\ c.amount \in Nat \ {0} /\ c.disputer \in Customers
    BY <1>1, <2>1, DisputeRecorded DEF Undecided
  <2>6. VoteTypes'
    BY <1>1, <2>1, ReleaseTypes
  <2>7. DisputeTypes'
    <3>1. dispute' = [dispute EXCEPT ![d] = [c EXCEPT !.status = s]]
      BY <2>1
    <3> HIDE DEF c
    <3>2. [c EXCEPT !.status = s] \in DisputeRecord
      BY <2>3, <2>5 DEF DisputeRecord
    <3>3. QED
      BY <1>1, <2>1, <3>1, <3>2, DisputeSet
  <2> HIDE DEF rest
  <2>8. CASE \E moved \in Payouts(c.amount, rest[UsdcToken]) :
                /\ IssueRefund(c.payment, c.amount, c.disputer, "Completed", moved)
                /\ held' = [rest EXCEPT ![UsdcToken] = @ - moved]
    <3>1. PICK moved \in Payouts(c.amount, rest[UsdcToken]) :
                /\ IssueRefund(c.payment, c.amount, c.disputer, "Completed", moved)
                /\ held' = [rest EXCEPT ![UsdcToken] = @ - moved]
      BY <2>8
    <3>2. held' \in [Tokens -> Nat] /\ moved \in Nat
      BY <1>1, <2>4, <2>5, <3>1, HeldAfter
    <3>3. "Completed" \in {"Pending", "Completed"}
      OBVIOUS
    <3>4. RefundTypes'
      BY <1>1, <2>5, <3>1, <3>2, <3>3, IssueTypes
    <3>5. QED
      BY <1>1, <2>1, <2>6, <2>7, <3>2, <3>4, TypePartsPrime
  <2>9. CASE held' = rest /\ UNCHANGED refundState
    BY <1>1, <2>1, <2>4, <2>6, <2>7, <2>9, SameTypes, TypePartsPrime
  <2>10. QED
    BY <2>2, <2>8, <2>9
<1>16. ASSUME NEW token \in Tokens, NEW amount \in Funds, Fund(token, amount)
       PROVE  TypeOK'
  <2>1. OtherTypes'
    BY <1>1, <1>16, RefundsAssumption DEF Fund
  <2>2. QED
    BY <1>1, <1>16, <2>1, SameTypes, TypePartsPrime DEF Fund
<1>17. ASSUME Tick PROVE TypeOK'
  BY <1>1, <1>17, SameTypes, TypePartsPrime DEF Tick
<1>18. QED
  BY <1>u, <1>2, <1>3, <1>4, <1>5, <1>6, <1>7, <1>8, <1>9, <1>10, <1>11, <1>12,
     <1>13, <1>14, <1>15, <1>16, <1>17 DEF Next
-----------------------------------------------------------------------------
(* The shapes of a step *)

\* What a step may do to the refunds.
NewRefund ==
    \E p \in PaymentIds, amount \in Nat \ {0}, who \in Customers,
       status \in {"Pending", "Completed"}, moved \in Nat :
        /\ Refundable(p, amount)
        /\ IssueRefund(p, amount, who, status, moved)
        /\ moved =< amount
        /\ status = "Pending" => moved = 0

SettleRefund(r, s) ==
    /\ refund[r].status = "Pending"
    /\ refund' = [refund EXCEPT ![r].status = s]
    /\ \A x \in RefundIds \ {r} : sent'[x] = sent[x]
    /\ sent'[r] > 0 => s = "Completed" /\ sent'[r] =< refund[r].amount
    /\ UNCHANGED <<refundCounter, paymentRefunds>>

DropRefund(r) ==
    /\ refund[r].status = "Pending"
    /\ refund' = [refund EXCEPT ![r] = NoRefund]
    /\ paymentRefunds' = [paymentRefunds EXCEPT ![refund[r].payment] = @ \ {r}]
    /\ UNCHANGED <<refundCounter, sent>>

RefundStep ==
    \/ UNCHANGED refundState
    \/ NewRefund
    \/ \E r \in RefundIds : \E s \in {"Completed", "Rejected"} : SettleRefund(r, s)
    \/ \E r \in RefundIds : DropRefund(r)

\* What a step may do to the disputes.
NewDispute(d, p, amount, who) ==
    /\ d = disputeCounter + 1
    /\ d \in DisputeIds
    /\ disputeCounter' = d
    /\ dispute' = [dispute EXCEPT ![d] =
           [payment |-> p, amount |-> amount, disputer |-> who, status |-> "Open",
            refundId |-> None, deadline |-> None, escalated |-> FALSE]]
    /\ paymentDisputes' = [paymentDisputes EXCEPT ![p] = @ \cup {d}]

ChangeDispute(d, x) ==
    /\ Undecided(d)
    /\ dispute' = [dispute EXCEPT ![d] = x]
    /\ UNCHANGED <<disputeCounter, paymentDisputes>>
    /\ x.payment = dispute[d].payment
    /\ x.amount = dispute[d].amount
    /\ x.disputer = dispute[d].disputer
    /\ x.status # "None"
    /\ \/ x.refundId = dispute[d].refundId
       \/ /\ x.refundId = refundCounter + 1
          /\ x.status = "Resolved"
          /\ \E moved \in Nat :
                IssueRefund(x.payment, x.amount, x.disputer, "Completed", moved)

DisputeStep ==
    \/ UNCHANGED disputeState
    \/ \E d \in DisputeIds, p \in PaymentIds, amount \in Nat \ {0}, who \in Customers :
          NewDispute(d, p, amount, who)
    \/ \E d \in DisputeIds : \E x \in DisputeRecord : ChangeDispute(d, x)

\* What a step may do to the stakes.
VoteStep ==
    \/ UNCHANGED voteState
    \/ \E d \in DisputeIds, a \in Arbitrators, token \in Tokens, amount \in Stakes :
          LockStake(d, a, token, amount)
    \/ \E d \in DisputeIds, a \in Arbitrators, choice \in {"Favour", "Against"} :
          CastVote(d, a, choice)
    \/ \E d \in DisputeIds, token \in Tokens, listed \in SUBSET Arbitrators :
          FinalizeDisputeVote(d, token, listed)
-----------------------------------------------------------------------------
(* Every step has these shapes *)

\* A payout is a possible "moved" of a Completed refund.
LEMMA PayoutShape ==
  ASSUME OtherTypes, NEW p \in PaymentIds, NEW amount \in Nat \ {0},
         NEW who \in Customers, NEW f \in [Tokens -> Nat],
         NEW moved \in Payouts(amount, f[UsdcToken]), Refundable(p, amount),
         IssueRefund(p, amount, who, "Completed", moved)
  PROVE  NewRefund /\ moved \in Nat
<1>1. f[UsdcToken] \in Nat
  BY RefundsAssumption
<1>2. moved \in Nat /\ moved =< amount
  BY <1>1, PayoutFacts
<1>3. "Completed" \in {"Pending", "Completed"}
  OBVIOUS
<1>4. QED
  BY <1>2, <1>3 DEF NewRefund

LEMMA RefundShapes ==
  ASSUME TypeOK, PaidIsRecorded, [Next]_vars
  PROVE  RefundStep
<1>1. RefundTypes /\ DisputeTypes /\ VoteTypes /\ OtherTypes
  BY TypeParts
<1>2. CASE UNCHANGED refundState
  BY <1>2 DEF RefundStep
<1>3. ASSUME NEW p \in PaymentIds, NEW amount \in RefundAmounts, NEW who \in Customers,
             CreateRefund(p, amount, who)
      PROVE  NewRefund
  <2>1. amount \in Nat \ {0} /\ 0 =< amount
    BY <1>3, RefundsAssumption DEF CreateRefund, Refundable
  <2>2. "Pending" \in {"Pending", "Completed"} /\ 0 \in Nat
    OBVIOUS
  <2>3. IssueRefund(p, amount, who, "Pending", 0) /\ Refundable(p, amount)
    BY <1>3 DEF CreateRefund
  <2>4. QED
    BY <2>1, <2>2, <2>3 DEF NewRefund
<1>4. ASSUME NEW r \in RefundIds, ProcessRefund(r)
      PROVE  SettleRefund(r, "Completed")
  <2>1. PICK moved \in Payouts(refund[r].amount, held[UsdcToken]) :
           /\ sent' = [sent EXCEPT ![r] = moved]
           /\ held' = [held EXCEPT ![UsdcToken] = @ - moved]
    BY <1>4 DEF ProcessRefund
  <2>2. refund[r].amount \in Nat /\ held[UsdcToken] \in Nat
    BY <1>1, <1>4, RefundRecorded, RefundsAssumption DEF ProcessRefund, OtherTypes
  <2>3. moved =< refund[r].amount
    BY <2>2, PayoutFacts
  <2>4. QED
    BY <1>1, <1>4, <2>1, <2>3 DEF ProcessRefund, SettleRefund, RefundTypes
<1>5. ASSUME NEW r \in RefundIds, RejectRefund(r)
      PROVE  SettleRefund(r, "Rejected")
  BY <1>5 DEF RejectRefund, SettleRefund, PaidIsRecorded
<1>6. ASSUME NEW r \in RefundIds, CancelRefund(r)
      PROVE  DropRefund(r)
  BY <1>6 DEF CancelRefund, DropRefund
<1>7. ASSUME NEW d \in DisputeIds, ResolveDisputeWithRefund(d)
      PROVE  NewRefund
  <2>1. PICK moved \in Payouts(dispute[d].amount, held[UsdcToken]) :
           IssueRefund(dispute[d].payment, dispute[d].amount, dispute[d].disputer,
                       "Completed", moved)
    BY <1>7 DEF ResolveDisputeWithRefund
  <2>2. Refundable(dispute[d].payment, dispute[d].amount)
    BY <1>7 DEF ResolveDisputeWithRefund
  <2>3. /\ dispute[d].payment \in PaymentIds /\ dispute[d].amount \in Nat \ {0}
        /\ dispute[d].disputer \in Customers
    BY <1>1, <1>7, DisputeRecorded DEF ResolveDisputeWithRefund, Undecided
  <2>4. held \in [Tokens -> Nat]
    BY <1>1 DEF OtherTypes
  <2>5. QED
    BY <1>1, <2>1, <2>2, <2>3, <2>4, PayoutShape
<1>8. ASSUME NEW d \in DisputeIds, NEW token \in Tokens,
             NEW listed \in SUBSET Arbitrators, FinalizeDisputeVote(d, token, listed)
      PROVE  NewRefund \/ UNCHANGED refundState
  <2> DEFINE left == held[token] - SumFunctionOnSet(stake[d], Released(d, listed))
             rest == [held EXCEPT ![token] = left]
  <2>1. left \in Nat /\ Undecided(d)
    BY <1>8 DEF FinalizeDisputeVote
  <2>2. \/ /\ Refundable(dispute[d].payment, dispute[d].amount)
           /\ \E moved \in Payouts(dispute[d].amount, rest[UsdcToken]) :
                 IssueRefund(dispute[d].payment, dispute[d].amount, dispute[d].disputer,
                             "Completed", moved)
        \/ UNCHANGED refundState
    BY <1>8 DEF FinalizeDisputeVote
  <2> HIDE DEF left
  <2>3. rest \in [Tokens -> Nat]
    BY <1>1, <2>1 DEF OtherTypes
  <2>4. /\ dispute[d].payment \in PaymentIds /\ dispute[d].amount \in Nat \ {0}
        /\ dispute[d].disputer \in Customers
    BY <1>1, <2>1, DisputeRecorded DEF Undecided
  <2> HIDE DEF rest
  <2>5. QED
    BY <1>1, <2>2, <2>3, <2>4, PayoutShape
<1>9. ASSUME NEW p \in PaymentIds, NEW amount \in PaymentAmounts, RegisterPayment(p, amount)
      PROVE  UNCHANGED refundState
  BY <1>9 DEF RegisterPayment, refundState
<1>10. ASSUME NEW p \in PaymentIds, NEW amount \in RefundAmounts, NEW who \in Customers,
             CreateDispute(p, amount, who)
      PROVE  UNCHANGED refundState
  BY <1>10 DEF CreateDispute, refundState
<1>11. ASSUME NEW d \in DisputeIds, ReviewDispute(d)
      PROVE  UNCHANGED refundState
  BY <1>11 DEF ReviewDispute, refundState
<1>12. ASSUME NEW d \in DisputeIds, NEW deadline \in Deadlines, SetDisputeDeadline(d, deadline)
      PROVE  UNCHANGED refundState
  BY <1>12 DEF SetDisputeDeadline, refundState
<1>13. ASSUME NEW d \in DisputeIds, EscalateOnRead(d)
      PROVE  UNCHANGED refundState
  BY <1>13 DEF EscalateOnRead, refundState
<1>14. ASSUME NEW d \in DisputeIds, RejectDispute(d)
      PROVE  UNCHANGED refundState
  BY <1>14 DEF RejectDispute, refundState
<1>15. ASSUME NEW d \in DisputeIds, NEW a \in Arbitrators, NEW token \in Tokens,
             NEW amount \in Stakes, LockStake(d, a, token, amount)
      PROVE  UNCHANGED refundState
  BY <1>15 DEF LockStake, refundState
<1>16. ASSUME NEW d \in DisputeIds, NEW a \in Arbitrators,
             NEW choice \in {"Favour", "Against"}, CastVote(d, a, choice)
      PROVE  UNCHANGED refundState
  BY <1>16 DEF CastVote, refundState
<1>17. ASSUME NEW token \in Tokens, NEW amount \in Funds, Fund(token, amount)
      PROVE  UNCHANGED refundState
  BY <1>17 DEF Fund, refundState
<1>18. ASSUME Tick
      PROVE  UNCHANGED refundState
  BY <1>18 DEF Tick, refundState
<1>19. CASE UNCHANGED vars
  BY <1>19 DEF vars, refundState, RefundStep
<1>20. /\ NewRefund => RefundStep
       /\ UNCHANGED refundState => RefundStep
       /\ \A r \in RefundIds : SettleRefund(r, "Completed") => RefundStep
       /\ \A r \in RefundIds : SettleRefund(r, "Rejected") => RefundStep
       /\ \A r \in RefundIds : DropRefund(r) => RefundStep
  BY DEF RefundStep
<1> HIDE DEF refundState, NewRefund, RefundStep
<1>21. QED
  BY <1>2, <1>3, <1>4, <1>5, <1>6, <1>7, <1>8, <1>9, <1>10, <1>11, <1>12, <1>13,
     <1>14, <1>15, <1>16, <1>17, <1>18, <1>19, <1>20 DEF Next

\* The status of a dispute changes, its refund does not.
LEMMA StatusShape ==
  ASSUME DisputeTypes, NEW d \in DisputeIds, Undecided(d),
         NEW x \in DisputeRecord, x.payment = dispute[d].payment,
         x.amount = dispute[d].amount, x.disputer = dispute[d].disputer,
         x.refundId = dispute[d].refundId,
         dispute' = [dispute EXCEPT ![d] = x],
         UNCHANGED <<disputeCounter, paymentDisputes>>
  PROVE  DisputeStep
<1>1. x.status # "None"
  BY DEF DisputeRecord
<1>2. ChangeDispute(d, x)
  BY <1>1 DEF ChangeDispute
<1>3. QED
  BY <1>2 DEF DisputeStep

\* What EXCEPT leaves of a dispute's record.
LEMMA StatusForm ==
  ASSUME NEW c \in DisputeRecord, NEW s \in {"Open", "UnderReview", "Resolved", "Rejected"}
  PROVE  /\ [c EXCEPT !.status = s] \in DisputeRecord
         /\ [c EXCEPT !.status = s].payment = c.payment
         /\ [c EXCEPT !.status = s].amount = c.amount
         /\ [c EXCEPT !.status = s].disputer = c.disputer
         /\ [c EXCEPT !.status = s].refundId = c.refundId
BY DEF DisputeRecord

LEMMA EscalatedForm ==
  ASSUME NEW c \in DisputeRecord, NEW b \in BOOLEAN
  PROVE  /\ [c EXCEPT !.escalated = b] \in DisputeRecord
         /\ [c EXCEPT !.escalated = b].payment = c.payment
         /\ [c EXCEPT !.escalated = b].amount = c.amount
         /\ [c EXCEPT !.escalated = b].disputer = c.disputer
         /\ [c EXCEPT !.escalated = b].refundId = c.refundId
BY DEF DisputeRecord

LEMMA ResolvedForm ==
  ASSUME NEW c \in DisputeRecord, NEW r \in RefundIds
  PROVE  /\ [c EXCEPT !.status = "Resolved", !.refundId = r] \in DisputeRecord
         /\ [c EXCEPT !.status = "Resolved", !.refundId = r].payment = c.payment
         /\ [c EXCEPT !.status = "Resolved", !.refundId = r].amount = c.amount
         /\ [c EXCEPT !.status = "Resolved", !.refundId = r].disputer = c.disputer
         /\ [c EXCEPT !.status = "Resolved", !.refundId = r].status = "Resolved"
         /\ [c EXCEPT !.status = "Resolved", !.refundId = r].refundId = r
BY DEF DisputeRecord

\* A step that sets only the status of an undecided dispute.
LEMMA OnlyStatus ==
  ASSUME DisputeTypes, NEW d \in DisputeIds, Undecided(d),
         NEW s \in {"Open", "UnderReview", "Resolved", "Rejected"},
         dispute' = [dispute EXCEPT ![d].status = s],
         UNCHANGED <<disputeCounter, paymentDisputes>>
  PROVE  DisputeStep
<1> DEFINE x == [dispute[d] EXCEPT !.status = s]
<1>1. dispute[d] \in DisputeRecord
  BY DisputeRecorded DEF Undecided
<1>2. /\ x \in DisputeRecord /\ x.payment = dispute[d].payment
      /\ x.amount = dispute[d].amount /\ x.disputer = dispute[d].disputer
      /\ x.refundId = dispute[d].refundId
  BY <1>1, StatusForm
<1>3. dispute' = [dispute EXCEPT ![d] = x]
  OBVIOUS
<1> HIDE DEF x
<1>4. QED
  BY <1>2, <1>3, StatusShape

LEMMA DisputeShapes ==
  ASSUME TypeOK, [Next]_vars
  PROVE  DisputeStep
<1>1. RefundTypes /\ DisputeTypes /\ VoteTypes /\ OtherTypes
  BY TypeParts
<1>2. ASSUME NEW p \in PaymentIds, NEW amount \in RefundAmounts, NEW who \in Customers,
             CreateDispute(p, amount, who)
      PROVE  DisputeStep
  <2>1. amount \in Nat \ {0}
    BY <1>2, RefundsAssumption DEF CreateDispute
  <2>2. PICK d \in DisputeIds : d = disputeCounter + 1
    BY <1>2 DEF CreateDispute
  <2>3. NewDispute(d, p, amount, who)
    BY <1>2, <2>2 DEF CreateDispute, NewDispute
  <2>4. QED
    BY <2>1, <2>3 DEF DisputeStep
<1>3. ASSUME NEW d \in DisputeIds, ReviewDispute(d)
      PROVE  DisputeStep
  BY <1>1, <1>3, OnlyStatus DEF ReviewDispute, Undecided
<1>4. ASSUME NEW d \in DisputeIds, NEW deadline \in Deadlines,
             SetDisputeDeadline(d, deadline)
      PROVE  DisputeStep
  <2>1. dispute[d] \in DisputeRecord
    BY <1>1, <1>4, DisputeRecorded DEF SetDisputeDeadline, Undecided
  <2>2. PICK b \in BOOLEAN : b = (dispute[d].escalated \/ now > deadline)
    OBVIOUS
  <2> DEFINE x == [dispute[d] EXCEPT !.deadline = deadline, !.escalated = b]
  <2>3. dispute' = [dispute EXCEPT ![d] = x]
    BY <1>4, <2>2 DEF SetDisputeDeadline
  <2>4. deadline \in Nat
    BY RefundsAssumption
  <2>5. /\ x \in DisputeRecord /\ x.payment = dispute[d].payment
        /\ x.amount = dispute[d].amount /\ x.disputer = dispute[d].disputer
        /\ x.refundId = dispute[d].refundId
    <3> DEFINE c == dispute[d]
    <3>1. c \in DisputeRecord
      BY <2>1
    <3>2. x = [c EXCEPT !.deadline = deadline, !.escalated = b]
      OBVIOUS
    <3> HIDE DEF c, x
    <3>3. /\ x \in DisputeRecord /\ x.payment = c.payment /\ x.amount = c.amount
          /\ x.disputer = c.disputer /\ x.refundId = c.refundId
      BY <2>4, <3>1, <3>2 DEF DisputeRecord
    <3>4. QED
      BY <3>3 DEF c
  <2> HIDE DEF x
  <2>6. QED
    BY <1>1, <1>4, <2>3, <2>5, StatusShape DEF SetDisputeDeadline
<1>5. ASSUME NEW d \in DisputeIds, EscalateOnRead(d)
      PROVE  DisputeStep
  <2> DEFINE x == [dispute[d] EXCEPT !.escalated = TRUE]
  <2>1. dispute[d] \in DisputeRecord
    BY <1>1, <1>5, DisputeRecorded DEF EscalateOnRead, Undecided
  <2>2. dispute' = [dispute EXCEPT ![d] = x]
    BY <1>5 DEF EscalateOnRead
  <2>3. /\ x \in DisputeRecord /\ x.payment = dispute[d].payment
        /\ x.amount = dispute[d].amount /\ x.disputer = dispute[d].disputer
        /\ x.refundId = dispute[d].refundId
    BY <2>1, EscalatedForm
  <2> HIDE DEF x
  <2>4. QED
    BY <1>1, <1>5, <2>2, <2>3, StatusShape DEF EscalateOnRead
<1>6. ASSUME NEW d \in DisputeIds, ResolveDisputeWithRefund(d)
      PROVE  DisputeStep
  <2> DEFINE c == dispute[d]
             x == [c EXCEPT !.status = "Resolved", !.refundId = refundCounter + 1]
  <2>1. PICK moved \in Payouts(c.amount, held[UsdcToken]) :
           IssueRefund(c.payment, c.amount, c.disputer, "Completed", moved)
    BY <1>6 DEF ResolveDisputeWithRefund
  <2>2. c \in DisputeRecord /\ c.amount \in Nat
    BY <1>1, <1>6, DisputeRecorded DEF ResolveDisputeWithRefund, Undecided
  <2>3. moved \in Nat
    BY <1>1, <2>2, PayoutFacts, RefundsAssumption DEF OtherTypes
  <2>4. refundCounter + 1 \in RefundIds
    BY <2>1 DEF IssueRefund
  <2>5. dispute' = [dispute EXCEPT ![d] = x]
    BY <1>6 DEF ResolveDisputeWithRefund
  <2>6. /\ x \in DisputeRecord /\ x.payment = c.payment
        /\ x.amount = c.amount /\ x.disputer = c.disputer
        /\ x.status = "Resolved" /\ x.refundId = refundCounter + 1
    BY <2>2, <2>4, ResolvedForm
  <2> HIDE DEF x
  <2>7. \E y \in Nat : IssueRefund(x.payment, x.amount, x.disputer, "Completed", y)
    BY <2>1, <2>3, <2>6
  <2>8. ChangeDispute(d, x)
    <3>1. Undecided(d) /\ UNCHANGED <<disputeCounter, paymentDisputes>>
      BY <1>6 DEF ResolveDisputeWithRefund
    <3>2. x.status # "None"
      BY <2>6
    <3>3. QED
      BY <3>1, <3>2, <2>5, <2>6, <2>7 DEF ChangeDispute
  <2>9. QED
    BY <2>6, <2>8 DEF DisputeStep
<1>7. ASSUME NEW d \in DisputeIds, RejectDispute(d)
      PROVE  DisputeStep
  BY <1>1, <1>7, OnlyStatus DEF RejectDispute
<1>8. ASSUME NEW d \in DisputeIds, NEW token \in Tokens,
             NEW listed \in SUBSET Arbitrators, FinalizeDisputeVote(d, token, listed)
      PROVE  DisputeStep
  <2> DEFINE s == IF Majority(d) = "Favour" THEN "Resolved" ELSE "Rejected"
  <2>1. /\ dispute' = [dispute EXCEPT ![d].status = s]
        /\ Undecided(d)
        /\ UNCHANGED <<disputeCounter, paymentDisputes>>
    BY <1>8 DEF FinalizeDisputeVote
  <2>2. s \in {"Open", "UnderReview", "Resolved", "Rejected"}
    OBVIOUS
  <2> HIDE DEF s
  <2>3. QED
    BY <1>1, <2>1, <2>2, OnlyStatus
<1>9. ASSUME NEW p \in PaymentIds, NEW amount \in PaymentAmounts, RegisterPayment(p, amount)
      PROVE  UNCHANGED disputeState
  BY <1>9 DEF RegisterPayment, disputeState
<1>10. ASSUME NEW p \in PaymentIds, NEW amount \in RefundAmounts, NEW who \in Customers,
              CreateRefund(p, amount, who)
       PROVE  UNCHANGED disputeState
  BY <1>10 DEF CreateRefund, disputeState
<1>11. ASSUME NEW r \in RefundIds, ProcessRefund(r) \/ RejectRefund(r) \/ CancelRefund(r)
       PROVE  UNCHANGED disputeState
  BY <1>11 DEF ProcessRefund, RejectRefund, CancelRefund, disputeState
<1>12. ASSUME NEW d \in DisputeIds, NEW a \in Arbitrators, NEW token \in Tokens,
              NEW amount \in Stakes, LockStake(d, a, token, amount)
       PROVE  UNCHANGED disputeState
  BY <1>12 DEF LockStake, disputeState
<1>13. ASSUME NEW d \in DisputeIds, NEW a \in Arbitrators,
              NEW choice \in {"Favour", "Against"}, CastVote(d, a, choice)
       PROVE  UNCHANGED disputeState
  BY <1>13 DEF CastVote, disputeState
<1>14. ASSUME NEW token \in Tokens, NEW amount \in Funds, Fund(token, amount)
       PROVE  UNCHANGED disputeState
  BY <1>14 DEF Fund, disputeState
<1>15. Tick \/ UNCHANGED vars => UNCHANGED disputeState
  BY DEF Tick, vars, disputeState
<1>16. UNCHANGED disputeState => DisputeStep
  BY DEF DisputeStep
<1> HIDE DEF disputeState, DisputeStep
<1>17. QED
  BY <1>2, <1>3, <1>4, <1>5, <1>6, <1>7, <1>8, <1>9, <1>10, <1>11, <1>12, <1>13,
     <1>14, <1>15, <1>16 DEF Next

LEMMA VoteShapes ==
  ASSUME [Next]_vars
  PROVE  VoteStep
<1>1. ASSUME NEW p \in PaymentIds, NEW amount \in PaymentAmounts, RegisterPayment(p, amount)
      PROVE  UNCHANGED voteState
  BY <1>1 DEF RegisterPayment, voteState
<1>2. ASSUME NEW p \in PaymentIds, NEW amount \in RefundAmounts, NEW who \in Customers,
             CreateRefund(p, amount, who) \/ CreateDispute(p, amount, who)
      PROVE  UNCHANGED voteState
  BY <1>2 DEF CreateRefund, CreateDispute, voteState
<1>3. ASSUME NEW r \in RefundIds, ProcessRefund(r) \/ RejectRefund(r) \/ CancelRefund(r)
      PROVE  UNCHANGED voteState
  BY <1>3 DEF ProcessRefund, RejectRefund, CancelRefund, voteState
<1>4. ASSUME NEW d \in DisputeIds, NEW deadline \in Deadlines,
             SetDisputeDeadline(d, deadline)
      PROVE  UNCHANGED voteState
  BY <1>4 DEF SetDisputeDeadline, voteState
<1>5. ASSUME NEW d \in DisputeIds,
             \/ ReviewDispute(d) \/ EscalateOnRead(d)
             \/ ResolveDisputeWithRefund(d) \/ RejectDispute(d)
      PROVE  UNCHANGED voteState
  BY <1>5 DEF ReviewDispute, EscalateOnRead, ResolveDisputeWithRefund, RejectDispute,
              voteState
<1>6. ASSUME NEW token \in Tokens, NEW amount \in Funds, Fund(token, amount)
      PROVE  UNCHANGED voteState
  BY <1>6 DEF Fund, voteState
<1>7. Tick \/ UNCHANGED vars => UNCHANGED voteState
  BY DEF Tick, vars, voteState
<1>8. UNCHANGED voteState => VoteStep
  BY DEF VoteStep
<1>9. ASSUME NEW d \in DisputeIds, NEW a \in Arbitrators, NEW token \in Tokens,
             NEW amount \in Stakes, LockStake(d, a, token, amount)
      PROVE  VoteStep
  BY <1>9 DEF VoteStep
<1>10. ASSUME NEW d \in DisputeIds, NEW a \in Arbitrators,
              NEW choice \in {"Favour", "Against"}, CastVote(d, a, choice)
       PROVE  VoteStep
  BY <1>10 DEF VoteStep
<1>11. ASSUME NEW d \in DisputeIds, NEW token \in Tokens,
              NEW listed \in SUBSET Arbitrators, FinalizeDisputeVote(d, token, listed)
       PROVE  VoteStep
  BY <1>11 DEF VoteStep
<1> HIDE DEF voteState, VoteStep
<1>12. QED
  BY <1>1, <1>2, <1>3, <1>4, <1>5, <1>6, <1>7, <1>8, <1>9, <1>10, <1>11 DEF Next
-----------------------------------------------------------------------------
(* The shapes keep the invariant *)

\* The refunds' part of the invariant, one refund at a time.
RefundPart ==
    /\ \A r \in RefundIds : r > refundCounter => refund[r].status = "None"
    /\ PaidIsRecorded
    /\ \A p \in PaymentIds : \A r \in RefundIds :
           r \in paymentRefunds[p] <=> refund[r].status # "None" /\ refund[r].payment = p

\* A settled refund is not touched.
RefundsKept ==
    \A r \in RefundIds :
        refund[r].status \in {"Completed", "Rejected"} => refund'[r] = refund[r]

LEMMA RefundsPreserved ==
  ASSUME RefundTypes, RefundTypes', RefundPart, RefundStep
  PROVE  RefundPart' /\ RefundsKept
<1>1. CASE UNCHANGED refundState
  BY <1>1 DEF refundState, RefundPart, RefundsKept, PaidIsRecorded
<1>2. ASSUME NEW p \in PaymentIds, NEW amount \in Nat \ {0}, NEW who \in Customers,
             NEW status \in {"Pending", "Completed"}, NEW moved \in Nat,
             IssueRefund(p, amount, who, status, moved), moved =< amount,
             status = "Pending" => moved = 0
      PROVE  RefundPart' /\ RefundsKept
  <2> DEFINE n == refundCounter + 1
  <2>1. n \in RefundIds /\ n > refundCounter /\ refundCounter' = n
    BY <1>2 DEF IssueRefund, RefundTypes
  <2>2. refund[n].status = "None" /\ sent[n] = 0
    BY <2>1 DEF RefundPart, PaidIsRecorded, RefundTypes
  <2>3. /\ refund'[n].status = status /\ refund'[n].payment = p
        /\ refund'[n].amount = amount /\ sent'[n] = moved
    BY <1>2, <2>1 DEF IssueRefund, RefundTypes
  <2>4. \A r \in RefundIds : r # n => refund'[r] = refund[r] /\ sent'[r] = sent[r]
    BY <1>2 DEF IssueRefund, RefundTypes
  <2>5. \A q \in PaymentIds :
           paymentRefunds'[q] = IF q = p THEN paymentRefunds[q] \cup {n}
                                ELSE paymentRefunds[q]
    BY <1>2 DEF IssueRefund, RefundTypes
  <2> HIDE DEF n
  <2>6. RefundsKept
    BY <2>2, <2>4 DEF RefundsKept
  <2>7. \A r \in RefundIds : r > refundCounter' => refund'[r].status = "None"
    BY <2>1, <2>4 DEF RefundPart, RefundTypes, RefundIds, n
  <2>8. PaidIsRecorded'
    BY <1>2, <2>3, <2>4 DEF RefundPart, PaidIsRecorded
  <2>9. ASSUME NEW q \in PaymentIds, NEW r \in RefundIds
        PROVE  r \in paymentRefunds'[q] <=>
                   refund'[r].status # "None" /\ refund'[r].payment = q
    <3>0. /\ r \in paymentRefunds[q] <=> refund[r].status # "None" /\ refund[r].payment = q
          /\ paymentRefunds'[q] = IF q = p THEN paymentRefunds[q] \cup {n}
                                  ELSE paymentRefunds[q]
      BY <2>5 DEF RefundPart
    <3>1. CASE r = n
      BY <1>2, <2>2, <2>3, <3>0, <3>1
    <3>2. CASE r # n
      BY <2>4, <3>0, <3>2
    <3>3. QED
      BY <3>1, <3>2
  <2>10. QED
    BY <2>6, <2>7, <2>8, <2>9 DEF RefundPart
<1>3. ASSUME NEW r \in RefundIds, NEW s \in {"Completed", "Rejected"}, SettleRefund(r, s)
      PROVE  RefundPart' /\ RefundsKept
  <2>1. refund[r] \in RefundRecord
    BY <1>3, RefundRecorded DEF SettleRefund
  <2>2. /\ refund'[r].status = s /\ refund'[r].payment = refund[r].payment
        /\ refund'[r].amount = refund[r].amount
    BY <1>3, <2>1 DEF SettleRefund, RefundTypes, RefundRecord
  <2>3. \A x \in RefundIds : x # r => refund'[x] = refund[x] /\ sent'[x] = sent[x]
    BY <1>3 DEF SettleRefund, RefundTypes
  <2>4. RefundsKept
    BY <1>3, <2>3 DEF RefundsKept, SettleRefund
  <2>5. \A x \in RefundIds : x > refundCounter' => refund'[x].status = "None"
    BY <1>3, <2>3 DEF RefundPart, SettleRefund
  <2>6. PaidIsRecorded'
    BY <1>3, <2>2, <2>3 DEF RefundPart, PaidIsRecorded, SettleRefund
  <2>7. ASSUME NEW q \in PaymentIds, NEW x \in RefundIds
        PROVE  x \in paymentRefunds'[q] <=>
                   refund'[x].status # "None" /\ refund'[x].payment = q
    BY <1>3, <2>2, <2>3 DEF RefundPart, SettleRefund
  <2>8. QED
    BY <2>4, <2>5, <2>6, <2>7 DEF RefundPart
<1>4. ASSUME NEW r \in RefundIds, DropRefund(r)
      PROVE  RefundPart' /\ RefundsKept
  <2>1. refund[r].payment \in PaymentIds
    BY <1>4, RefundRecorded DEF DropRefund
  <2>2. refund'[r].status = "None"
    BY <1>4 DEF DropRefund, RefundTypes, NoRefund
  <2>3. \A x \in RefundIds : x # r => refund'[x] = refund[x]
    BY <1>4 DEF DropRefund, RefundTypes
  <2>4. \A q \in PaymentIds :
           paymentRefunds'[q] = IF q = refund[r].payment THEN paymentRefunds[q] \ {r}
                                ELSE paymentRefunds[q]
    BY <1>4, <2>1 DEF DropRefund, RefundTypes
  <2>5. RefundsKept
    BY <1>4, <2>3 DEF RefundsKept, DropRefund
  <2>6. \A x \in RefundIds : x > refundCounter' => refund'[x].status = "None"
    BY <1>4, <2>2, <2>3 DEF RefundPart, DropRefund
  <2>7. PaidIsRecorded'
    BY <1>4, <2>2, <2>3 DEF RefundPart, PaidIsRecorded, DropRefund
  <2>8. ASSUME NEW q \in PaymentIds, NEW x \in RefundIds
        PROVE  x \in paymentRefunds'[q] <=>
                   refund'[x].status # "None" /\ refund'[x].payment = q
    <3>0. /\ x \in paymentRefunds[q] <=> refund[x].status # "None" /\ refund[x].payment = q
          /\ paymentRefunds'[q] = IF q = refund[r].payment THEN paymentRefunds[q] \ {r}
                                  ELSE paymentRefunds[q]
      BY <2>4 DEF RefundPart
    <3>1. CASE x = r
      BY <2>2, <3>0, <3>1
    <3>2. CASE x # r
      BY <2>3, <3>0, <3>2
    <3>3. QED
      BY <3>1, <3>2
  <2>9. QED
    BY <2>5, <2>6, <2>7, <2>8 DEF RefundPart
<1>5. CASE NewRefund
  BY <1>2, <1>5 DEF NewRefund
<1>6. QED
  BY <1>1, <1>3, <1>4, <1>5 DEF RefundStep

\* The disputes' part, together with what it needs of the refunds.
DisputePart ==
    /\ \A d \in DisputeIds : d > disputeCounter => dispute[d].status = "None"
    /\ \A p \in PaymentIds : \A d \in DisputeIds :
           d \in paymentDisputes[p] <=> dispute[d].status # "None" /\ dispute[d].payment = p
    /\ DisputeNamesItsRefund

DisputesKept == \A d \in DisputeIds : Decided(d) => dispute'[d] = dispute[d]

\* DisputeNamesItsRefund for two disputes, given as records: f is the refunds.
NamesRefund(f, c) ==
    c.status # "None" /\ c.refundId # None =>
        /\ c.status = "Resolved"
        /\ f[c.refundId].status = "Completed"
        /\ f[c.refundId].payment = c.payment
        /\ f[c.refundId].amount = c.amount
        /\ f[c.refundId].requester = c.disputer

Apart(c, e) ==
    c.status # "None" /\ c.refundId # None /\ e.status # "None" => e.refundId # c.refundId

LEMMA NamesParts ==
  DisputeNamesItsRefund <=>
      \A d \in DisputeIds :
          /\ NamesRefund(refund, dispute[d])
          /\ \A e \in DisputeIds \ {d} : Apart(dispute[d], dispute[e])
BY DEF DisputeNamesItsRefund, Grants, NamesRefund, Apart

LEMMA NamesPartsPrime ==
  DisputeNamesItsRefund' <=>
      \A d \in DisputeIds :
          /\ NamesRefund(refund', dispute'[d])
          /\ \A e \in DisputeIds \ {d} : Apart(dispute'[d], dispute'[e])
BY DEF DisputeNamesItsRefund, Grants, NamesRefund, Apart

\* A refund that a dispute names is still there after the step.
LEMMA NamesKept ==
  ASSUME DisputeTypes, RefundsKept, NEW d \in DisputeIds, NamesRefund(refund, dispute[d])
  PROVE  NamesRefund(refund', dispute[d])
<1>1. CASE dispute[d].status # "None" /\ dispute[d].refundId # None
  <2>1. dispute[d].refundId \in RefundIds
    BY <1>1, DisputeRecorded
  <2>2. refund'[dispute[d].refundId] = refund[dispute[d].refundId]
    BY <1>1, <2>1 DEF NamesRefund, RefundsKept
  <2>3. QED
    BY <2>2 DEF NamesRefund
<1>2. CASE ~(dispute[d].status # "None" /\ dispute[d].refundId # None)
  BY <1>2 DEF NamesRefund
<1>3. QED
  BY <1>1, <1>2

LEMMA DisputesPreserved ==
  ASSUME RefundTypes, DisputeTypes, DisputeTypes', RefundPart, RefundsKept,
         DisputePart, DisputeStep
  PROVE  DisputePart' /\ DisputesKept
<1>1. \A d \in DisputeIds : NamesRefund(refund', dispute[d])
  BY NamesKept, NamesParts DEF DisputePart
<1>2. \A d \in DisputeIds : \A e \in DisputeIds \ {d} : Apart(dispute[d], dispute[e])
  BY NamesParts DEF DisputePart
<1>3. CASE UNCHANGED disputeState
  <2>1. DisputeNamesItsRefund'
    BY <1>1, <1>2, <1>3, NamesPartsPrime DEF disputeState
  <2>2. QED
    BY <1>3, <2>1 DEF disputeState, DisputePart, DisputesKept
<1>4. ASSUME NEW n \in DisputeIds, NEW p \in PaymentIds, NEW amount \in Nat \ {0},
             NEW who \in Customers, NewDispute(n, p, amount, who)
      PROVE  DisputePart' /\ DisputesKept
  <2>1. n > disputeCounter /\ disputeCounter' = n /\ disputeCounter \in Nat
    BY <1>4 DEF NewDispute, DisputeTypes
  <2>2. dispute[n].status = "None"
    BY <2>1 DEF DisputePart
  <2>3. /\ dispute'[n].status = "Open" /\ dispute'[n].payment = p
        /\ dispute'[n].refundId = None
    BY <1>4 DEF NewDispute, DisputeTypes
  <2>4. \A d \in DisputeIds : d # n => dispute'[d] = dispute[d]
    BY <1>4 DEF NewDispute, DisputeTypes
  <2>5. \A q \in PaymentIds :
           paymentDisputes'[q] = IF q = p THEN paymentDisputes[q] \cup {n}
                                 ELSE paymentDisputes[q]
    BY <1>4 DEF NewDispute, DisputeTypes
  <2>6. DisputesKept
    BY <2>2, <2>4 DEF DisputesKept, Decided
  <2>7. \A d \in DisputeIds : d > disputeCounter' => dispute'[d].status = "None"
    BY <2>1, <2>4 DEF DisputePart, DisputeIds
  <2>8. ASSUME NEW q \in PaymentIds, NEW d \in DisputeIds
        PROVE  d \in paymentDisputes'[q] <=>
                   dispute'[d].status # "None" /\ dispute'[d].payment = q
    <3>0. /\ d \in paymentDisputes[q] <=>
                 dispute[d].status # "None" /\ dispute[d].payment = q
          /\ paymentDisputes'[q] = IF q = p THEN paymentDisputes[q] \cup {n}
                                   ELSE paymentDisputes[q]
      BY <2>5 DEF DisputePart
    <3>1. CASE d = n
      BY <2>2, <2>3, <3>0, <3>1
    <3>2. CASE d # n
      BY <2>4, <3>0, <3>2
    <3>3. QED
      BY <3>1, <3>2
  <2>9. \A d \in DisputeIds : NamesRefund(refund', dispute'[d])
    BY <1>1, <2>3, <2>4 DEF NamesRefund
  <2>10. \A d \in DisputeIds : \A e \in DisputeIds \ {d} : Apart(dispute'[d], dispute'[e])
    BY <1>2, <2>3, <2>4 DEF Apart
  <2>11. DisputeNamesItsRefund'
    BY <2>9, <2>10, NamesPartsPrime
  <2>12. QED
    BY <2>6, <2>7, <2>8, <2>11 DEF DisputePart
<1>5. ASSUME NEW n \in DisputeIds, NEW x \in DisputeRecord, ChangeDispute(n, x)
      PROVE  DisputePart' /\ DisputesKept
  <2>1. dispute'[n] = x
    BY <1>5 DEF ChangeDispute, DisputeTypes
  <2>2. \A d \in DisputeIds : d # n => dispute'[d] = dispute[d]
    BY <1>5 DEF ChangeDispute, DisputeTypes
  <2>3. dispute[n].status \in {"Open", "UnderReview"}
    BY <1>5 DEF ChangeDispute, Undecided
  <2>4. dispute[n].refundId = None
    BY <2>3, NamesParts DEF DisputePart, NamesRefund
  <2>5. DisputesKept
    BY <2>2, <2>3 DEF DisputesKept, Decided
  <2>6. \A d \in DisputeIds : d > disputeCounter' => dispute'[d].status = "None"
    BY <1>5, <2>2, <2>3 DEF DisputePart, ChangeDispute
  <2>7. ASSUME NEW q \in PaymentIds, NEW d \in DisputeIds
        PROVE  d \in paymentDisputes'[q] <=>
                   dispute'[d].status # "None" /\ dispute'[d].payment = q
    <3>0. /\ d \in paymentDisputes[q] <=>
                 dispute[d].status # "None" /\ dispute[d].payment = q
          /\ paymentDisputes'[q] = paymentDisputes[q]
      BY <1>5 DEF DisputePart, ChangeDispute
    <3>1. CASE d = n
      BY <1>5, <2>1, <2>3, <3>0, <3>1 DEF ChangeDispute
    <3>2. CASE d # n
      BY <2>2, <3>0, <3>2
    <3>3. QED
      BY <3>1, <3>2
  <2>8. /\ NamesRefund(refund', x)
        /\ \A e \in DisputeIds \ {n} : Apart(x, dispute[e]) /\ Apart(dispute[e], x)
    <3>1. CASE x.refundId = dispute[n].refundId
      BY <2>4, <3>1 DEF NamesRefund, Apart
    <3>2. ASSUME NEW moved \in Nat, x.refundId = refundCounter + 1, x.status = "Resolved",
                 IssueRefund(x.payment, x.amount, x.disputer, "Completed", moved)
          PROVE  /\ NamesRefund(refund', x)
                 /\ \A e \in DisputeIds \ {n} : Apart(x, dispute[e]) /\ Apart(dispute[e], x)
      <4> DEFINE m == refundCounter + 1
      <4>1. m \in RefundIds /\ m > refundCounter
        BY <3>2 DEF IssueRefund, RefundTypes
      <4>2. refund[m].status = "None"
        BY <4>1 DEF RefundPart
      <4>3. /\ refund'[m].status = "Completed" /\ refund'[m].payment = x.payment
            /\ refund'[m].amount = x.amount /\ refund'[m].requester = x.disputer
        BY <3>2, <4>1 DEF IssueRefund, RefundTypes
      <4>4. x.refundId = m
        BY <3>2
      <4> HIDE DEF m
      <4>5. NamesRefund(refund', x)
        BY <3>2, <4>3, <4>4 DEF NamesRefund
      <4>6. m # None
        BY <4>1, RefundsAssumption DEF RefundIds
      <4>7. ASSUME NEW e \in DisputeIds \ {n}, dispute[e].status # "None",
                   dispute[e].refundId = m
            PROVE  FALSE
        BY <4>2, <4>6, <4>7, NamesParts DEF DisputePart, NamesRefund
      <4>8. QED
        BY <4>4, <4>5, <4>7 DEF Apart
    <3>3. QED
      BY <1>5, <3>1, <3>2 DEF ChangeDispute
  <2>9. \A d \in DisputeIds : NamesRefund(refund', dispute'[d])
    BY <1>1, <2>1, <2>2, <2>8
  <2>10. \A d \in DisputeIds : \A e \in DisputeIds \ {d} : Apart(dispute'[d], dispute'[e])
    BY <1>2, <2>1, <2>2, <2>8
  <2>11. DisputeNamesItsRefund'
    BY <2>9, <2>10, NamesPartsPrime
  <2>12. QED
    BY <2>5, <2>6, <2>7, <2>11 DEF DisputePart
<1>6. QED
  BY <1>3, <1>4, <1>5 DEF DisputeStep

\* StakeJustice of one arbitrator in one dispute: the dispute's status st and
\* tally t, the arbitrator's stake k, vote v, and what it got back and lost.
Just(st, t, k, v, back, cut) ==
    back + cut > 0 =>
        /\ st \in {"Resolved", "Rejected"}
        /\ st = "Resolved" <=> t.favour >= t.against
        /\ k = 0
        /\ v # "None"
        /\ cut = IF (v = "Favour" <=> st = "Resolved") THEN 0 ELSE Slash(back + cut)

LEMMA JustParts ==
  StakeJustice <=>
      \A d \in DisputeIds, a \in Arbitrators :
          Just(dispute[d].status, tally[d], stake[d][a], vote[d][a],
               returned[d][a], slashed[d][a])
<1>1. \A d \in DisputeIds : Majority(d) = "Favour" <=> tally[d].favour >= tally[d].against
  BY DEF Majority
<1>2. QED
  BY <1>1 DEF StakeJustice, Just, Decided

LEMMA JustPartsPrime ==
  StakeJustice' <=>
      \A d \in DisputeIds, a \in Arbitrators :
          Just(dispute'[d].status, tally'[d], stake'[d][a], vote'[d][a],
               returned'[d][a], slashed'[d][a])
<1>1. \A d \in DisputeIds : Majority(d)' = "Favour" <=> tally'[d].favour >= tally'[d].against
  BY DEF Majority
<1>2. QED
  BY <1>1 DEF StakeJustice, Just, Decided

\* While a dispute is undecided no stake has left it.
LEMMA NothingReleased ==
  ASSUME VoteTypes, StakeJustice, NEW d \in DisputeIds, Undecided(d),
         NEW a \in Arbitrators
  PROVE  returned[d][a] = 0 /\ slashed[d][a] = 0
<1>1. returned[d][a] \in Nat /\ slashed[d][a] \in Nat
  BY DEF VoteTypes, Amounts
<1>2. ~(returned[d][a] + slashed[d][a] > 0)
  BY DEF StakeJustice, Undecided, Decided
<1>3. QED
  BY <1>1, <1>2

LEMMA VotesPreserved ==
  ASSUME VoteTypes, StakeJustice, DisputesKept, VoteStep, DisputeTypes,
         DisputeTypes'
  PROVE  StakeJustice'
<1> DEFINE J(d, a) == Just(dispute[d].status, tally[d], stake[d][a], vote[d][a],
                           returned[d][a], slashed[d][a])
           K(d, a) == Just(dispute'[d].status, tally'[d], stake'[d][a], vote'[d][a],
                           returned'[d][a], slashed'[d][a])
<1>1. \A d \in DisputeIds, a \in Arbitrators : J(d, a)
  BY JustParts
\* Where the stakes of an arbitrator are left alone the dispute may only have
\* been decided, and then nothing had been released.
<1>2. ASSUME NEW d \in DisputeIds, NEW a \in Arbitrators,
             tally'[d] = tally[d], stake'[d][a] = stake[d][a], vote'[d][a] = vote[d][a],
             returned'[d][a] = returned[d][a], slashed'[d][a] = slashed[d][a]
      PROVE  K(d, a)
  <2>1. J(d, a)
    BY <1>1
  <2>2. CASE returned[d][a] + slashed[d][a] > 0
    <3>1. Decided(d)
      BY <2>1, <2>2 DEF Just, Decided
    <3>2. dispute'[d] = dispute[d]
      BY <3>1 DEF DisputesKept
    <3>3. QED
      BY <1>2, <2>1, <3>2
  <2>3. CASE ~(returned[d][a] + slashed[d][a] > 0)
    BY <1>2, <2>3 DEF Just
  <2>4. QED
    BY <2>2, <2>3
\* An undecided dispute whose stakes are not released has nothing to answer for.
<1>3. ASSUME NEW d \in DisputeIds, NEW a \in Arbitrators, Undecided(d),
             returned'[d][a] = returned[d][a], slashed'[d][a] = slashed[d][a]
      PROVE  K(d, a)
  <2>1. returned'[d][a] = 0 /\ slashed'[d][a] = 0
    BY <1>3, NothingReleased
  <2>2. QED
    BY <2>1 DEF Just
<1>4. CASE UNCHANGED voteState
  <2>1. \A d \in DisputeIds, a \in Arbitrators :
           /\ tally'[d] = tally[d] /\ stake'[d][a] = stake[d][a]
           /\ vote'[d][a] = vote[d][a]
           /\ returned'[d][a] = returned[d][a] /\ slashed'[d][a] = slashed[d][a]
    BY <1>4 DEF voteState
  <2> HIDE DEF K
  <2>2. \A d \in DisputeIds, a \in Arbitrators : K(d, a)
    BY <1>2, <2>1
  <2>3. QED
    BY <2>2, JustPartsPrime DEF K
<1>5. ASSUME NEW n \in DisputeIds, NEW b \in Arbitrators, NEW token \in Tokens,
             NEW amount \in Stakes, LockStake(n, b, token, amount)
      PROVE  StakeJustice'
  <2>1. /\ Undecided(n)
        /\ stake' = [stake EXCEPT ![n][b] = amount]
        /\ UNCHANGED <<tally, vote, returned, slashed>>
    BY <1>5 DEF LockStake
  <2> HIDE DEF K
  <2>2. ASSUME NEW d \in DisputeIds, NEW a \in Arbitrators
        PROVE  K(d, a)
    <3>1. CASE d = n
      BY <1>3, <2>1, <3>1
    <3>2. CASE d # n
      <4>1. stake'[d][a] = stake[d][a]
        BY <2>1, <3>2 DEF VoteTypes
      <4>2. QED
        BY <1>2, <2>1, <4>1
    <3>3. QED
      BY <3>1, <3>2
  <2>3. QED
    BY <2>2, JustPartsPrime DEF K
<1>6. ASSUME NEW n \in DisputeIds, NEW b \in Arbitrators,
             NEW choice \in {"Favour", "Against"}, CastVote(n, b, choice)
      PROVE  StakeJustice'
  <2>1. /\ Undecided(n)
        /\ vote' = [vote EXCEPT ![n][b] = choice]
        /\ UNCHANGED <<stake, returned, slashed>>
        /\ \A d \in DisputeIds : d # n => tally'[d] = tally[d]
    BY <1>6 DEF CastVote, VoteTypes
  <2> HIDE DEF K
  <2>2. ASSUME NEW d \in DisputeIds, NEW a \in Arbitrators
        PROVE  K(d, a)
    <3>1. CASE d = n
      BY <1>3, <2>1, <3>1
    <3>2. CASE d # n
      <4>1. vote'[d][a] = vote[d][a]
        BY <2>1, <3>2 DEF VoteTypes
      <4>2. QED
        BY <1>2, <2>1, <3>2, <4>1
    <3>3. QED
      BY <3>1, <3>2
  <2>3. QED
    BY <2>2, JustPartsPrime DEF K
<1>7. ASSUME NEW n \in DisputeIds, NEW token \in Tokens,
             NEW listed \in SUBSET Arbitrators, FinalizeDisputeVote(n, token, listed)
      PROVE  StakeJustice'
  <2> DEFINE S == Released(n, listed)
             cut(a) == IF Lost(n, a) THEN Slash(stake[n][a]) ELSE 0
  <2>1. /\ Undecided(n)
        /\ ReleaseStakes(n, S)
        /\ UNCHANGED <<vote, tally>>
        /\ dispute' = [dispute EXCEPT ![n].status =
               IF Majority(n) = "Favour" THEN "Resolved" ELSE "Rejected"]
    BY <1>7 DEF FinalizeDisputeVote
  <2>2. dispute'[n].status = IF Majority(n) = "Favour" THEN "Resolved" ELSE "Rejected"
    <3>1. dispute[n] \in DisputeRecord
      BY <2>1, DisputeRecorded DEF Undecided
    <3>2. QED
      BY <2>1, <3>1 DEF DisputeTypes, DisputeRecord
  <2>3. \A a \in Arbitrators :
           /\ a \in S => /\ stake'[n][a] = 0
                         /\ slashed'[n][a] = cut(a)
                         /\ returned'[n][a] = stake[n][a] - cut(a)
           /\ a \notin S => /\ slashed'[n][a] = slashed[n][a]
                            /\ returned'[n][a] = returned[n][a]
    BY <2>1 DEF ReleaseStakes, VoteTypes, Amounts
  <2>4. \A d \in DisputeIds : d # n =>
           /\ stake'[d] = stake[d] /\ slashed'[d] = slashed[d]
           /\ returned'[d] = returned[d]
    BY <2>1 DEF ReleaseStakes, VoteTypes
  <2>5. ASSUME NEW a \in Arbitrators, a \in S
        PROVE  K(n, a)
    <3>1. vote[n][a] \in {"Favour", "Against"} /\ stake[n][a] \in Nat
      BY <2>5 DEF Released, VoteTypes, Amounts
    <3>2. cut(a) \in Nat
      BY <3>1, SlashFacts
    <3>3. returned'[n][a] + slashed'[n][a] = stake[n][a]
      BY <2>3, <2>5, <3>1, <3>2
    <3>4. slashed'[n][a] = IF vote[n][a] = Majority(n) THEN 0 ELSE Slash(stake[n][a])
      BY <2>3, <2>5 DEF Lost
    <3>5. vote[n][a] = Majority(n) <=>
             (vote[n][a] = "Favour" <=> dispute'[n].status = "Resolved")
      BY <2>2, <3>1 DEF Majority
    <3>6. dispute'[n].status = "Resolved" <=> tally'[n].favour >= tally'[n].against
      BY <2>1, <2>2 DEF Majority
    <3>7. /\ dispute'[n].status \in {"Resolved", "Rejected"}
          /\ stake'[n][a] = 0 /\ vote'[n][a] = vote[n][a] /\ vote'[n][a] # "None"
      BY <2>1, <2>2, <2>3, <2>5, <3>1
    <3>8. QED
      BY <3>3, <3>4, <3>5, <3>6, <3>7 DEF Just
  <2> HIDE DEF K
  <2>6. ASSUME NEW d \in DisputeIds, NEW a \in Arbitrators
        PROVE  K(d, a)
    <3>1. CASE d = n /\ a \in S
      BY <2>5, <3>1
    <3>2. CASE d = n /\ a \notin S
      BY <1>3, <2>1, <2>3, <3>2
    <3>3. CASE d # n
      BY <1>2, <2>1, <2>4, <3>3
    <3>4. QED
      BY <3>1, <3>2, <3>3
  <2>7. QED
    BY <2>6, JustPartsPrime DEF K
<1>8. QED
  BY <1>4, <1>5, <1>6, <1>7 DEF VoteStep
-----------------------------------------------------------------------------
(* What a payment's refunds add up to *)

\* The refunds among f that count against payment p, and what they add up to.
LiveIn(f, p) ==
    {r \in RefundIds : f[r].status \notin {"None", "Rejected"} /\ f[r].payment = p}
OwedIn(f, p) == SumFunction([r \in LiveIn(f, p) |-> f[r].amount])

\* Some refund names payment p.
Names(f, p) == \E r \in RefundIds : f[r].status # "None" /\ f[r].payment = p

\* RefundsBounded as far as the refunds go: a payment that a refund names is
\* registered, and the refunds that count fit into its amount.
OwedPart ==
    \A p \in PaymentIds :
        Names(refund, p) => /\ paymentAmount[p] \in Int
                            /\ OwedIn(refund, p) =< paymentAmount[p]

\* There are finitely many refunds.
LEMMA RefundIdsFinite ==
  IsFiniteSet(RefundIds) /\ \A S \in SUBSET RefundIds : IsFiniteSet(S)
<1>1. 1 \in Int /\ MaxRefunds \in Int
  BY RefundsAssumption
<1>2. IsFiniteSet(1 .. MaxRefunds)
  BY <1>1, FS_Interval, Zenon
<1>3. QED
  BY <1>2, FS_Subset DEF RefundIds

\* The sum over a function's domain is that over the set it was defined on.
LEMMA OwedSum ==
  ASSUME NEW f, NEW p
  PROVE  OwedIn(f, p) =
             SumFunctionOnSet([r \in LiveIn(f, p) |-> f[r].amount], LiveIn(f, p))
BY DEF OwedIn, SumFunction

\* The refunds that count have positive amounts.
LEMMA LiveAmounts ==
  ASSUME NEW f \in [RefundIds -> RefundRecord \cup {NoRefund}], NEW p,
         NEW r \in LiveIn(f, p)
  PROVE  f[r].amount \in Nat \ {0}
<1>1. f[r] \in RefundRecord
  BY DEF LiveIn, NoRefund
<1>2. QED
  BY <1>1 DEF RefundRecord

\* What is owed is a natural number.
LEMMA OwedNat ==
  ASSUME NEW f \in [RefundIds -> RefundRecord \cup {NoRefund}], NEW p
  PROVE  OwedIn(f, p) \in Nat
<1> DEFINE L == LiveIn(f, p)
           a == [r \in L |-> f[r].amount]
<1>1. IsFiniteSet(L)
  BY RefundIdsFinite DEF LiveIn
<1>2. \A r \in L : a[r] \in Nat
  BY LiveAmounts
<1> HIDE DEF L, a
<1>3. SumFunctionOnSet(a, L) \in Nat
  BY <1>1, <1>2, SumNat
<1>4. QED
  BY <1>3, OwedSum DEF L, a

\* When no refund starts to count and those that do keep their amounts, their
\* sum does not grow.
LEMMA OwedShrinks ==
  ASSUME NEW f \in [RefundIds -> RefundRecord \cup {NoRefund}],
         NEW g \in [RefundIds -> RefundRecord \cup {NoRefund}], NEW p,
         \A r \in LiveIn(g, p) : r \in LiveIn(f, p) /\ g[r].amount = f[r].amount
  PROVE  OwedIn(g, p) =< OwedIn(f, p)
<1> DEFINE L == LiveIn(f, p)
           K == LiveIn(g, p)
           a == [r \in L |-> f[r].amount]
           b == [r \in K |-> g[r].amount]
<1>1. IsFiniteSet(L) /\ L \in SUBSET L /\ K \in SUBSET L
  BY RefundIdsFinite DEF LiveIn
<1>2. \A r \in L : a[r] \in Nat
  BY LiveAmounts
<1>3. \A r \in K : b[r] = a[r] /\ r \in L
  OBVIOUS
<1> HIDE DEF L, K, a, b
<1>4. /\ \A r \in K : b[r] \in Nat
      /\ \A r \in K : b[r] =< (IF r \in L THEN a[r] ELSE 0)
  BY <1>2, <1>3
<1>5. SumFunctionOnSet(b, K) =< SumFunctionOnSet(a, L)
  BY <1>1, <1>2, <1>4, SumMonotone
<1>6. QED
  BY <1>5, OwedSum DEF L, K, a, b

\* A refund that starts to count adds its amount.
LEMMA OwedGrows ==
  ASSUME NEW f \in [RefundIds -> RefundRecord \cup {NoRefund}],
         NEW g \in [RefundIds -> RefundRecord \cup {NoRefund}], NEW p,
         NEW n \in RefundIds, n \notin LiveIn(f, p), n \in LiveIn(g, p),
         \A r \in RefundIds : r # n => g[r] = f[r]
  PROVE  OwedIn(g, p) = g[n].amount + OwedIn(f, p)
<1> DEFINE L == LiveIn(f, p)
           K == LiveIn(g, p)
           a == [r \in L |-> f[r].amount]
           b == [r \in K |-> g[r].amount]
<1>1. IsFiniteSet(L) /\ IsFiniteSet(K) /\ n \in K /\ K \ {n} = L
  BY RefundIdsFinite DEF LiveIn
<1>2. (\A r \in L : a[r] \in Nat) /\ (\A r \in K : b[r] \in Nat)
  BY LiveAmounts
<1>3. b[n] = g[n].amount
  OBVIOUS
<1>4. \A r \in L : a[r] \in Nat /\ b[r] = a[r]
  BY <1>2 DEF LiveIn
<1> HIDE DEF L, K, a, b
<1>5. SumFunctionOnSet(b, K) = b[n] + SumFunctionOnSet(b, K \ {n})
  BY <1>1, <1>2, SumRemove
<1>6. SumFunctionOnSet(b, L) = SumFunctionOnSet(a, L)
  BY <1>1, <1>4, SumSame
<1>7. QED
  BY <1>1, <1>3, <1>5, <1>6, OwedSum DEF L, K, a, b

\* The limit of create_refund_internal is computed from the payment's list.
LEMMA RefundedIsOwed ==
  ASSUME RefundTypes, RefundPart, NEW p \in PaymentIds
  PROVE  Refunded(p) = OwedIn(refund, p)
<1>1. paymentRefunds[p] \subseteq RefundIds
  BY DEF RefundTypes
<1>2. {i \in paymentRefunds[p] : refund[i].status \notin {"None", "Rejected"}}
        = LiveIn(refund, p)
  BY <1>1 DEF RefundPart, LiveIn
<1>3. QED
  BY <1>2 DEF Refunded, ListedSum, OwedIn

\* A registered amount is never replaced.
AmountsKept ==
    \A p \in PaymentIds : paymentAmount[p] # None => paymentAmount'[p] = paymentAmount[p]

Registers ==
    \E p \in PaymentIds, amount \in PaymentAmounts : RegisterPayment(p, amount)

\* Only register_payment touches the amounts.
LEMMA AmountsForm ==
  ASSUME [Next]_vars
  PROVE  UNCHANGED paymentAmount \/ Registers
<1>1. ASSUME NEW p \in PaymentIds, NEW amount \in PaymentAmounts, RegisterPayment(p, amount)
      PROVE  Registers
  BY <1>1 DEF Registers
<1>2. ASSUME NEW p \in PaymentIds, NEW amount \in RefundAmounts, NEW who \in Customers,
             CreateRefund(p, amount, who) \/ CreateDispute(p, amount, who)
      PROVE  UNCHANGED paymentAmount
  BY <1>2 DEF CreateRefund, CreateDispute
<1>3. ASSUME NEW r \in RefundIds, ProcessRefund(r) \/ RejectRefund(r) \/ CancelRefund(r)
      PROVE  UNCHANGED paymentAmount
  BY <1>3 DEF ProcessRefund, RejectRefund, CancelRefund
<1>4. ASSUME NEW d \in DisputeIds,
             \/ ReviewDispute(d) \/ EscalateOnRead(d)
             \/ ResolveDisputeWithRefund(d) \/ RejectDispute(d)
             \/ \E deadline \in Deadlines : SetDisputeDeadline(d, deadline)
      PROVE  UNCHANGED paymentAmount
  BY <1>4 DEF ReviewDispute, EscalateOnRead, ResolveDisputeWithRefund, RejectDispute,
              SetDisputeDeadline
<1>5. ASSUME NEW d \in DisputeIds, NEW a \in Arbitrators,
             \/ \E token \in Tokens, amount \in Stakes : LockStake(d, a, token, amount)
             \/ \E choice \in {"Favour", "Against"} : CastVote(d, a, choice)
      PROVE  UNCHANGED paymentAmount
  BY <1>5 DEF LockStake, CastVote
<1>6. ASSUME NEW d \in DisputeIds, NEW token \in Tokens,
             NEW listed \in SUBSET Arbitrators, FinalizeDisputeVote(d, token, listed)
      PROVE  UNCHANGED paymentAmount
  BY <1>6 DEF FinalizeDisputeVote
<1>7. ASSUME NEW token \in Tokens, NEW amount \in Funds, Fund(token, amount)
      PROVE  UNCHANGED paymentAmount
  BY <1>7 DEF Fund
<1>8. Tick \/ UNCHANGED vars => UNCHANGED paymentAmount
  BY DEF Tick, vars
<1> HIDE DEF Registers
<1>9. QED
  BY <1>1, <1>2, <1>3, <1>4, <1>5, <1>6, <1>7, <1>8 DEF Next

\* It leaves a payment that it knows.
LEMMA AmountsShape ==
  ASSUME OtherTypes, [Next]_vars
  PROVE  AmountsKept
<1>1. ASSUME NEW p \in PaymentIds, NEW amount \in PaymentAmounts, RegisterPayment(p, amount)
      PROVE  AmountsKept
  BY <1>1 DEF RegisterPayment, AmountsKept, OtherTypes
<1>2. UNCHANGED paymentAmount => AmountsKept
  BY DEF AmountsKept
<1>3. QED
  BY <1>1, <1>2, AmountsForm DEF Registers

\* Only a new refund adds to what is owed, and it was checked to fit.
LEMMA OwedPreserved ==
  ASSUME RefundTypes, RefundTypes', OtherTypes, OtherTypes', RefundPart, OwedPart,
         AmountsKept, RefundStep
  PROVE  OwedPart'
<1>1. /\ refund \in [RefundIds -> RefundRecord \cup {NoRefund}]
      /\ refund' \in [RefundIds -> RefundRecord \cup {NoRefund}]
  BY DEF RefundTypes
<1>2. ASSUME NEW q \in PaymentIds, Names(refund, q),
             \A r \in LiveIn(refund', q) :
                 r \in LiveIn(refund, q) /\ refund'[r].amount = refund[r].amount
      PROVE  paymentAmount'[q] \in Int /\ OwedIn(refund', q) =< paymentAmount'[q]
  <2>1. paymentAmount[q] \in Int /\ OwedIn(refund, q) =< paymentAmount[q]
    BY <1>2 DEF OwedPart
  <2>2. paymentAmount'[q] = paymentAmount[q]
    BY <2>1, RefundsAssumption DEF AmountsKept
  <2>3. OwedIn(refund', q) =< OwedIn(refund, q)
    BY <1>1, <1>2, OwedShrinks
  <2>4. OwedIn(refund', q) \in Nat /\ OwedIn(refund, q) \in Nat
    BY <1>1, OwedNat
  <2>5. QED
    BY <2>1, <2>2, <2>3, <2>4
\* Refunds that keep their payment and amount, or are gone.
<1>3. ASSUME \A r \in RefundIds :
                 refund'[r].status # "None" =>
                     /\ refund[r].status # "None"
                     /\ refund[r].status = "Rejected" => refund'[r].status = "Rejected"
                     /\ refund'[r].payment = refund[r].payment
                     /\ refund'[r].amount = refund[r].amount
      PROVE  OwedPart'
  <2>1. ASSUME NEW q \in PaymentIds, Names(refund', q)
        PROVE  paymentAmount'[q] \in Int /\ OwedIn(refund', q) =< paymentAmount'[q]
    <3>1. Names(refund, q)
      BY <1>3, <2>1 DEF Names
    <3>2. \A r \in LiveIn(refund', q) :
              r \in LiveIn(refund, q) /\ refund'[r].amount = refund[r].amount
      BY <1>3 DEF LiveIn
    <3>3. QED
      BY <1>2, <3>1, <3>2
  <2>2. QED
    BY <2>1 DEF OwedPart
<1>4. CASE UNCHANGED refundState
  <2>1. refund' = refund
    BY <1>4 DEF refundState
  <2>2. QED
    BY <1>3, <2>1
<1>5. ASSUME NEW r \in RefundIds, NEW s \in {"Completed", "Rejected"}, SettleRefund(r, s)
      PROVE  OwedPart'
  <2>1. refund[r] \in RefundRecord
    BY <1>5, RefundRecorded DEF SettleRefund
  <2>2. /\ refund'[r].payment = refund[r].payment
        /\ refund'[r].amount = refund[r].amount /\ refund[r].status = "Pending"
    BY <1>5, <2>1 DEF SettleRefund, RefundTypes, RefundRecord
  <2>3. \A x \in RefundIds : x # r => refund'[x] = refund[x]
    BY <1>5 DEF SettleRefund, RefundTypes
  <2>4. QED
    BY <1>3, <2>2, <2>3
<1>6. ASSUME NEW r \in RefundIds, DropRefund(r)
      PROVE  OwedPart'
  <2>1. refund'[r].status = "None"
    BY <1>6 DEF DropRefund, RefundTypes, NoRefund
  <2>2. \A x \in RefundIds : x # r => refund'[x] = refund[x]
    BY <1>6 DEF DropRefund, RefundTypes
  <2>3. QED
    BY <1>3, <2>1, <2>2
<1>7. ASSUME NEW p \in PaymentIds, NEW amount \in Nat \ {0}, NEW who \in Customers,
             NEW status \in {"Pending", "Completed"}, NEW moved \in Nat,
             Refundable(p, amount), IssueRefund(p, amount, who, status, moved)
      PROVE  OwedPart'
  <2> DEFINE n == refundCounter + 1
  <2>1. n \in RefundIds /\ n > refundCounter
    BY <1>7 DEF IssueRefund, RefundTypes
  <2>2. refund[n].status = "None"
    BY <2>1 DEF RefundPart
  <2>3. /\ refund'[n].status = status /\ refund'[n].payment = p
        /\ refund'[n].amount = amount
    BY <1>7, <2>1 DEF IssueRefund, RefundTypes
  <2>4. \A r \in RefundIds : r # n => refund'[r] = refund[r]
    BY <1>7 DEF IssueRefund, RefundTypes
  <2> HIDE DEF n
  <2>5. ASSUME NEW q \in PaymentIds, Names(refund', q), q # p
        PROVE  paymentAmount'[q] \in Int /\ OwedIn(refund', q) =< paymentAmount'[q]
    <3>1. Names(refund, q)
      BY <2>3, <2>4, <2>5 DEF Names
    <3>2. \A r \in LiveIn(refund', q) :
              r \in LiveIn(refund, q) /\ refund'[r].amount = refund[r].amount
      BY <2>3, <2>4, <2>5 DEF LiveIn
    <3>3. QED
      BY <1>2, <3>1, <3>2
  <2>6. paymentAmount'[p] \in Int /\ OwedIn(refund', p) =< paymentAmount'[p]
    <3>1. n \in LiveIn(refund', p) /\ n \notin LiveIn(refund, p)
      BY <2>1, <2>2, <2>3 DEF LiveIn
    <3>2. OwedIn(refund', p) = amount + OwedIn(refund, p)
      BY <1>1, <2>1, <2>2, <2>3, <2>4, <3>1, OwedGrows
    <3>3. OwedIn(refund, p) \in Nat
      BY <1>1, OwedNat
    <3>4. paymentAmount[p] # None /\ OwedIn(refund, p) + amount =< paymentAmount[p]
      BY <1>7, RefundedIsOwed DEF Refundable
    <3>5. paymentAmount[p] \in Int /\ paymentAmount'[p] = paymentAmount[p]
      BY <3>4 DEF OtherTypes, AmountsKept
    <3>6. QED
      BY <3>2, <3>3, <3>4, <3>5
  <2>7. QED
    BY <2>5, <2>6 DEF OwedPart
<1>8. CASE NewRefund
  BY <1>7, <1>8 DEF NewRefund
<1>9. QED
  BY <1>4, <1>5, <1>6, <1>8 DEF RefundStep

\* The refunds among f that name payment p, and what was sent for them.
MineIn(f, p) == {r \in RefundIds : f[r].status # "None" /\ f[r].payment = p}
SentIn(f, s, p) == SumFunctionOnSet(s, MineIn(f, p))

LEMMA MoneyIs ==
  ASSUME NEW p
  PROVE  /\ Mine(p) = MineIn(refund, p) /\ Owed(p) = OwedIn(refund, p)
         /\ Sent(p) = SentIn(refund, sent, p)
<1>1. Mine(p) = MineIn(refund, p)
  BY DEF Mine, MineIn
<1>2. Live(p) = LiveIn(refund, p)
  BY DEF Live, Mine, LiveIn
<1>3. QED
  BY <1>1, <1>2 DEF Owed, OwedIn, Sent, SentIn

\* s is money sent for Completed refunds among f, at most their amounts.
Paid(f, s) ==
    \A r \in RefundIds : s[r] > 0 => f[r].status = "Completed" /\ s[r] =< f[r].amount

\* Payouts within the refunds: what was sent is no more than what is owed.
LEMMA SentFits ==
  ASSUME NEW f \in [RefundIds -> RefundRecord \cup {NoRefund}],
         NEW s \in [RefundIds -> Nat], Paid(f, s), NEW p
  PROVE  SentIn(f, s, p) =< OwedIn(f, p)
<1> DEFINE M == MineIn(f, p)
           L == LiveIn(f, p)
           a == [r \in L |-> f[r].amount]
<1>1. IsFiniteSet(M) /\ M \in SUBSET M /\ L \in SUBSET M
  BY RefundIdsFinite DEF MineIn, LiveIn
<1>2. \A r \in L : a[r] \in Nat
  BY LiveAmounts
<1>3. ASSUME NEW r \in M
      PROVE  s[r] \in Nat /\ s[r] =< (IF r \in L THEN a[r] ELSE 0)
  <2>1. s[r] \in Nat
    BY DEF MineIn
  <2>2. s[r] > 0 => f[r].status = "Completed" /\ s[r] =< f[r].amount
    BY DEF Paid, MineIn
  <2>3. CASE r \in L
    <3>1. a[r] = f[r].amount /\ a[r] \in Nat
      BY <1>2, <2>3
    <3> HIDE DEF a, L
    <3>2. QED
      BY <2>1, <2>2, <2>3, <3>1
  <2>4. CASE r \notin L
    <3>1. f[r].status = "Rejected"
      BY <2>4 DEF LiveIn, MineIn
    <3>2. s[r] = 0
      BY <2>1, <2>2, <3>1
    <3>3. QED
      BY <2>4, <3>2
  <2>5. QED
    BY <2>3, <2>4
<1> HIDE DEF M, L, a
<1>4. SumFunctionOnSet(s, M) =< SumFunctionOnSet(a, L)
  BY <1>1, <1>2, <1>3, SumMonotone
<1>5. QED
  BY <1>4, OwedSum DEF SentIn, M, L, a

\* Refunds that fit, and payouts within the refunds.
LEMMA OwedBounds ==
  ASSUME RefundTypes, PaidIsRecorded, OwedPart
  PROVE  RefundsBounded
<1>1. /\ refund \in [RefundIds -> RefundRecord \cup {NoRefund}]
      /\ sent \in [RefundIds -> Nat] /\ Paid(refund, sent)
  BY DEF RefundTypes, PaidIsRecorded, Paid
<1>2. ASSUME NEW p \in PaymentIds
      PROVE  /\ Mine(p) # {} => Owed(p) =< paymentAmount[p]
             /\ Sent(p) =< Owed(p)
  <2>1. MineIn(refund, p) # {} => Names(refund, p)
    BY DEF MineIn, Names
  <2>2. MineIn(refund, p) # {} => OwedIn(refund, p) =< paymentAmount[p]
    BY <2>1 DEF OwedPart
  <2>3. SentIn(refund, sent, p) =< OwedIn(refund, p)
    BY <1>1, SentFits
  <2>4. QED
    BY <2>2, <2>3, MoneyIs
<1>3. QED
  BY <1>2 DEF RefundsBounded

-----------------------------------------------------------------------------
(* What the votes of a dispute add up to *)

Voters(v, choice) == {a \in Arbitrators : v[a] = choice}
Behind(k, v, choice) == SumFunctionOnSet(k, Voters(v, choice))

\* TallyExact of one dispute with tally t, stakes k and votes v; finitely many
\* have voted, and each of them with a stake.
Tallied(t, k, v) ==
    /\ IsFiniteSet({a \in Arbitrators : v[a] # "None"})
    /\ \A a \in Arbitrators : v[a] # "None" => k[a] > 0
    /\ t.favour = Behind(k, v, "Favour")
    /\ t.against = Behind(k, v, "Against")

TallyPart ==
    \A d \in DisputeIds : ~Decided(d) => Tallied(tally[d], stake[d], vote[d])

\* Those who chose one side are among those who voted.
LEMMA VotersFinite ==
  ASSUME NEW v, IsFiniteSet({a \in Arbitrators : v[a] # "None"}),
         NEW choice \in {"Favour", "Against"}
  PROVE  IsFiniteSet(Voters(v, choice))
<1>1. Voters(v, choice) \in SUBSET {a \in Arbitrators : v[a] # "None"}
  BY DEF Voters
<1>2. QED
  BY <1>1, FS_Subset

\* Stakes of those who did not vote do not count.
LEMMA TalliedStakes ==
  ASSUME NEW t, NEW v, NEW k \in Amounts(Nat), NEW h \in Amounts(Nat), Tallied(t, k, v),
         \A a \in Arbitrators : v[a] # "None" => h[a] = k[a]
  PROVE  Tallied(t, h, v)
<1>1. ASSUME NEW choice \in {"Favour", "Against"}
      PROVE  Behind(h, v, choice) = Behind(k, v, choice)
  <2> DEFINE S == Voters(v, choice)
  <2>1. IsFiniteSet(S)
    BY VotersFinite DEF Tallied
  <2>2. \A a \in S : k[a] \in Nat /\ h[a] = k[a]
    BY DEF Voters, Amounts
  <2> HIDE DEF S
  <2>3. SumFunctionOnSet(h, S) = SumFunctionOnSet(k, S)
    BY <2>1, <2>2, SumSame
  <2>4. QED
    BY <2>3 DEF Behind, S
<1>2. \A a \in Arbitrators : v[a] # "None" => h[a] > 0
  BY DEF Tallied
<1>3. QED
  BY <1>1, <1>2 DEF Tallied

\* A first vote adds its stake to its side.
LEMMA TalliedVote ==
  ASSUME NEW t \in [favour : Nat, against : Nat], NEW k \in Amounts(Nat),
         NEW v \in Amounts({"None", "Favour", "Against"}), Tallied(t, k, v),
         NEW b \in Arbitrators, v[b] = "None", k[b] > 0,
         NEW choice \in {"Favour", "Against"}
  PROVE  Tallied([t EXCEPT
                     !.favour = IF choice = "Favour" THEN @ + k[b] ELSE @,
                     !.against = IF choice = "Against" THEN @ + k[b] ELSE @],
                 k, [v EXCEPT ![b] = choice])
<1> DEFINE w == [v EXCEPT ![b] = choice]
           f == IF choice = "Favour" THEN t.favour + k[b] ELSE t.favour
           g == IF choice = "Against" THEN t.against + k[b] ELSE t.against
           u == [t EXCEPT !.favour = f, !.against = g]
           A == {a \in Arbitrators : v[a] # "None"}
<1>1. \A a \in Arbitrators : w[a] = IF a = b THEN choice ELSE v[a]
  BY DEF Amounts
<1>2. {a \in Arbitrators : w[a] # "None"} = A \cup {b}
  BY <1>1
<1>3. u.favour = f /\ u.against = g
  OBVIOUS
<1> HIDE DEF w, f, g, u
<1>4. IsFiniteSet(A \cup {b})
  <2>1. IsFiniteSet(A)
    BY DEF Tallied
  <2> HIDE DEF A
  <2>2. QED
    BY <2>1, FS_AddElement
<1>5. IsFiniteSet({a \in Arbitrators : w[a] # "None"})
  BY <1>2, <1>4
<1>6. \A a \in Arbitrators : w[a] # "None" => k[a] > 0
  BY <1>1 DEF Tallied
<1>7. Behind(k, w, choice) = k[b] + Behind(k, v, choice) /\ Behind(k, v, choice) \in Nat
  <2> DEFINE S == Voters(w, choice)
  <2>1. IsFiniteSet(S) /\ IsFiniteSet(Voters(v, choice))
    BY <1>5, VotersFinite DEF Tallied
  <2>2. b \in S /\ S \ {b} = Voters(v, choice)
    BY <1>1 DEF Voters
  <2>3. \A a \in S : k[a] \in Nat
    BY DEF Voters, Amounts
  <2> HIDE DEF S
  <2>4. /\ SumFunctionOnSet(k, S) = k[b] + SumFunctionOnSet(k, S \ {b})
        /\ SumFunctionOnSet(k, S \ {b}) \in Nat
    BY <2>1, <2>2, <2>3, SumRemove
  <2>5. QED
    BY <2>2, <2>4 DEF Behind, S
<1>8. ASSUME NEW other \in {"Favour", "Against"}, other # choice
      PROVE  Behind(k, w, other) = Behind(k, v, other)
  <2>1. Voters(w, other) = Voters(v, other)
    BY <1>1, <1>8 DEF Voters
  <2>2. QED
    BY <2>1 DEF Behind
<1>9. u.favour = Behind(k, w, "Favour") /\ u.against = Behind(k, w, "Against")
  <2>1. t.favour = Behind(k, v, "Favour") /\ t.against = Behind(k, v, "Against")
    BY DEF Tallied
  <2>2. k[b] \in Nat /\ t.favour \in Nat /\ t.against \in Nat
    BY DEF Amounts
  <2>3. CASE choice = "Favour"
    <3>1. f = t.favour + k[b] /\ g = t.against
      BY <2>3 DEF f, g
    <3>2. Behind(k, w, "Against") = Behind(k, v, "Against")
      BY <1>8, <2>3
    <3>3. QED
      BY <1>3, <1>7, <2>1, <2>2, <2>3, <3>1, <3>2
  <2>4. CASE choice = "Against"
    <3>1. g = t.against + k[b] /\ f = t.favour
      BY <2>4 DEF f, g
    <3>2. Behind(k, w, "Favour") = Behind(k, v, "Favour")
      BY <1>8, <2>4
    <3>3. QED
      BY <1>3, <1>7, <2>1, <2>2, <2>4, <3>1, <3>2
  <2>5. QED
    BY <2>3, <2>4
<1>10. Tallied(u, k, w)
  BY <1>5, <1>6, <1>9 DEF Tallied
<1>11. QED
  BY <1>10 DEF u, w, f, g

\* A stake is locked before any vote, a vote is cast once, and only a verdict,
\* which ends the matter, takes stakes away.
LEMMA TallyPreserved ==
  ASSUME VoteTypes, VoteTypes', DisputeTypes, DisputeTypes', TallyPart, DisputesKept, VoteStep
  PROVE  TallyPart'
<1>1. \A d \in DisputeIds : ~Decided(d)' => ~Decided(d)
  BY DEF DisputesKept, Decided
<1>2. \A d \in DisputeIds :
         /\ tally[d] \in [favour : Nat, against : Nat]
         /\ stake[d] \in Amounts(Nat) /\ stake'[d] \in Amounts(Nat)
         /\ vote[d] \in Amounts({"None", "Favour", "Against"})
  BY DEF VoteTypes
<1>3. ASSUME NEW d \in DisputeIds, ~Decided(d)',
             tally'[d] = tally[d], stake'[d] = stake[d], vote'[d] = vote[d]
      PROVE  Tallied(tally'[d], stake'[d], vote'[d])
  BY <1>1, <1>3 DEF TallyPart
<1>4. CASE UNCHANGED voteState
  BY <1>3, <1>4 DEF TallyPart, voteState
<1>5. ASSUME NEW n \in DisputeIds, NEW b \in Arbitrators, NEW token \in Tokens,
             NEW amount \in Stakes, LockStake(n, b, token, amount)
      PROVE  TallyPart'
  <2>1. /\ stake[n][b] = 0 /\ ~Decided(n)
        /\ stake' = [stake EXCEPT ![n][b] = amount]
        /\ UNCHANGED <<tally, vote>>
    BY <1>5 DEF LockStake, Undecided, Decided
  <2>2. \A d \in DisputeIds : d # n => stake'[d] = stake[d]
    BY <2>1 DEF VoteTypes
  <2>3. Tallied(tally[n], stake[n], vote[n])
    BY <2>1 DEF TallyPart
  <2>4. \A a \in Arbitrators : vote[n][a] # "None" => stake'[n][a] = stake[n][a]
    BY <1>2, <2>1, <2>3 DEF Tallied, VoteTypes, Amounts
  <2>5. Tallied(tally[n], stake'[n], vote[n])
    BY <1>2, <2>3, <2>4, TalliedStakes
  <2>6. QED
    BY <1>3, <2>1, <2>2, <2>5 DEF TallyPart
<1>6. ASSUME NEW n \in DisputeIds, NEW b \in Arbitrators,
             NEW choice \in {"Favour", "Against"}, CastVote(n, b, choice)
      PROVE  TallyPart'
  <2> DEFINE t == [tally[n] EXCEPT
                      !.favour = IF choice = "Favour" THEN @ + stake[n][b] ELSE @,
                      !.against = IF choice = "Against" THEN @ + stake[n][b] ELSE @]
             v == [vote[n] EXCEPT ![b] = choice]
  <2>1. /\ ~Decided(n) /\ stake[n][b] > 0 /\ vote[n][b] = "None"
        /\ UNCHANGED stake
    BY <1>6 DEF CastVote, Undecided, Decided
  <2>2. tally' = [tally EXCEPT ![n] = t] /\ vote' = [vote EXCEPT ![n] = v]
    BY <1>6 DEF CastVote
  <2>3. Tallied(tally[n], stake[n], vote[n])
    BY <2>1 DEF TallyPart
  <2>4. Tallied(t, stake[n], v)
    BY <1>2, <2>1, <2>3, TalliedVote
  <2> HIDE DEF t, v
  <2>5. tally'[n] = t /\ vote'[n] = v
    BY <2>2 DEF VoteTypes
  <2>6. \A d \in DisputeIds : d # n => tally'[d] = tally[d] /\ vote'[d] = vote[d]
    BY <2>2 DEF VoteTypes
  <2>7. QED
    BY <1>3, <2>1, <2>4, <2>5, <2>6 DEF TallyPart
<1>7. ASSUME NEW n \in DisputeIds, NEW token \in Tokens,
             NEW listed \in SUBSET Arbitrators, FinalizeDisputeVote(n, token, listed)
      PROVE  TallyPart'
  <2>1. /\ Undecided(n)
        /\ ReleaseStakes(n, Released(n, listed))
        /\ UNCHANGED <<vote, tally>>
        /\ dispute' = [dispute EXCEPT ![n].status =
               IF Majority(n) = "Favour" THEN "Resolved" ELSE "Rejected"]
    BY <1>7 DEF FinalizeDisputeVote
  <2>2. dispute[n] \in DisputeRecord
    BY <2>1, DisputeRecorded DEF Undecided
  <2>3. Decided(n)'
    BY <2>1, <2>2 DEF DisputeTypes, DisputeRecord, Decided
  <2>4. \A d \in DisputeIds : d # n => stake'[d] = stake[d]
    BY <2>1 DEF ReleaseStakes, VoteTypes
  <2>5. QED
    BY <1>3, <2>1, <2>3, <2>4 DEF TallyPart
<1>8. QED
  BY <1>4, <1>5, <1>6, <1>7 DEF VoteStep

\* Initially nobody has voted.
LEMMA TallyInit ==
  ASSUME Init
  PROVE  TallyPart
<1>1. ASSUME NEW d \in DisputeIds
      PROVE  Tallied(tally[d], stake[d], vote[d])
  <2>1. /\ \A a \in Arbitrators : vote[d][a] = "None"
        /\ tally[d].favour = 0 /\ tally[d].against = 0
    BY DEF Init
  <2>2. {a \in Arbitrators : vote[d][a] # "None"} = {} /\ IsFiniteSet({})
    BY <2>1, FS_EmptySet
  <2>3. Voters(vote[d], "Favour") = {} /\ Voters(vote[d], "Against") = {}
    BY <2>1 DEF Voters
  <2>4. QED
    BY <2>1, <2>2, <2>3, SumEmpty DEF Tallied, Behind
<1>2. QED
  BY <1>1 DEF TallyPart

\* Initially no refund names a payment.
LEMMA OwedInit ==
  ASSUME Init
  PROVE  OwedPart
BY DEF Init, OwedPart, Names, NoRefund

\* An open dispute is one that is not decided.
LEMMA TallyImplies ==
  ASSUME TallyPart
  PROVE  TallyExact
<1>1. \A d \in DisputeIds : Undecided(d) => ~Decided(d)
  BY DEF Undecided, Decided
<1>2. QED
  BY <1>1 DEF TallyPart, Tallied, TallyExact, Behind, Voters
-----------------------------------------------------------------------------
(* The inductive invariant *)

\* ListsExact, DisputeNamesItsRefund and PaidIsRecorded, with what makes them
\* inductive: identifiers above the counters are unused, so the next refund or
\* dispute is a new one.  RefundsBounded follows from what the refunds that
\* count add up to, TallyExact from the votes of every dispute not yet decided.
IInv ==
    /\ TypeOK
    /\ RefundPart
    /\ DisputePart
    /\ StakeJustice
    /\ OwedPart
    /\ TallyPart

LEMMA InitGood ==
  ASSUME Init
  PROVE  IInv
<1>1. TypeOK
  BY RefundsAssumption DEF Init, TypeOK, Amounts
<1>2. RefundPart
  BY DEF Init, RefundPart, PaidIsRecorded, NoRefund
<1>3. DisputePart
  BY DEF Init, DisputePart, DisputeNamesItsRefund, NoDispute
<1>4. StakeJustice
  BY DEF Init, StakeJustice
<1>5. QED
  BY <1>1, <1>2, <1>3, <1>4, OwedInit, TallyInit DEF IInv

LEMMA NextStep ==
  ASSUME IInv, [Next]_vars
  PROVE  IInv' /\ RefundsKept /\ DisputesKept
<1>1. TypeOK /\ RefundPart /\ DisputePart /\ StakeJustice /\ OwedPart /\ TallyPart
  BY DEF IInv
<1>2. TypeOK'
  BY <1>1, TypeStep
<1>3. RefundTypes /\ DisputeTypes /\ VoteTypes /\ OtherTypes
  BY <1>1, TypeParts
<1>4. RefundTypes' /\ DisputeTypes' /\ VoteTypes' /\ OtherTypes'
  BY <1>2, TypePartsPrime
<1>5. PaidIsRecorded
  BY <1>1 DEF RefundPart
<1>6. RefundStep /\ DisputeStep /\ VoteStep
  BY <1>1, <1>5, RefundShapes, DisputeShapes, VoteShapes
<1>7. RefundPart' /\ RefundsKept
  BY <1>1, <1>3, <1>4, <1>6, RefundsPreserved
<1>8. DisputePart' /\ DisputesKept
  BY <1>1, <1>3, <1>4, <1>6, <1>7, DisputesPreserved
<1>9. StakeJustice'
  BY <1>1, <1>3, <1>4, <1>6, <1>8, VotesPreserved
<1>10. OwedPart'
  BY <1>1, <1>3, <1>4, <1>6, AmountsShape, OwedPreserved
<1>11. TallyPart'
  BY <1>1, <1>3, <1>4, <1>6, <1>8, TallyPreserved
<1>12. QED
  BY <1>2, <1>7, <1>8, <1>9, <1>10, <1>11 DEF IInv

LEMMA IInvImplies ==
  ASSUME IInv
  PROVE  /\ TypeOK /\ PaidIsRecorded /\ ListsExact /\ DisputeNamesItsRefund
         /\ StakeJustice /\ RefundsBounded /\ TallyExact
<1>1. TypeOK /\ PaidIsRecorded /\ DisputeNamesItsRefund /\ StakeJustice
  BY DEF IInv, RefundPart, DisputePart
<1>2. ListsExact
  <2>1. ASSUME NEW p \in PaymentIds
        PROVE  /\ paymentRefunds[p] \subseteq RefundIds
               /\ paymentDisputes[p] \subseteq DisputeIds
    BY <1>1 DEF TypeOK
  <2>2. ASSUME NEW p \in PaymentIds
        PROVE  paymentRefunds[p] =
                   {r \in RefundIds : refund[r].status # "None" /\ refund[r].payment = p}
    BY <2>1 DEF IInv, RefundPart
  <2>3. ASSUME NEW p \in PaymentIds
        PROVE  paymentDisputes[p] =
                   {d \in DisputeIds : dispute[d].status # "None" /\ dispute[d].payment = p}
    BY <2>1 DEF IInv, DisputePart
  <2>4. QED
    BY <2>2, <2>3 DEF ListsExact
<1>3. RefundsBounded
  BY <1>1, TypeParts, OwedBounds DEF IInv
<1>4. TallyExact
  BY TallyImplies DEF IInv
<1>5. QED
  BY <1>1, <1>2, <1>3, <1>4
-----------------------------------------------------------------------------
(* Every step is a step of Claims *)

LEMMA MoneyIsPrime ==
  ASSUME NEW p
  PROVE  /\ Mine(p)' = MineIn(refund', p) /\ Owed(p)' = OwedIn(refund', p)
         /\ Sent(p)' = SentIn(refund', sent', p)
<1>1. Mine(p)' = MineIn(refund', p)
  BY DEF Mine, MineIn
<1>2. Live(p)' = LiveIn(refund', p)
  BY DEF Live, Mine, LiveIn
<1>3. QED
  BY <1>1, <1>2 DEF Owed, OwedIn, Sent, SentIn

\* The state of the abstract accounts.
LEMMA BarsAre ==
  /\ OwedBar = [p \in PaymentIds |-> OwedIn(refund, p)]
  /\ SentBar = [p \in PaymentIds |-> SentIn(refund, sent, p)]
  /\ OwedBar' = [p \in PaymentIds |-> OwedIn(refund', p)]
  /\ SentBar' = [p \in PaymentIds |-> SentIn(refund', sent', p)]
BY MoneyIs, MoneyIsPrime DEF OwedBar, SentBar

\* What one refund n adds to the sums of payment p.
OwedTerm(f, n, p) == IF n \in LiveIn(f, p) THEN f[n].amount ELSE 0
SentTerm(f, s, n, p) == IF n \in MineIn(f, p) THEN s[n] ELSE 0

\* Refunds that count alike and have the same amounts have the same sum.
LEMMA OwedSame ==
  ASSUME NEW f \in [RefundIds -> RefundRecord \cup {NoRefund}],
         NEW g \in [RefundIds -> RefundRecord \cup {NoRefund}], NEW p,
         LiveIn(g, p) = LiveIn(f, p),
         \A r \in LiveIn(f, p) : g[r].amount = f[r].amount
  PROVE  OwedIn(g, p) = OwedIn(f, p)
<1>1. OwedIn(g, p) =< OwedIn(f, p)
  BY OwedShrinks
<1>2. OwedIn(f, p) =< OwedIn(g, p)
  BY OwedShrinks
<1>3. OwedIn(f, p) \in Nat /\ OwedIn(g, p) \in Nat
  BY OwedNat
<1>4. QED
  BY <1>1, <1>2, <1>3

\* When one refund changes, the sum of a payment changes by its term.
LEMMA OwedChanges ==
  ASSUME NEW f \in [RefundIds -> RefundRecord \cup {NoRefund}],
         NEW g \in [RefundIds -> RefundRecord \cup {NoRefund}], NEW p,
         NEW n \in RefundIds, \A x \in RefundIds : x # n => g[x] = f[x],
         n \in LiveIn(f, p) /\ n \in LiveIn(g, p) => g[n].amount = f[n].amount
  PROVE  OwedIn(g, p) + OwedTerm(f, n, p) = OwedIn(f, p) + OwedTerm(g, n, p)
<1>1. OwedIn(f, p) \in Nat /\ OwedIn(g, p) \in Nat
  BY OwedNat
<1>2. /\ n \in LiveIn(f, p) => f[n].amount \in Nat
      /\ n \in LiveIn(g, p) => g[n].amount \in Nat
  BY LiveAmounts
<1>3. CASE n \in LiveIn(f, p) <=> n \in LiveIn(g, p)
  <2>1. LiveIn(g, p) = LiveIn(f, p)
    BY <1>3 DEF LiveIn
  <2>2. \A r \in LiveIn(f, p) : g[r].amount = f[r].amount
    BY <2>1 DEF LiveIn
  <2>3. OwedIn(g, p) = OwedIn(f, p)
    BY <2>1, <2>2, OwedSame
  <2>4. OwedTerm(g, n, p) = OwedTerm(f, n, p)
    BY <2>1, <2>2 DEF OwedTerm
  <2>5. QED
    BY <2>3, <2>4
<1>4. CASE n \notin LiveIn(f, p) /\ n \in LiveIn(g, p)
  <2>1. OwedIn(g, p) = g[n].amount + OwedIn(f, p)
    BY <1>4, OwedGrows
  <2>2. QED
    BY <1>1, <1>2, <1>4, <2>1 DEF OwedTerm
<1>5. CASE n \in LiveIn(f, p) /\ n \notin LiveIn(g, p)
  <2>1. OwedIn(f, p) = f[n].amount + OwedIn(g, p)
    BY <1>5, OwedGrows
  <2>2. QED
    BY <1>1, <1>2, <1>5, <2>1 DEF OwedTerm
<1>6. QED
  BY <1>3, <1>4, <1>5

LEMMA SentNat ==
  ASSUME NEW f, NEW s \in [RefundIds -> Nat], NEW p
  PROVE  SentIn(f, s, p) \in Nat
<1>1. IsFiniteSet(MineIn(f, p)) /\ \A r \in MineIn(f, p) : s[r] \in Nat
  BY RefundIdsFinite DEF MineIn
<1>2. QED
  BY <1>1, SumNat DEF SentIn

LEMMA SentSplit ==
  ASSUME NEW f, NEW s \in [RefundIds -> Nat], NEW p, NEW n \in RefundIds
  PROVE  /\ SentIn(f, s, p) \in Nat /\ SentTerm(f, s, n, p) \in Nat
         /\ SumFunctionOnSet(s, MineIn(f, p) \ {n}) \in Nat
         /\ SentIn(f, s, p) =
               SentTerm(f, s, n, p) + SumFunctionOnSet(s, MineIn(f, p) \ {n})
<1> DEFINE M == MineIn(f, p)
<1>1. M \in SUBSET RefundIds
  BY DEF MineIn
<1> HIDE DEF M
<1>2. IsFiniteSet(M) /\ \A r \in M : s[r] \in Nat
  BY <1>1, RefundIdsFinite
<1>3. CASE n \in M
  BY <1>2, <1>3, SumRemove DEF M, SentIn, SentTerm
<1>4. CASE n \notin M
  <2>1. M \ {n} = M
    BY <1>4
  <2>2. SumFunctionOnSet(s, M) \in Nat
    BY <1>2, SumNat
  <2>3. QED
    BY <1>4, <2>1, <2>2 DEF M, SentIn, SentTerm
<1>5. QED
  BY <1>3, <1>4

LEMMA SentChanges ==
  ASSUME NEW f, NEW g, NEW s \in [RefundIds -> Nat], NEW u \in [RefundIds -> Nat],
         NEW p, NEW n \in RefundIds,
         \A x \in RefundIds : x # n => g[x] = f[x] /\ u[x] = s[x]
  PROVE  SentIn(g, u, p) + SentTerm(f, s, n, p) = SentIn(f, s, p) + SentTerm(g, u, n, p)
<1> DEFINE R == MineIn(f, p) \ {n}
<1>1. MineIn(g, p) \ {n} = R
  BY DEF MineIn
<1>2. IsFiniteSet(R) /\ \A r \in R : s[r] \in Nat /\ u[r] = s[r]
  <2>1. R \in SUBSET RefundIds /\ n \notin R
    BY DEF MineIn
  <2> HIDE DEF R
  <2>2. QED
    BY <2>1, RefundIdsFinite
<1> HIDE DEF R
<1>3. SumFunctionOnSet(u, R) = SumFunctionOnSet(s, R)
  BY <1>2, SumSame
<1> DEFINE k == SumFunctionOnSet(s, R)
<1>4. /\ SentIn(f, s, p) = SentTerm(f, s, n, p) + k
      /\ SentTerm(f, s, n, p) \in Nat /\ k \in Nat
  BY SentSplit DEF R
<1>5. /\ SentIn(g, u, p) = SentTerm(g, u, n, p) + k
      /\ SentTerm(g, u, n, p) \in Nat
  BY <1>1, <1>3, SentSplit
<1> HIDE DEF k
<1>6. QED
  BY <1>4, <1>5

\* The account of p changes by n claimed and m given, and no other does.
Moves(p, n, m) ==
    /\ \A q \in PaymentIds : q # p =>
           /\ OwedIn(refund', q) = OwedIn(refund, q)
           /\ SentIn(refund', sent', q) = SentIn(refund, sent, q)
    /\ OwedIn(refund', p) = OwedIn(refund, p) + n
    /\ SentIn(refund', sent', p) = SentIn(refund, sent, p) + m

\* A move that keeps within the account is a step of it.
LEMMA AccountStep ==
  ASSUME NEW p \in PaymentIds, NEW n \in Int, NEW m \in Int, Moves(p, n, m),
         UNCHANGED paymentAmount, RefundTypes, RefundTypes',
         SentIn(refund', sent', p) =< OwedIn(refund', p),
         \/ /\ n > 0 /\ m \in 0 .. n
            /\ paymentAmount[p] # None /\ OwedIn(refund', p) =< paymentAmount[p]
         \/ n = 0 /\ m >= 0
         \/ n < 0 /\ m = 0
  PROVE  [C!Next]_(C!vars)
<1> DEFINE o == OwedIn(refund, p)
           k == SentIn(refund, sent, p)
<1>1. o \in Int /\ k \in Int
  <2>1. o \in Nat
    BY OwedNat DEF RefundTypes
  <2>2. k \in Nat
    BY SentNat DEF RefundTypes
  <2>3. QED
    BY <2>1, <2>2
<1>2. OwedIn(refund', p) = o + n /\ SentIn(refund', sent', p) = k + m
  BY DEF Moves
<1>3. OwedBar[p] = o /\ SentBar[p] = k /\ OwedBar'[p] = o + n /\ SentBar'[p] = k + m
  BY <1>2, BarsAre
<1>4. OwedBar' = [OwedBar EXCEPT ![p] = @ + n]
  BY <1>2, BarsAre DEF Moves
<1>5. SentBar' = [SentBar EXCEPT ![p] = @ + m]
  BY <1>2, BarsAre DEF Moves
<1> HIDE DEF o, k
<1>6. OwedBar'[p] - OwedBar[p] = n /\ SentBar'[p] - SentBar[p] = m
  BY <1>1, <1>3
<1>7. ASSUME m = 0
      PROVE  SentBar' = SentBar
  <2>1. SentIn(refund', sent', p) = SentIn(refund, sent, p)
    BY <1>1, <1>2, <1>7 DEF k
  <2>2. \A q \in PaymentIds : SentIn(refund', sent', q) = SentIn(refund, sent, q)
    BY <2>1 DEF Moves
  <2>3. QED
    BY <2>2, BarsAre
<1>8. ASSUME n = 0
      PROVE  OwedBar' = OwedBar
  <2>1. OwedIn(refund', p) = OwedIn(refund, p)
    BY <1>1, <1>2, <1>8 DEF o
  <2>2. \A q \in PaymentIds : OwedIn(refund', q) = OwedIn(refund, q)
    BY <2>1 DEF Moves
  <2>3. QED
    BY <2>2, BarsAre
<1>9. CASE n > 0 /\ m \in 0 .. n
  <2>1. paymentAmount[p] # None /\ o + n =< paymentAmount[p]
    BY <1>2, <1>9
  <2>2. C!Claim(p, n, m)
    BY <1>3, <1>4, <1>5, <1>9, <2>1 DEF C!Claim
  <2>3. QED
    BY <1>6, <2>2, Zenon DEF C!Next
<1>10. CASE n = 0 /\ m > 0
  <2>1. k + m =< o
    BY <1>1, <1>2, <1>10
  <2>2. C!Give(p, m)
    BY <1>3, <1>5, <1>8, <1>10, <2>1 DEF C!Give
  <2>3. QED
    BY <1>6, <2>2, Zenon DEF C!Next
<1>11. CASE n < 0 /\ m = 0
  <2>1. k =< o + n
    BY <1>1, <1>2, <1>11
  <2>2. k =< o - (-n)
    BY <1>1, <2>1
  <2>3. OwedBar' = [OwedBar EXCEPT ![p] = @ - (-n)]
    <3>1. o - (-n) = o + n
      BY <1>1
    <3>2. QED
      BY <1>3, <1>4, <3>1
  <2>4. C!GiveUp(p, -n)
    BY <1>3, <1>7, <1>11, <2>2, <2>3 DEF C!GiveUp
  <2>5. QED
    BY <1>6, <2>4, Zenon DEF C!Next
<1>12. CASE n = 0 /\ m = 0
  BY <1>7, <1>8, <1>12 DEF C!vars
<1>13. QED
  BY <1>9, <1>10, <1>11, <1>12

LEMMA Cancels ==
  ASSUME NEW a \in Int, NEW b \in Int, NEW t \in Int, NEW u, NEW d \in Int,
         a + t = b + u, u = t + d
  PROVE  a = b + d
OBVIOUS

\* What a change of one refund r, of payment p before and after, moves.
LEMMA OneRefund ==
  ASSUME RefundTypes, RefundTypes', NEW r \in RefundIds, NEW p,
         \A x \in RefundIds : x # r => refund'[x] = refund[x] /\ sent'[x] = sent[x],
         refund[r].status # "None" => refund[r].payment = p,
         refund'[r].status # "None" => refund'[r].payment = p,
         r \in LiveIn(refund, p) /\ r \in LiveIn(refund', p) =>
             refund'[r].amount = refund[r].amount,
         NEW n \in Int, NEW m \in Int,
         OwedTerm(refund', r, p) = OwedTerm(refund, r, p) + n,
         SentTerm(refund', sent', r, p) = SentTerm(refund, sent, r, p) + m
  PROVE  Moves(p, n, m)
<1>1. /\ refund \in [RefundIds -> RefundRecord \cup {NoRefund}]
      /\ refund' \in [RefundIds -> RefundRecord \cup {NoRefund}]
      /\ sent \in [RefundIds -> Nat] /\ sent' \in [RefundIds -> Nat]
  BY DEF RefundTypes
<1>2. \A q : OwedIn(refund, q) \in Nat /\ OwedIn(refund', q) \in Nat
  BY <1>1, OwedNat
<1>3. \A q : SentIn(refund, sent, q) \in Nat /\ SentIn(refund', sent', q) \in Nat
  BY <1>1, SentSplit
<1>4. ASSUME NEW q, q # p
      PROVE  /\ OwedIn(refund', q) = OwedIn(refund, q)
             /\ SentIn(refund', sent', q) = SentIn(refund, sent, q)
  <2>1. /\ r \notin LiveIn(refund, q) /\ r \notin LiveIn(refund', q)
        /\ r \notin MineIn(refund, q) /\ r \notin MineIn(refund', q)
    BY <1>4 DEF LiveIn, MineIn
  <2>2. OwedIn(refund', q) + 0 = OwedIn(refund, q) + 0
    BY <1>1, <2>1, OwedChanges DEF OwedTerm
  <2>3. SentIn(refund', sent', q) + 0 = SentIn(refund, sent, q) + 0
    BY <1>1, <2>1, SentChanges DEF SentTerm
  <2>4. QED
    BY <1>2, <1>3, <2>2, <2>3
<1>5. OwedIn(refund', p) + OwedTerm(refund, r, p)
        = OwedIn(refund, p) + OwedTerm(refund', r, p)
  BY <1>1, OwedChanges
<1>6. SentIn(refund', sent', p) + SentTerm(refund, sent, r, p)
        = SentIn(refund, sent, p) + SentTerm(refund', sent', r, p)
  BY <1>1, SentChanges
<1>7. OwedTerm(refund, r, p) \in Int /\ SentTerm(refund, sent, r, p) \in Int
  <2>1. OwedTerm(refund, r, p) \in Int
    BY <1>1, LiveAmounts DEF OwedTerm
  <2>2. SentTerm(refund, sent, r, p) \in Nat
    BY <1>1, SentSplit
  <2>3. QED
    BY <2>1, <2>2
<1>8. OwedIn(refund', p) = OwedIn(refund, p) + n
  BY <1>2, <1>5, <1>7, Cancels
<1>9. SentIn(refund', sent', p) = SentIn(refund, sent, p) + m
  BY <1>3, <1>6, <1>7, Cancels
<1>10. QED
  BY <1>4, <1>8, <1>9 DEF Moves

\* The steps of a refund are those of its payment's account.
LEMMA RefundMoves ==
  ASSUME RefundTypes, RefundTypes', OtherTypes, RefundPart, RefundPart', OwedPart',
         UNCHANGED paymentAmount, RefundStep
  PROVE  [C!Next]_(C!vars)
<1> DEFINE Goal == [C!Next]_(C!vars)
<1>1. /\ refund' \in [RefundIds -> RefundRecord \cup {NoRefund}]
      /\ sent \in [RefundIds -> Nat] /\ sent' \in [RefundIds -> Nat]
  BY DEF RefundTypes
<1>2. /\ \A r \in RefundIds : sent[r] > 0 =>
             refund[r].status = "Completed" /\ sent[r] =< refund[r].amount
      /\ Paid(refund', sent')
  BY DEF RefundPart, PaidIsRecorded, Paid
<1>3. \A p : SentIn(refund', sent', p) =< OwedIn(refund', p)
  BY <1>1, <1>2, SentFits
<1>4. CASE UNCHANGED refundState
  <2>1. refund' = refund /\ sent' = sent
    BY <1>4 DEF refundState
  <2>2. OwedBar' = OwedBar /\ SentBar' = SentBar
    BY <2>1, BarsAre
  <2>3. QED
    BY <2>2 DEF C!vars
<1>5. ASSUME NEW p \in PaymentIds, NEW amount \in Nat \ {0}, NEW who \in Customers,
             NEW status \in {"Pending", "Completed"}, NEW moved \in Nat,
             Refundable(p, amount), IssueRefund(p, amount, who, status, moved),
             moved =< amount
      PROVE  Goal
  <2> DEFINE r == refundCounter + 1
  <2>1. r \in RefundIds /\ refund[r].status = "None"
    BY <1>5 DEF IssueRefund, RefundTypes, RefundPart
  <2>2. /\ refund'[r].status = status /\ refund'[r].payment = p
        /\ refund'[r].amount = amount /\ sent'[r] = moved
    BY <1>5, <2>1 DEF IssueRefund, RefundTypes
  <2>3. \A x \in RefundIds : x # r => refund'[x] = refund[x] /\ sent'[x] = sent[x]
    BY <1>5 DEF IssueRefund, RefundTypes
  <2> HIDE DEF r
  <2>4. r \in LiveIn(refund', p) /\ r \in MineIn(refund', p)
    BY <2>1, <2>2 DEF LiveIn, MineIn
  <2>5. r \notin LiveIn(refund, p) /\ r \notin MineIn(refund, p)
    BY <2>1 DEF LiveIn, MineIn
  <2>6. /\ OwedTerm(refund', r, p) = OwedTerm(refund, r, p) + amount
        /\ SentTerm(refund', sent', r, p) = SentTerm(refund, sent, r, p) + moved
    BY <2>2, <2>4, <2>5 DEF OwedTerm, SentTerm
  <2>7. amount \in Int /\ moved \in Int /\ amount > 0 /\ moved \in 0 .. amount
    BY <1>5
  <2>8. Moves(p, amount, moved)
    BY <2>1, <2>2, <2>3, <2>5, <2>6, <2>7, OneRefund
  <2>9. paymentAmount[p] # None /\ OwedIn(refund', p) =< paymentAmount[p]
    <3>1. Names(refund', p)
      BY <2>1, <2>2 DEF Names
    <3>2. OwedIn(refund', p) =< paymentAmount'[p]
      BY <3>1 DEF OwedPart
    <3>3. QED
      BY <1>5, <3>2 DEF Refundable
  <2>10. QED
    BY <1>3, <2>7, <2>8, <2>9, AccountStep
\* A Pending refund, for which nothing was sent, gets another status or goes.
<1>6. ASSUME NEW r \in RefundIds, refund[r].status = "Pending"
      PROVE  /\ refund[r].payment \in PaymentIds /\ refund[r].amount \in Nat \ {0}
             /\ r \in LiveIn(refund, refund[r].payment)
             /\ r \in MineIn(refund, refund[r].payment) /\ sent[r] = 0
  <2>1. sent[r] = 0
    BY <1>1, <1>2, <1>6
  <2>2. QED
    BY <1>6, <2>1, RefundRecorded DEF LiveIn, MineIn
<1>7. ASSUME NEW r \in RefundIds, SettleRefund(r, "Completed")
      PROVE  Goal
  <2> DEFINE p == refund[r].payment
             m == sent'[r]
  <2>1. /\ p \in PaymentIds /\ r \in LiveIn(refund, p) /\ r \in MineIn(refund, p)
        /\ sent[r] = 0 /\ refund[r].amount \in Nat \ {0}
    BY <1>6, <1>7 DEF SettleRefund
  <2>2. refund[r] \in RefundRecord
    BY <1>7, RefundRecorded DEF SettleRefund
  <2>3. /\ refund'[r].payment = refund[r].payment
        /\ refund'[r].amount = refund[r].amount /\ refund'[r].status = "Completed"
    BY <1>7, <2>2 DEF SettleRefund, RefundTypes, RefundRecord
  <2>4. \A x \in RefundIds : x # r => refund'[x] = refund[x] /\ sent'[x] = sent[x]
    BY <1>7 DEF SettleRefund, RefundTypes
  <2>5. r \in LiveIn(refund', p) /\ r \in MineIn(refund', p)
    BY <2>3 DEF LiveIn, MineIn
  <2>6. m \in Nat
    BY <1>1
  <2>7. /\ OwedTerm(refund', r, p) = OwedTerm(refund, r, p) + 0
        /\ SentTerm(refund', sent', r, p) = SentTerm(refund, sent, r, p) + m
    BY <2>1, <2>3, <2>5, <2>6 DEF OwedTerm, SentTerm
  <2>8. Moves(p, 0, m)
    <3>1. 0 \in Int /\ m \in Int
      BY <2>6
    <3> HIDE DEF m
    <3>2. QED
      BY <2>3, <2>4, <2>7, <3>1, OneRefund
  <2> HIDE DEF p, m
  <2>9. 0 \in Int /\ m \in Int /\ 0 = 0 /\ m >= 0
    BY <2>6
  <2>10. QED
    BY <1>3, <2>1, <2>8, <2>9, AccountStep
\* Its room is given back, and nothing that was sent.
<1>8. ASSUME NEW r \in RefundIds, refund[r].status = "Pending",
             refund'[r].status \in {"Rejected", "None"},
             refund'[r].status # "None" => refund'[r].payment = refund[r].payment,
             \A x \in RefundIds : x # r => refund'[x] = refund[x] /\ sent'[x] = sent[x],
             sent'[r] = 0
      PROVE  Goal
  <2> DEFINE p == refund[r].payment
             n == -refund[r].amount
  <2>1. /\ p \in PaymentIds /\ r \in LiveIn(refund, p) /\ r \in MineIn(refund, p)
        /\ sent[r] = 0 /\ refund[r].amount \in Nat \ {0}
    BY <1>6, <1>8
  <2>2. r \notin LiveIn(refund', p)
    BY <1>8 DEF LiveIn
  <2>3. n \in Int /\ n < 0 /\ 0 \in Int /\ 0 = 0
    BY <2>1
  <2>4. OwedTerm(refund', r, p) = OwedTerm(refund, r, p) + n
    BY <2>1, <2>2 DEF OwedTerm
  <2>5. SentTerm(refund', sent', r, p) = SentTerm(refund, sent, r, p) + 0
    BY <1>8, <2>1 DEF SentTerm
  <2> HIDE DEF n
  <2>6. Moves(p, n, 0)
    BY <1>8, <2>2, <2>3, <2>4, <2>5, OneRefund
  <2> HIDE DEF p
  <2>7. QED
    BY <1>3, <2>1, <2>3, <2>6, AccountStep
<1>9. ASSUME NEW r \in RefundIds, SettleRefund(r, "Rejected")
      PROVE  Goal
  <2>1. refund[r] \in RefundRecord /\ refund[r].status = "Pending"
    BY <1>9, RefundRecorded DEF SettleRefund
  <2>2. refund'[r].payment = refund[r].payment /\ refund'[r].status = "Rejected"
    BY <1>9, <2>1 DEF SettleRefund, RefundTypes, RefundRecord
  <2>3. \A x \in RefundIds : x # r => refund'[x] = refund[x] /\ sent'[x] = sent[x]
    BY <1>9 DEF SettleRefund, RefundTypes
  <2>4. sent'[r] = 0
    BY <1>1, <1>9 DEF SettleRefund
  <2>5. QED
    BY <1>8, <2>1, <2>2, <2>3, <2>4
<1>10. ASSUME NEW r \in RefundIds, DropRefund(r)
       PROVE  Goal
  <2>1. refund[r].status = "Pending" /\ refund'[r].status = "None"
    BY <1>10 DEF DropRefund, RefundTypes, NoRefund
  <2>2. \A x \in RefundIds : x # r => refund'[x] = refund[x] /\ sent'[x] = sent[x]
    BY <1>10 DEF DropRefund, RefundTypes
  <2>3. sent'[r] = 0
    BY <1>6, <1>10, <2>1 DEF DropRefund
  <2>4. QED
    BY <1>8, <2>1, <2>2, <2>3
<1> HIDE DEF Goal
<1>11. ASSUME NewRefund
       PROVE  Goal
  <2>1. PICK p \in PaymentIds, amount \in Nat \ {0}, who \in Customers,
             status \in {"Pending", "Completed"}, moved \in Nat :
           /\ Refundable(p, amount) /\ IssueRefund(p, amount, who, status, moved)
           /\ moved =< amount
    BY <1>11, Zenon DEF NewRefund
  <2>2. QED
    BY <1>5, <2>1
<1>12. Goal
  BY <1>4, <1>7, <1>9, <1>10, <1>11 DEF RefundStep, Goal
<1>13. QED
  BY <1>12 DEF Goal

LEMMA ClaimsNext ==
  ASSUME IInv, IInv', [Next]_vars
  PROVE  [C!Next]_(C!vars)
<1>1. RefundTypes /\ OtherTypes /\ RefundPart /\ TypeOK /\ PaidIsRecorded
  BY TypeParts DEF IInv, RefundPart
<1>2. RefundTypes' /\ RefundPart' /\ OwedPart'
  BY TypePartsPrime DEF IInv
<1>3. CASE UNCHANGED paymentAmount
  BY <1>1, <1>2, <1>3, RefundShapes, RefundMoves
<1>4. ASSUME NEW p \in PaymentIds, NEW amount \in PaymentAmounts, RegisterPayment(p, amount)
      PROVE  C!Next
  <2>1. refund' = refund /\ sent' = sent
    BY <1>4 DEF RegisterPayment, refundState
  <2>2. OwedBar' = OwedBar /\ SentBar' = SentBar
    BY <2>1, BarsAre
  <2>3. C!Open(p, amount)
    BY <1>4, <2>2 DEF RegisterPayment, C!Open
  <2>4. QED
    BY <2>3, Zenon DEF C!Next
<1>5. QED
  BY <1>3, <1>4, AmountsForm DEF Registers

LEMMA ClaimsInit ==
  ASSUME Init
  PROVE  C!Init
<1>1. ASSUME NEW p
      PROVE  OwedIn(refund, p) = 0 /\ SentIn(refund, sent, p) = 0
  <2>1. LiveIn(refund, p) = {} /\ MineIn(refund, p) = {}
    BY DEF Init, NoRefund, LiveIn, MineIn
  <2>2. QED
    BY <2>1, OwedSum, SumEmpty DEF SentIn
<1>2. /\ OwedBar = [p \in PaymentIds |-> 0]
      /\ SentBar = [p \in PaymentIds |-> 0]
  BY <1>1, BarsAre
<1>3. QED
  BY <1>2 DEF Init, C!Init

-----------------------------------------------------------------------------
(* Theorems *)

\* Every reachable state of the refund manager satisfies the inductive
\* invariant, for all sets of payments and arbitrators, amounts and rates.
THEOREM RefundsInductive == Spec => []IInv
<1>1. IInv /\ [Next]_vars => IInv'
  BY NextStep
<1>2. Init => IInv
  BY InitGood
<1>3. QED
  BY <1>1, <1>2, PTL DEF Spec

\* Type correctness of the refund manager.
THEOREM RefundsTypeCorrect == Spec => []TypeOK
BY RefundsInductive, IInvImplies, PTL

\* Money leaves the contract for a refund only if its record says Completed, and
\* never more than its amount.
THEOREM RefundsPaidIsRecorded == Spec => []PaidIsRecorded
BY RefundsInductive, IInvImplies, PTL

\* The per-payment lists, which the limits are computed from, are exact.
THEOREM RefundsListsExact == Spec => []ListsExact
BY RefundsInductive, IInvImplies, PTL

\* The refunds of a payment that were not rejected never add up to more than its
\* amount, nor what left the contract for them to more than they do, whichever
\* of the three ways created each.
THEOREM RefundsStayBounded == Spec => []RefundsBounded
BY RefundsInductive, IInvImplies, PTL

\* To each payment the refund manager is an account that is claimed, given out
\* and given up within its worth.
THEOREM RefundsImplementClaims == Spec => ImplementsClaims
<1>1. Init => C!Init
  BY ClaimsInit
<1>2. IInv /\ IInv' /\ [Next]_vars => [C!Next]_(C!vars)
  BY ClaimsNext
<1>3. QED
  BY <1>1, <1>2, RefundsInductive, PTL DEF Spec, ImplementsClaims, C!Spec

\* While a dispute is open its tally is the stake behind each choice.
THEOREM RefundsTallyExact == Spec => []TallyExact
BY RefundsInductive, IInvImplies, PTL

\* A refund that a dispute names is the one that resolved it, and no other's.
THEOREM DisputesNameTheirRefund == Spec => []DisputeNamesItsRefund
BY RefundsInductive, IInvImplies, PTL

\* A stake leaves a dispute once, after the verdict, in full to those who voted
\* for it and less the slash to the others.
THEOREM RefundsStakeJustice == Spec => []StakeJustice
BY RefundsInductive, IInvImplies, PTL

\* Settled refunds and decided disputes never change.
THEOREM RefundsFinal == Spec => Final
<1>1. IInv /\ [Next]_vars =>
         [/\ \A r \in RefundIds :
                 refund[r].status \in {"Completed", "Rejected"} => refund'[r] = refund[r]
          /\ \A d \in DisputeIds : Decided(d) => dispute'[d] = dispute[d]]_vars
  BY NextStep DEF RefundsKept, DisputesKept
<1>2. QED
  BY <1>1, RefundsInductive, PTL DEF Spec, Final
=============================================================================
