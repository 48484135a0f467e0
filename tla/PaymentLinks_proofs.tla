------------------------- MODULE PaymentLinks_proofs -------------------------
(***************************************************************************)
(* Proofs about PaymentLinks, for any links, merchants, amounts and terms. *)
(* A link stores its terms and a counter, the uses are stored nowhere: the *)
(* invariant says of each link that the uses of its present life are       *)
(* exactly counted and kept its terms, and adds when the life began and,   *)
(* for an inactive link, when it ended.                                    *)
(***************************************************************************)
EXTENDS PaymentLinks, FiniteSetTheorems, TLAPS

LifeOf(u, b, l) == {i \in b + 1 .. Len(u) : u[i].link = l}

\* What UsesKeepTheTerms says of one link.
Terms(link, u, b, c, l) ==
    /\ Cardinality(LifeOf(u, b, l)) = link.useCount
    /\ link.maxUses # None => link.useCount <= link.maxUses
    /\ \A i \in LifeOf(u, b, l) :
          /\ u[i].merchant = link.merchant
          /\ link.amount # None => u[i].amount = link.amount
          /\ link.expiresAt # None => u[i].at <= link.expiresAt
          /\ ~link.active => i <= c

\* When the life of a link began and whether it has ended.
Marks(link, u, b, c) ==
    /\ b <= Len(u)
    /\ IF link.active THEN c = None ELSE c \in Nat

Kept(link, u, b, c, l) ==
    link.exists => Terms(link, u, b, c, l) /\ Marks(link, u, b, c)

IInv ==
    /\ TypeOK
    /\ \A l \in LinkIds : Kept(links[l], uses, born[l], closed[l], l)

-----------------------------------------------------------------------------
\* A stored link is of type Link.
LEMMA Stored ==
    ASSUME TypeOK, NEW l \in LinkIds, links[l].exists
    PROVE  links[l] \in Link
BY DEF TypeOK, NoLink

\* The uses of a life are finitely many.
LEMMA LifeFinite ==
    ASSUME NEW u \in Seq(Use), NEW b \in Nat, NEW l
    PROVE  IsFiniteSet(LifeOf(u, b, l))
<1>1. IsFiniteSet(b + 1 .. Len(u))
  BY FS_Interval
<1> QED
  BY <1>1, FS_Subset DEF LifeOf

\* The first n uses are n.
LEMMA UpTo ==
    ASSUME NEW n \in Nat
    PROVE  IsFiniteSet(1 .. n) /\ Cardinality(1 .. n) = n
<1>1. /\ IsFiniteSet(1 .. n)
      /\ Cardinality(1 .. n) = IF 1 > n THEN 0 ELSE n - 1 + 1
  BY FS_Interval
<1> QED
  BY <1>1

\* A use adds itself to the life of its own link.
LEMMA LifeGrows ==
    ASSUME NEW u \in Seq(Use), NEW x \in Use, NEW b \in Nat, b <= Len(u)
    PROVE  LifeOf(Append(u, x), b, x.link) =
               LifeOf(u, b, x.link) \cup {Len(u) + 1}
BY DEF LifeOf

\* ... and leaves those of the other links alone.
LEMMA LifeKept ==
    ASSUME NEW u \in Seq(Use), NEW x \in Use, NEW b \in Nat, b <= Len(u),
           NEW l, l # x.link
    PROVE  LifeOf(Append(u, x), b, l) = LifeOf(u, b, l)
BY DEF LifeOf

-----------------------------------------------------------------------------
\* The terms of the other links survive a use.
LEMMA OthersKeep ==
    ASSUME NEW u \in Seq(Use), NEW x \in Use, NEW b \in Nat, NEW c,
           NEW link, NEW l, l # x.link, Kept(link, u, b, c, l)
    PROVE  Kept(link, Append(u, x), b, c, l)
<1> SUFFICES ASSUME link.exists
    PROVE  Terms(link, Append(u, x), b, c, l) /\ Marks(link, Append(u, x), b, c)
  BY DEF Kept
<1>1. Terms(link, u, b, c, l) /\ Marks(link, u, b, c)
  BY DEF Kept
<1>2. b <= Len(u) /\ Len(u) \in Nat
  BY <1>1 DEF Marks
<1>3. LifeOf(Append(u, x), b, l) = LifeOf(u, b, l)
  BY <1>2, LifeKept
<1>4. \A i \in LifeOf(u, b, l) : Append(u, x)[i] = u[i]
  BY <1>2 DEF LifeOf
<1>5. Terms(link, Append(u, x), b, c, l)
  BY <1>1, <1>3, <1>4 DEF Terms
<1>6. Marks(link, Append(u, x), b, c)
  BY <1>1, <1>2 DEF Marks
<1> QED
  BY <1>5, <1>6

\* A use that the checks let through keeps the terms of its link.
LEMMA UserKeeps ==
    ASSUME TypeOK, NEW l \in LinkIds, NEW amount \in Amounts,
           Usable(links[l], amount), Len(uses) < MaxUses,
           Kept(links[l], uses, born[l], closed[l], l)
    PROVE  LET link == links[l]
               x == [link |-> l, merchant |-> link.merchant,
                     amount |-> amount, at |-> now]
           IN  /\ x \in Use
               /\ [link EXCEPT !.useCount = @ + 1] \in Link
               /\ Kept([link EXCEPT !.useCount = @ + 1], Append(uses, x),
                       born[l], closed[l], l)
<1> DEFINE link == links[l]
           x == [link |-> l, merchant |-> link.merchant,
                 amount |-> amount, at |-> now]
           next == [link EXCEPT !.useCount = @ + 1]
           u == Append(uses, x)
           b == born[l]
           c == closed[l]
           n == Len(uses)
<1>1. link \in Link /\ link.exists /\ link.active
  BY Stored DEF Usable
<1>2. /\ uses \in Seq(Use) /\ b \in Nat /\ n \in Nat /\ now \in 0 .. MaxTime
      /\ Terms(link, uses, b, c, l) /\ Marks(link, uses, b, c)
  BY <1>1 DEF TypeOK, Kept
<1>3. b <= n /\ c = None
  BY <1>1, <1>2 DEF Marks
<1>4. x \in Use
  BY <1>1, <1>2 DEF Use, Link
<1>5. /\ link.useCount \in Nat /\ MaxUses \in Nat
      /\ link.useCount = Cardinality(LifeOf(uses, b, l))
  <2>1. link.useCount \in 0 .. MaxUses /\ MaxUses \in Nat
    BY <1>1, PaymentLinksAssumption DEF Link
  <2>2. Cardinality(LifeOf(uses, b, l)) = link.useCount
    BY <1>2 DEF Terms
  <2> QED
    BY <2>1, <2>2
<1>6. link.useCount <= n
  <2>1. LifeOf(uses, b, l) \subseteq 1 .. n
    BY <1>2 DEF LifeOf
  <2>2. IsFiniteSet(1 .. n) /\ Cardinality(1 .. n) = n
    BY <1>2, UpTo
  <2>3. Cardinality(LifeOf(uses, b, l)) <= Cardinality(1 .. n)
    BY <2>1, <2>2, FS_Subset
  <2> QED
    BY <2>2, <2>3, <1>5
<1>7. next \in Link
  <2>1. link.useCount + 1 \in 0 .. MaxUses
    BY <1>2, <1>5, <1>6
  <2> QED
    BY <1>1, <2>1 DEF Link
<1>8. LifeOf(u, b, l) = LifeOf(uses, b, l) \cup {n + 1}
  BY <1>2, <1>3, <1>4, LifeGrows
<1>9. Cardinality(LifeOf(u, b, l)) = link.useCount + 1
  <2>1. n + 1 \notin LifeOf(uses, b, l)
    BY <1>2 DEF LifeOf
  <2>2. IsFiniteSet(LifeOf(uses, b, l))
    BY <1>2, LifeFinite
  <2> QED
    BY <2>1, <2>2, <1>5, <1>8, FS_AddElement
<1>10. /\ next.useCount = link.useCount + 1 /\ next.maxUses = link.maxUses
       /\ next.merchant = link.merchant /\ next.amount = link.amount
       /\ next.expiresAt = link.expiresAt /\ next.active = link.active
  BY <1>1 DEF Link
<1>11. next.maxUses # None => next.useCount <= next.maxUses
  <2>1. link.maxUses # None => link.useCount < link.maxUses
    BY DEF Usable
  <2>2. link.maxUses # None => link.maxUses \in Nat
    BY <1>1, PaymentLinksAssumption DEF Link
  <2> QED
    BY <2>1, <2>2, <1>5, <1>10
<1>12. ASSUME NEW i \in LifeOf(u, b, l)
       PROVE  /\ u[i].merchant = next.merchant
              /\ next.amount # None => u[i].amount = next.amount
              /\ next.expiresAt # None => u[i].at <= next.expiresAt
              /\ ~next.active => i <= c
  <2>1. CASE i = n + 1
    <3>1. u[i] = x
      BY <2>1, <1>2, <1>4
    <3>2. /\ x.merchant = link.merchant /\ x.amount = amount /\ x.at = now
          /\ link.amount # None => amount = link.amount
          /\ link.expiresAt # None => now <= link.expiresAt
      BY DEF Usable
    <3> QED
      BY <3>1, <3>2, <1>1, <1>10
  <2>2. CASE i \in LifeOf(uses, b, l)
    <3>1. u[i] = uses[i]
      BY <2>2, <1>2, <1>4 DEF LifeOf
    <3> QED
      BY <3>1, <2>2, <1>1, <1>2, <1>10 DEF Terms
  <2> QED
    BY <2>1, <2>2, <1>8
<1>13. Terms(next, u, b, c, l)
  <2> HIDE DEF next, u, b, c
  <2> QED
    BY <1>9, <1>10, <1>11, <1>12 DEF Terms
<1>14. Marks(next, u, b, c)
  BY <1>1, <1>2, <1>3, <1>4, <1>10 DEF Marks
<1> QED
  BY <1>4, <1>7, <1>13, <1>14 DEF Kept

-----------------------------------------------------------------------------
LEMMA Initially == Init => IInv
BY PaymentLinksAssumption DEF Init, IInv, TypeOK, Kept, NoLink

LEMMA CreateKeeps ==
    ASSUME IInv, NEW m \in Merchants, NEW l \in LinkIds,
           NEW amount \in Prices \cup {None},
           NEW expiresAt \in Expiries \cup {None},
           NEW maxUses \in Limits \cup {None},
           CreateLink(m, l, amount, expiresAt, maxUses)
    PROVE  IInv'
<1> DEFINE link == [exists |-> TRUE, merchant |-> m, amount |-> amount,
                    expiresAt |-> expiresAt, maxUses |-> maxUses,
                    useCount |-> 0, active |-> TRUE]
<1>1. link \in Link
  BY PaymentLinksAssumption DEF Link
<1>2. Len(uses) \in Nat /\ uses \in Seq(Use)
  BY DEF IInv, TypeOK
<1>3. TypeOK'
  BY <1>1, <1>2 DEF CreateLink, IInv, TypeOK
<1>4. Kept(link, uses, Len(uses), None, l)
  <2>1. LifeOf(uses, Len(uses), l) = {}
    BY <1>2 DEF LifeOf
  <2>2. Cardinality(LifeOf(uses, Len(uses), l)) = 0
    BY <2>1, FS_EmptySet
  <2>3. maxUses # None => 0 <= maxUses
    BY PaymentLinksAssumption
  <2> QED
    BY <2>1, <2>2, <2>3, <1>2 DEF Kept, Terms, Marks
<1>5. ASSUME NEW k \in LinkIds
      PROVE  Kept(links'[k], uses', born'[k], closed'[k], k)
  <2>1. CASE k = l
    <3>1. /\ links'[k] = link /\ uses' = uses
          /\ born'[k] = Len(uses) /\ closed'[k] = None
      BY <2>1 DEF CreateLink, IInv, TypeOK
    <3> HIDE DEF link
    <3> QED
      BY <3>1, <2>1, <1>4
  <2>2. CASE k # l
    BY <2>2 DEF CreateLink, IInv, TypeOK
  <2> QED
    BY <2>1, <2>2
<1> QED
  BY <1>3, <1>5 DEF IInv

LEMMA UseKeeps ==
    ASSUME IInv, NEW l \in LinkIds, NEW amount \in Amounts, UseLink(l, amount)
    PROVE  IInv'
<1> DEFINE x == [link |-> l, merchant |-> links[l].merchant,
                 amount |-> amount, at |-> now]
           next == [links[l] EXCEPT !.useCount = @ + 1]
<1>1. /\ x \in Use /\ next \in Link
      /\ Kept(next, Append(uses, x), born[l], closed[l], l)
  BY UserKeeps DEF UseLink, IInv
<1>2. /\ links' = [links EXCEPT ![l] = next]
      /\ uses' = Append(uses, x) /\ x.link = l
      /\ UNCHANGED <<now, born, closed>>
  BY DEF UseLink
<1> HIDE DEF x, next
<1>3. TypeOK'
  BY <1>1, <1>2 DEF IInv, TypeOK
<1>4. ASSUME NEW k \in LinkIds
      PROVE  Kept(links'[k], uses', born'[k], closed'[k], k)
  <2>1. CASE k = l
    BY <2>1, <1>1, <1>2 DEF IInv, TypeOK
  <2>2. CASE k # l
    <3>1. uses \in Seq(Use) /\ born[k] \in Nat /\ k # x.link
      BY <2>2, <1>2 DEF IInv, TypeOK
    <3>2. Kept(links[k], uses, born[k], closed[k], k)
      BY DEF IInv
    <3>3. Kept(links[k], Append(uses, x), born[k], closed[k], k)
      BY <3>1, <3>2, <1>1, OthersKeep
    <3>4. links'[k] = links[k]
      BY <2>2, <1>2 DEF IInv, TypeOK
    <3> QED
      BY <3>3, <3>4, <1>2
  <2> QED
    BY <2>1, <2>2
<1> QED
  BY <1>3, <1>4 DEF IInv

LEMMA DeactivateKeeps ==
    ASSUME IInv, NEW m \in Merchants, NEW l \in LinkIds, DeactivateLink(m, l)
    PROVE  IInv'
<1> DEFINE link == links[l]
           next == [link EXCEPT !.active = FALSE]
           c == IF closed[l] = None THEN Len(uses) ELSE closed[l]
<1>1. /\ links' = [links EXCEPT ![l] = next]
      /\ closed' = [closed EXCEPT ![l] = c]
      /\ UNCHANGED <<now, uses, born>>
  BY DEF DeactivateLink, IInv, TypeOK
<1>2. link \in Link /\ link.exists
  BY Stored DEF DeactivateLink, IInv
<1>3. /\ next \in Link /\ next.useCount = link.useCount
      /\ next.maxUses = link.maxUses /\ next.merchant = link.merchant
      /\ next.amount = link.amount /\ next.expiresAt = link.expiresAt
      /\ ~next.active
  BY <1>2 DEF Link
<1>4. /\ Len(uses) \in Nat /\ born[l] \in Nat /\ uses \in Seq(Use)
      /\ closed[l] \in Nat \cup {None}
      /\ Terms(link, uses, born[l], closed[l], l)
      /\ Marks(link, uses, born[l], closed[l])
  BY <1>2 DEF IInv, TypeOK, Kept
<1>5. c \in Nat
  BY <1>4
<1>6. \A i \in LifeOf(uses, born[l], l) : i <= c
  <2>1. CASE link.active
    <3>1. c = Len(uses)
      BY <2>1, <1>4 DEF Marks
    <3> QED
      BY <3>1, <1>4 DEF LifeOf
  <2>2. CASE ~link.active
    <3>1. c = closed[l]
      BY <2>2, <1>4, PaymentLinksAssumption DEF Marks
    <3> QED
      BY <3>1, <2>2, <1>4 DEF Terms
  <2> QED
    BY <2>1, <2>2
<1> HIDE DEF next, c
<1>7. Kept(next, uses, born[l], c, l)
  BY <1>3, <1>4, <1>5, <1>6 DEF Kept, Terms, Marks
<1>8. TypeOK'
  BY <1>1, <1>3, <1>5 DEF IInv, TypeOK
<1>9. ASSUME NEW k \in LinkIds
      PROVE  Kept(links'[k], uses', born'[k], closed'[k], k)
  <2>1. CASE k = l
    BY <2>1, <1>1, <1>7 DEF IInv, TypeOK
  <2>2. CASE k # l
    BY <2>2, <1>1 DEF IInv, TypeOK
  <2> QED
    BY <2>1, <2>2
<1> QED
  BY <1>8, <1>9 DEF IInv

LEMMA TimeKeeps ==
    ASSUME IInv, Tick \/ UNCHANGED vars
    PROVE  IInv'
<1>1. UNCHANGED <<links, uses, born, closed>> /\ now' \in 0 .. MaxTime
  BY PaymentLinksAssumption DEF Tick, vars, IInv, TypeOK
<1>2. TypeOK'
  BY <1>1 DEF IInv, TypeOK
<1> QED
  BY <1>1, <1>2 DEF IInv

\* The invariant is inductive.
THEOREM Invariance == Spec => []IInv
<1>1. ASSUME IInv, [Next]_vars
      PROVE  IInv'
  <2>1. ASSUME NEW m \in Merchants, NEW l \in LinkIds,
               NEW amount \in Prices \cup {None},
               NEW expiresAt \in Expiries \cup {None},
               NEW maxUses \in Limits \cup {None},
               CreateLink(m, l, amount, expiresAt, maxUses)
        PROVE  IInv'
    BY <2>1, <1>1, CreateKeeps
  <2>2. ASSUME NEW m \in Merchants, NEW l \in LinkIds, DeactivateLink(m, l)
        PROVE  IInv'
    BY <2>2, <1>1, DeactivateKeeps
  <2>3. ASSUME NEW l \in LinkIds, NEW amount \in Amounts, UseLink(l, amount)
        PROVE  IInv'
    BY <2>3, <1>1, UseKeeps
  <2>4. CASE Tick \/ UNCHANGED vars
    BY <2>4, <1>1, TimeKeeps
  <2> QED
    BY <2>1, <2>2, <2>3, <2>4, <1>1 DEF Next
<1> QED
  BY <1>1, Initially, PTL DEF Spec

-----------------------------------------------------------------------------
\* Every reachable state of PaymentLinkManager has its type: in particular
\* the counter of a link never exceeds the number of uses there were.
THEOREM LinksTypeCorrect == Spec => []TypeOK
<1>1. IInv => TypeOK
  BY DEF IInv
<1> QED
  BY <1>1, Invariance, PTL

\* However creations, uses, deactivations and the clock interleave, the uses
\* of a link since it was created kept the terms it has (use_link,
\* create_link, deactivate_link).
THEOREM LinksUsesKeepTheTerms == Spec => []UsesKeepTheTerms
<1>1. ASSUME IInv
      PROVE  UsesKeepTheTerms
  <2>1. ASSUME NEW l \in LinkIds, links[l].exists
        PROVE  Terms(links[l], uses, born[l], closed[l], l)
    BY <2>1, <1>1 DEF IInv, Kept
  <2>2. \A l \in LinkIds : Life(l) = LifeOf(uses, born[l], l)
    BY DEF Life, LifeOf
  <2> QED
    BY <2>1, <2>2 DEF UsesKeepTheTerms, Terms
<1> QED
  BY <1>1, Invariance, PTL
=============================================================================
