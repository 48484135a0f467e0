---------------------------- MODULE PaymentLinks ----------------------------
(***************************************************************************)
(* PaymentLinkManager (payment_link.rs): a merchant creates a link, payers *)
(* use it, and its expiry, its number of uses and its amount decide each   *)
(* use.  A link is created under any identifier, used or not, by any       *)
(* merchant: whatever stood there before is replaced, and the uses are     *)
(* counted from 0 again.                                                   *)
(*                                                                         *)
(* Currency, description and metadata are left out, and so are the         *)
(* tracking identifiers, which are the time of the use.  A use of a direct *)
(* link transfers the amount to the merchant the link names at that        *)
(* moment; a use of any other moves no tokens and is only counted.         *)
(*                                                                         *)
(* Operators whose name ends in _M are deliberate mistakes that            *)
(* PROJECT.json puts in the place of the definition that follows.          *)
(***************************************************************************)
EXTENDS Integers, Sequences, FiniteSetsExt

CONSTANTS
    LinkIds,
    Merchants,
    Amounts,         \* what a payer may offer
    Prices,          \* the fixed amounts among them
    Limits,          \* values of max_uses, 0 among them
    Expiries,        \* values of expires_at
    MaxUses,         \* bound: uses in a run
    MaxTime,         \* bound on the ledger clock
    None             \* an Option that is not set

ASSUME PaymentLinksAssumption ==
    /\ Amounts \subseteq Nat
    /\ Prices \subseteq Amounts
    /\ Limits \subseteq Nat
    /\ Expiries \subseteq Nat
    /\ MaxUses \in Nat
    /\ MaxTime \in Nat
    /\ None \notin Nat

VARIABLES
    links,           \* LinkDataKey::Link
    now,             \* the ledger timestamp
    uses,            \* history: the uses that succeeded
    born,            \* history: for a link, how many uses there were when it
                     \* was created last
    closed           \* history: ... when it was deactivated last

vars == <<links, now, uses, born, closed>>

-----------------------------------------------------------------------------
NoLink == [exists |-> FALSE]

Link ==
    [exists : {TRUE}, merchant : Merchants, amount : Prices \cup {None},
     expiresAt : Expiries \cup {None}, maxUses : Limits \cup {None},
     useCount : 0 .. MaxUses, active : BOOLEAN]

Use == [link : LinkIds, merchant : Merchants, amount : Amounts,
        at : 0 .. MaxTime]

Init ==
    /\ links = [l \in LinkIds |-> NoLink]
    /\ now = 0
    /\ uses = <<>>
    /\ born = [l \in LinkIds |-> 0]
    /\ closed = [l \in LinkIds |-> None]

CreateLink(m, l, amount, expiresAt, maxUses) ==
    /\ links' = [links EXCEPT ![l] =
           [exists |-> TRUE, merchant |-> m, amount |-> amount,
            expiresAt |-> expiresAt, maxUses |-> maxUses, useCount |-> 0,
            active |-> TRUE]]
    /\ born' = [born EXCEPT ![l] = Len(uses)]
    /\ closed' = [closed EXCEPT ![l] = None]
    /\ UNCHANGED <<now, uses>>

Usable_Once_More_M(link, amount) ==
    /\ link.exists /\ link.active
    /\ link.expiresAt # None => now <= link.expiresAt
    /\ link.maxUses # None => link.useCount <= link.maxUses
    /\ IF link.amount # None THEN amount = link.amount ELSE amount > 0

\* The checks of use_link.  A fixed amount is not checked to be positive.
Usable(link, amount) ==
    /\ link.exists /\ link.active
    /\ link.expiresAt # None => now <= link.expiresAt
    /\ link.maxUses # None => link.useCount < link.maxUses
    /\ IF link.amount # None THEN amount = link.amount ELSE amount > 0

UseLink(l, amount) ==
    LET link == links[l]
    IN  /\ Len(uses) < MaxUses
        /\ Usable(link, amount)
        /\ links' = [links EXCEPT ![l].useCount = @ + 1]
        /\ uses' = Append(uses, [link |-> l, merchant |-> link.merchant,
                                 amount |-> amount, at |-> now])
        /\ UNCHANGED <<now, born, closed>>

DeactivateLink(m, l) ==
    /\ links[l].exists
    /\ links[l].merchant = m
    /\ links' = [links EXCEPT ![l].active = FALSE]
    /\ closed' = [closed EXCEPT ![l] = IF @ = None THEN Len(uses) ELSE @]
    /\ UNCHANGED <<now, uses, born>>

Tick ==
    /\ now < MaxTime
    /\ now' = now + 1
    /\ UNCHANGED <<links, uses, born, closed>>

Next ==
    \/ \E m \in Merchants, l \in LinkIds :
          \/ \E amount \in Prices \cup {None},
                expiresAt \in Expiries \cup {None},
                maxUses \in Limits \cup {None} :
                CreateLink(m, l, amount, expiresAt, maxUses)
          \/ DeactivateLink(m, l)
    \/ \E l \in LinkIds, amount \in Amounts : UseLink(l, amount)
    \/ Tick

Spec == Init /\ [][Next]_vars

-----------------------------------------------------------------------------
(* Properties *)

\* Every stored value has its type.
TypeOK ==
    /\ links \in [LinkIds -> Link \cup {NoLink}]
    /\ now \in 0 .. MaxTime
    /\ uses \in Seq(Use)
    /\ born \in [LinkIds -> Nat]
    /\ closed \in [LinkIds -> Nat \cup {None}]

\* The uses of a link since it was created last.
Life(l) == {i \in born[l] + 1 .. Len(uses) : uses[i].link = l}

\* However uses, re-creations, deactivations and the clock interleave, every
\* use since a link was created kept the terms the link has: its merchant,
\* its amount, its expiry, its number of uses, which the link counts right,
\* and none came after its deactivation.
UsesKeepTheTerms ==
    \A l \in LinkIds : links[l].exists =>
        LET link == links[l]
        IN  /\ Cardinality(Life(l)) = link.useCount
            /\ link.maxUses # None => link.useCount <= link.maxUses
            /\ \A i \in Life(l) :
                  /\ uses[i].merchant = link.merchant
                  /\ link.amount # None => uses[i].amount = link.amount
                  /\ link.expiresAt # None => uses[i].at <= link.expiresAt
                  /\ ~link.active => i <= closed[l]
=============================================================================
