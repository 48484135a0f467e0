------------------------------ MODULE Refunds ------------------------------
(***************************************************************************)
(* RefundManager (lib.rs): refunds of registered payments, disputes about  *)
(* them, and the stake-weighted votes that decide disputes, paid out of    *)
(* the tokens the contract holds.                                          *)
(*                                                                         *)
(* A handler is one ledger transaction and an error undoes it, so actions  *)
(* are the calls that succeed.  try_transfer is the exception: its failure *)
(* is swallowed and the rest of the handler is kept.                       *)
(*                                                                         *)
(* Whoever may call a handler (operators, the requester, an admin) is left *)
(* out: some such account exists and no state depends on which.            *)
(* Operators whose name ends in _M are deliberate mistakes that            *)
(* PROJECT.json puts in the place of the definition that follows.          *)
(***************************************************************************)
EXTENDS Integers, FiniteSets, Functions

CONSTANTS
    PaymentIds, Customers, Arbitrators,
    Tokens,            \* token contracts a caller may name
    UsdcToken,         \* DataKey::UsdcToken, what refunds are paid in
    PaymentAmounts,    \* amounts a caller registers
    RefundAmounts,     \* amounts a caller asks back
    Stakes,            \* amounts an arbitrator offers
    Deadlines,         \* review deadlines an operator sets
    Funds,             \* amounts that reach the contract from outside
    None,              \* not registered, no refund, no deadline
    FeeBps,            \* REFUND_FEE_BPS
    SlashBps,          \* slash_bps of finalize_dispute_vote
    MaxRefunds,        \* bound on the refunds ever created
    MaxDisputes,       \* bound on the disputes ever created
    MaxHeld,           \* bound on what the contract is sent of a token
    MaxTime            \* bound on the ledger clock

ASSUME RefundsAssumption ==
    /\ PaymentAmounts \subseteq Int
    /\ RefundAmounts \subseteq Int
    /\ Stakes \subseteq Int
    /\ Funds \subseteq Nat
    /\ Deadlines \subseteq Nat
    /\ UsdcToken \in Tokens
    /\ None \notin Int
    /\ FeeBps \in Nat /\ FeeBps < 10000
    /\ SlashBps \in Nat /\ SlashBps < 10000
    /\ MaxRefunds \in Nat /\ MaxDisputes \in Nat
    /\ MaxHeld \in Nat /\ MaxTime \in Nat

RefundIds == 1 .. MaxRefunds
DisputeIds == 1 .. MaxDisputes

VARIABLES
    paymentAmount,     \* DataKey::Payment: register_payment stores it Confirmed
    refund,            \* DataKey::Refund
    refundCounter,     \* DataKey::RefundCounter
    paymentRefunds,    \* DataKey::PaymentRefunds, see below
    dispute,           \* DataKey::Dispute
    disputeCounter,    \* DataKey::DisputeCounter
    paymentDisputes,   \* DataKey::PaymentDisputes, the same
    stake,             \* DataKey::DisputeStake, 0 where there is none
    vote,              \* DataKey::DisputeVote
    tally,             \* DataKey::DisputeVoteTally
    held,              \* tokens the contract owns
    now,               \* the ledger timestamp
    sent,              \* history: what left the contract for a refund
    returned,          \* history: stake given back to an arbitrator
    slashed            \* history: stake passed on to the admin

vars == <<paymentAmount, refund, refundCounter, paymentRefunds, dispute,
          disputeCounter, paymentDisputes, stake, vote, tally, held, now,
          sent, returned, slashed>>
refundState == <<refund, refundCounter, paymentRefunds, sent>>
disputeState == <<dispute, disputeCounter, paymentDisputes>>
voteState == <<stake, vote, tally, returned, slashed>>

-----------------------------------------------------------------------------
\* The two lists of a payment get each new identifier at their end, and
\* identifiers only grow: a list is the set of its entries in order, and the
\* set is what is kept here.

NoRefund == [status |-> "None"]
NoDispute == [status |-> "None"]

RefundRecord ==
    [payment : PaymentIds, amount : Nat \ {0}, requester : Customers,
     status : {"Pending", "Completed", "Rejected"}]

DisputeRecord ==
    [payment : PaymentIds, amount : Nat \ {0}, disputer : Customers,
     status : {"Open", "UnderReview", "Resolved", "Rejected"},
     refundId : RefundIds \cup {None}, deadline : Nat \cup {None},
     escalated : BOOLEAN]

Undecided(d) == dispute[d].status \in {"Open", "UnderReview"}
Decided(d) == dispute[d].status \in {"Resolved", "Rejected"}

\* The sum of the listed records that exist and were not rejected.
ListedSum(record, list) ==
    LET counts == {i \in list : record[i].status \notin {"None", "Rejected"}}
    IN  SumFunction([i \in counts |-> record[i].amount])

Refunded(p) == ListedSum(refund, paymentRefunds[p])
Disputed(p) == ListedSum(dispute, paymentDisputes[p])

Refundable_Zero_M(p, amount) ==
    /\ paymentAmount[p] # None
    /\ Refunded(p) + amount =< paymentAmount[p]

Refundable_Stateless_M(p, amount) ==
    /\ amount > 0
    /\ paymentAmount[p] # None
    /\ amount =< paymentAmount[p]

\* What create_refund_internal checks.
Refundable(p, amount) ==
    /\ amount > 0
    /\ paymentAmount[p] # None
    /\ Refunded(p) + amount =< paymentAmount[p]

Share(amount, bps) == (amount * bps) \div 10000
Fee(amount) == Share(amount, FeeBps)
Slash(amount) == Share(amount, SlashBps)

\* What process_refund_internal may move when the contract owns balance: the
\* refund to its requester and the fee to the admin, in this order, and both
\* transfers may fail without failing the call.
Payouts(amount, balance) == {x \in {0, amount - Fee(amount), amount} : x =< balance}

-----------------------------------------------------------------------------
Init ==
    /\ paymentAmount = [p \in PaymentIds |-> None]
    /\ refund = [r \in RefundIds |-> NoRefund]
    /\ refundCounter = 0
    /\ paymentRefunds = [p \in PaymentIds |-> {}]
    /\ dispute = [d \in DisputeIds |-> NoDispute]
    /\ disputeCounter = 0
    /\ paymentDisputes = [p \in PaymentIds |-> {}]
    /\ stake = [d \in DisputeIds |-> [a \in Arbitrators |-> 0]]
    /\ vote = [d \in DisputeIds |-> [a \in Arbitrators |-> "None"]]
    /\ tally = [d \in DisputeIds |-> [favour |-> 0, against |-> 0]]
    /\ held = [t \in Tokens |-> 0]
    /\ now = 0
    /\ sent = [r \in RefundIds |-> 0]
    /\ returned = [d \in DisputeIds |-> [a \in Arbitrators |-> 0]]
    /\ slashed = [d \in DisputeIds |-> [a \in Arbitrators |-> 0]]

\* A payment that is registered already keeps its first amount.
RegisterPayment(p, amount) ==
    /\ paymentAmount[p] = None
    /\ paymentAmount' = [paymentAmount EXCEPT ![p] = amount]
    /\ UNCHANGED <<refundState, disputeState, voteState, held, now>>

\* Stores a refund under the next identifier and lists it for its payment.
IssueRefund(p, amount, who, status, moved) ==
    LET r == refundCounter + 1
    IN  /\ r \in RefundIds
        /\ refundCounter' = r
        /\ refund' = [refund EXCEPT ![r] =
               [payment |-> p, amount |-> amount, requester |-> who, status |-> status]]
        /\ paymentRefunds' = [paymentRefunds EXCEPT ![p] = @ \cup {r}]
        /\ sent' = [sent EXCEPT ![r] = moved]

CreateRefund(p, amount, who) ==
    /\ Refundable(p, amount)
    /\ IssueRefund(p, amount, who, "Pending", 0)
    /\ UNCHANGED <<paymentAmount, disputeState, voteState, held, now>>

ProcessRefund_Again_M(r) ==
    /\ refund[r].status \in {"Pending", "Rejected"}
    /\ refund' = [refund EXCEPT ![r].status = "Completed"]
    /\ \E moved \in Payouts(refund[r].amount, held[UsdcToken]) :
           /\ sent' = [sent EXCEPT ![r] = moved]
           /\ held' = [held EXCEPT ![UsdcToken] = @ - moved]
    /\ UNCHANGED <<paymentAmount, refundCounter, paymentRefunds, disputeState,
                   voteState, now>>

\* Completed is stored before the transfer, whether or not money then moves.
ProcessRefund(r) ==
    /\ refund[r].status = "Pending"
    /\ refund' = [refund EXCEPT ![r].status = "Completed"]
    /\ \E moved \in Payouts(refund[r].amount, held[UsdcToken]) :
           /\ sent' = [sent EXCEPT ![r] = moved]
           /\ held' = [held EXCEPT ![UsdcToken] = @ - moved]
    /\ UNCHANGED <<paymentAmount, refundCounter, paymentRefunds, disputeState,
                   voteState, now>>

RejectRefund_Completed_M(r) ==
    /\ refund[r].status \in {"Pending", "Completed"}
    /\ refund' = [refund EXCEPT ![r].status = "Rejected"]
    /\ UNCHANGED <<paymentAmount, refundCounter, paymentRefunds, sent,
                   disputeState, voteState, held, now>>

RejectRefund(r) ==
    /\ refund[r].status = "Pending"
    /\ refund' = [refund EXCEPT ![r].status = "Rejected"]
    /\ UNCHANGED <<paymentAmount, refundCounter, paymentRefunds, sent,
                   disputeState, voteState, held, now>>

CancelRefund_KeepsEntry_M(r) ==
    /\ refund[r].status = "Pending"
    /\ refund' = [refund EXCEPT ![r] = NoRefund]
    /\ UNCHANGED <<paymentAmount, refundCounter, paymentRefunds, sent,
                   disputeState, voteState, held, now>>

CancelRefund_Completed_M(r) ==
    /\ refund[r].status \in {"Pending", "Completed"}
    /\ refund' = [refund EXCEPT ![r] = NoRefund]
    /\ paymentRefunds' = [paymentRefunds EXCEPT ![refund[r].payment] = @ \ {r}]
    /\ UNCHANGED <<paymentAmount, refundCounter, sent, disputeState, voteState,
                   held, now>>

\* The record goes, its identifier is not used again.
CancelRefund(r) ==
    /\ refund[r].status = "Pending"
    /\ refund' = [refund EXCEPT ![r] = NoRefund]
    /\ paymentRefunds' = [paymentRefunds EXCEPT ![refund[r].payment] = @ \ {r}]
    /\ UNCHANGED <<paymentAmount, refundCounter, sent, disputeState, voteState,
                   held, now>>

-----------------------------------------------------------------------------
\* What is disputed and what is refunded already leave room for the amount.
CreateDispute(p, amount, who) ==
    LET d == disputeCounter + 1
    IN  /\ amount > 0
        /\ paymentAmount[p] # None
        /\ amount =< paymentAmount[p]
        /\ Disputed(p) + Refunded(p) + amount =< paymentAmount[p]
        /\ d \in DisputeIds
        /\ disputeCounter' = d
        /\ dispute' = [dispute EXCEPT ![d] =
               [payment |-> p, amount |-> amount, disputer |-> who, status |-> "Open",
                refundId |-> None, deadline |-> None, escalated |-> FALSE]]
        /\ paymentDisputes' = [paymentDisputes EXCEPT ![p] = @ \cup {d}]
        /\ UNCHANGED <<paymentAmount, refundState, voteState, held, now>>

ReviewDispute(d) ==
    /\ dispute[d].status = "Open"
    /\ dispute' = [dispute EXCEPT ![d].status = "UnderReview"]
    /\ UNCHANGED <<paymentAmount, refundState, disputeCounter, paymentDisputes,
                   voteState, held, now>>

\* An escalated dispute stays so when its deadline is moved.
SetDisputeDeadline(d, deadline) ==
    /\ Undecided(d)
    /\ dispute' = [dispute EXCEPT ![d].deadline = deadline,
                                  ![d].escalated = @ \/ now > deadline]
    /\ UNCHANGED <<paymentAmount, refundState, disputeCounter, paymentDisputes,
                   voteState, held, now>>

\* get_dispute of an overdue dispute, the read that writes.
EscalateOnRead(d) ==
    /\ Undecided(d)
    /\ dispute[d].deadline # None
    /\ now > dispute[d].deadline
    /\ ~dispute[d].escalated
    /\ dispute' = [dispute EXCEPT ![d].escalated = TRUE]
    /\ UNCHANGED <<paymentAmount, refundState, disputeCounter, paymentDisputes,
                   voteState, held, now>>

ResolveDisputeWithRefund_StaleId_M(d) ==
    LET c == dispute[d]
    IN  /\ Undecided(d)
        /\ Refundable(c.payment, c.amount)
        /\ \E moved \in Payouts(c.amount, held[UsdcToken]) :
               /\ IssueRefund(c.payment, c.amount, c.disputer, "Completed", moved)
               /\ held' = [held EXCEPT ![UsdcToken] = @ - moved]
        /\ dispute' = [dispute EXCEPT ![d].status = "Resolved",
               ![d].refundId = IF refundCounter = 0 THEN None ELSE refundCounter]
        /\ UNCHANGED <<paymentAmount, disputeCounter, paymentDisputes, voteState, now>>

\* Creates the refund and processes it in the same call.
ResolveDisputeWithRefund(d) ==
    LET c == dispute[d]
    IN  /\ Undecided(d)
        /\ Refundable(c.payment, c.amount)
        /\ \E moved \in Payouts(c.amount, held[UsdcToken]) :
               /\ IssueRefund(c.payment, c.amount, c.disputer, "Completed", moved)
               /\ held' = [held EXCEPT ![UsdcToken] = @ - moved]
        /\ dispute' = [dispute EXCEPT ![d].status = "Resolved",
                                      ![d].refundId = refundCounter + 1]
        /\ UNCHANGED <<paymentAmount, disputeCounter, paymentDisputes, voteState, now>>

RejectDispute(d) ==
    /\ Undecided(d)
    /\ dispute' = [dispute EXCEPT ![d].status = "Rejected"]
    /\ UNCHANGED <<paymentAmount, refundState, disputeCounter, paymentDisputes,
                   voteState, held, now>>

-----------------------------------------------------------------------------
\* Nothing records the token: finalize_dispute_vote is told one of its own.
LockStake(d, a, token, amount) ==
    /\ amount > 0
    /\ Undecided(d)
    /\ stake[d][a] = 0
    /\ held[token] + amount =< MaxHeld
    /\ stake' = [stake EXCEPT ![d][a] = amount]
    /\ held' = [held EXCEPT ![token] = @ + amount]
    /\ UNCHANGED <<paymentAmount, refundState, disputeState, vote, tally,
                   returned, slashed, now>>

CastVote_Twice_M(d, a, choice) ==
    /\ Undecided(d)
    /\ stake[d][a] > 0
    /\ vote' = [vote EXCEPT ![d][a] = choice]
    /\ tally' = [tally EXCEPT
           ![d].favour = IF choice = "Favour" THEN @ + stake[d][a] ELSE @,
           ![d].against = IF choice = "Against" THEN @ + stake[d][a] ELSE @]
    /\ UNCHANGED <<paymentAmount, refundState, disputeState, stake, returned,
                   slashed, held, now>>

CastVote(d, a, choice) ==
    /\ Undecided(d)
    /\ stake[d][a] > 0
    /\ vote[d][a] = "None"
    /\ vote' = [vote EXCEPT ![d][a] = choice]
    /\ tally' = [tally EXCEPT
           ![d].favour = IF choice = "Favour" THEN @ + stake[d][a] ELSE @,
           ![d].against = IF choice = "Against" THEN @ + stake[d][a] ELSE @]
    /\ UNCHANGED <<paymentAmount, refundState, disputeState, stake, returned,
                   slashed, held, now>>

\* A tie, no vote at all included, is in favour.
Majority(d) ==
    IF tally[d].favour >= tally[d].against THEN "Favour" ELSE "Against"

\* The arbitrators the operator lists, in whatever order and however often,
\* that have a stake and a vote: the others keep their stake in the contract.
Released(d, listed) == {a \in listed : stake[d][a] > 0 /\ vote[d][a] # "None"}

Lost_Favour_M(d, a) == vote[d][a] # "Favour"
Lost(d, a) == vote[d][a] # Majority(d)

ReleaseStakes(d, S) ==
    LET cut(a) == IF Lost(d, a) THEN Slash(stake[d][a]) ELSE 0
        update(f, g(_)) == [f EXCEPT ![d] =
            [a \in Arbitrators |-> IF a \in S THEN g(a) ELSE f[d][a]]]
    IN  /\ stake' = update(stake, LAMBDA a : 0)
        /\ slashed' = update(slashed, cut)
        /\ returned' = update(returned, LAMBDA a : stake[d][a] - cut(a))

\* A favourable verdict pays the refund if it still fits and is given either
\* way; it does not record the refund in the dispute.
FinalizeDisputeVote(d, token, listed) ==
    LET c == dispute[d]
        S == Released(d, listed)
        left == held[token] - SumFunctionOnSet(stake[d], S)
        rest == [held EXCEPT ![token] = left]
        favour == Majority(d) = "Favour"
    IN  /\ Undecided(d)
        /\ left \in Nat                  \* the transfers are covered
        /\ ReleaseStakes(d, S)
        /\ dispute' = [dispute EXCEPT ![d].status =
               IF favour THEN "Resolved" ELSE "Rejected"]
        /\ \/ /\ favour /\ Refundable(c.payment, c.amount)
              /\ \E moved \in Payouts(c.amount, rest[UsdcToken]) :
                     /\ IssueRefund(c.payment, c.amount, c.disputer, "Completed", moved)
                     /\ held' = [rest EXCEPT ![UsdcToken] = @ - moved]
           \/ /\ ~favour \/ ~Refundable(c.payment, c.amount)
              /\ held' = rest
              /\ UNCHANGED refundState
        /\ UNCHANGED <<paymentAmount, disputeCounter, paymentDisputes, vote,
                       tally, now>>

-----------------------------------------------------------------------------
\* External: tokens are sent to the contract.
Fund(token, amount) ==
    /\ held[token] + amount =< MaxHeld
    /\ held' = [held EXCEPT ![token] = @ + amount]
    /\ UNCHANGED <<paymentAmount, refundState, disputeState, voteState, now>>

Tick ==
    /\ now < MaxTime
    /\ now' = now + 1
    /\ UNCHANGED <<paymentAmount, refundState, disputeState, voteState, held>>

Next ==
    \/ \E p \in PaymentIds :
          \/ \E amount \in PaymentAmounts : RegisterPayment(p, amount)
          \/ \E amount \in RefundAmounts, who \in Customers :
                CreateRefund(p, amount, who) \/ CreateDispute(p, amount, who)
    \/ \E r \in RefundIds : ProcessRefund(r) \/ RejectRefund(r) \/ CancelRefund(r)
    \/ \E d \in DisputeIds :
          \/ ReviewDispute(d)
          \/ \E deadline \in Deadlines : SetDisputeDeadline(d, deadline)
          \/ EscalateOnRead(d)
          \/ ResolveDisputeWithRefund(d)
          \/ RejectDispute(d)
          \/ \E a \in Arbitrators :
                \/ \E token \in Tokens, amount \in Stakes : LockStake(d, a, token, amount)
                \/ \E choice \in {"Favour", "Against"} : CastVote(d, a, choice)
          \/ \E token \in Tokens, listed \in SUBSET Arbitrators :
                FinalizeDisputeVote(d, token, listed)
    \/ \E token \in Tokens, amount \in Funds : Fund(token, amount)
    \/ Tick

Spec == Init /\ [][Next]_vars
-----------------------------------------------------------------------------
(* Properties *)

Amounts(S) == [Arbitrators -> S]

TypeOK ==
    /\ paymentAmount \in [PaymentIds -> Int \cup {None}]
    /\ refund \in [RefundIds -> RefundRecord \cup {NoRefund}]
    /\ refundCounter \in 0 .. MaxRefunds
    /\ paymentRefunds \in [PaymentIds -> SUBSET RefundIds]
    /\ dispute \in [DisputeIds -> DisputeRecord \cup {NoDispute}]
    /\ disputeCounter \in 0 .. MaxDisputes
    /\ paymentDisputes \in [PaymentIds -> SUBSET DisputeIds]
    /\ stake \in [DisputeIds -> Amounts(Nat)]
    /\ vote \in [DisputeIds -> Amounts({"None", "Favour", "Against"})]
    /\ tally \in [DisputeIds -> [favour : Nat, against : Nat]]
    /\ held \in [Tokens -> Nat]
    /\ now \in Nat
    /\ sent \in [RefundIds -> Nat]
    /\ returned \in [DisputeIds -> Amounts(Nat)]
    /\ slashed \in [DisputeIds -> Amounts(Nat)]

\* The refunds of a payment, listed or not, those of them that count against it,
\* what these add up to, and what left the contract for them.
Mine(p) == {r \in RefundIds : refund[r].status # "None" /\ refund[r].payment = p}
Live(p) == {r \in Mine(p) : refund[r].status # "Rejected"}
Owed(p) == SumFunction([r \in Live(p) |-> refund[r].amount])
Sent(p) == SumFunctionOnSet(sent, Mine(p))

\* "The sum of all non-rejected refunds for a payment cannot exceed the
\* original payment amount", counting every refund there is, listed or not, and
\* neither can what left the contract for them, by whichever of the three ways
\* (a request, a resolved dispute, a won vote) each was created.
RefundsBounded ==
    \A p \in PaymentIds :
        /\ Mine(p) # {} => Owed(p) =< paymentAmount[p]
        /\ Sent(p) =< Owed(p)

\* Money left the contract only for refunds that say Completed, and once: a
\* record that is gone, waiting or rejected never paid.
PaidIsRecorded ==
    \A r \in RefundIds :
        sent[r] > 0 => refund[r].status = "Completed" /\ sent[r] =< refund[r].amount

\* The lists that the limits are computed from name the payment's refunds and
\* disputes, and no others.
ListsExact ==
    \A p \in PaymentIds :
        /\ paymentRefunds[p] =
               {r \in RefundIds : refund[r].status # "None" /\ refund[r].payment = p}
        /\ paymentDisputes[p] =
               {d \in DisputeIds : dispute[d].status # "None" /\ dispute[d].payment = p}

\* Refund r is a Completed one for exactly what dispute c asks.
Grants(r, c) ==
    /\ refund[r].status = "Completed"
    /\ refund[r].payment = c.payment
    /\ refund[r].amount = c.amount
    /\ refund[r].requester = c.disputer

\* A dispute that names a refund was resolved by exactly that refund: Completed,
\* of its payment, its amount, to its disputer, and of no other dispute.
DisputeNamesItsRefund ==
    \A d \in DisputeIds :
        LET c == dispute[d]
        IN  c.status # "None" /\ c.refundId # None =>
                /\ c.status = "Resolved"
                /\ Grants(c.refundId, c)
                /\ \A e \in DisputeIds \ {d} :
                       dispute[e].status # "None" => dispute[e].refundId # c.refundId

\* What was decided stays decided, by whichever of the ways that decide: a
\* Completed or Rejected refund and a Resolved or Rejected dispute never change.
Final ==
    [][/\ \A r \in RefundIds :
              refund[r].status \in {"Completed", "Rejected"} => refund'[r] = refund[r]
       /\ \A d \in DisputeIds : Decided(d) => dispute'[d] = dispute[d]]_vars

\* While a dispute is open its tally is the stake behind each choice, although
\* stakes and votes come one call at a time.
TallyExact ==
    \A d \in DisputeIds : Undecided(d) =>
        LET behind(choice) ==
                SumFunctionOnSet(stake[d], {a \in Arbitrators : vote[d][a] = choice})
        IN  /\ tally[d].favour = behind("Favour")
            /\ tally[d].against = behind("Against")

\* "Arbitrators who voted against the majority lose 10% of their stake. Winners
\* receive their stake back": a stake leaves the contract once, after a verdict
\* that the votes carried, in full to those who voted for it and less the slash
\* to the others.
StakeJustice ==
    \A d \in DisputeIds, a \in Arbitrators :
        LET whole == returned[d][a] + slashed[d][a]
            agrees == vote[d][a] = "Favour" <=> dispute[d].status = "Resolved"
        IN  whole > 0 =>
                /\ Decided(d)
                /\ dispute[d].status = "Resolved" <=> Majority(d) = "Favour"
                /\ stake[d][a] = 0
                /\ vote[d][a] # "None"
                /\ slashed[d][a] = IF agrees THEN 0 ELSE Slash(whole)

-----------------------------------------------------------------------------
(* What a payment may rely on *)

OwedBar == [p \in PaymentIds |-> Owed(p)]
SentBar == [p \in PaymentIds |-> Sent(p)]

C == INSTANCE Claims WITH
    Accounts <- PaymentIds, Worths <- PaymentAmounts,
    worth <- paymentAmount, claimed <- OwedBar, given <- SentBar

\* To each payment the contract is an account of its worth: a refund, however
\* it came about, is one claim that fits, given out at once, later, in part or
\* never; one that is rejected or cancelled gives back exactly its own room, and
\* never so that more was sent than stays claimed; and no call touches two
\* payments.
ImplementsClaims == C!Spec
=============================================================================
