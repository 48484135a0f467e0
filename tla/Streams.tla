------------------------------ MODULE Streams ------------------------------
(***************************************************************************)
(* PaymentStreaming (stream.rs): money that flows from a sender to a       *)
(* receiver at rate_per_second out of a deposit held by the contract.      *)
(* Accrual is lazy: nothing happens per second, every handler recomputes   *)
(* what has accrued since the stream's last checkpoint.                    *)
(*                                                                         *)
(* A handler is one transaction of the ledger: when it returns an error,   *)
(* or a token transfer inside it fails, nothing it did is kept.  An action *)
(* is therefore a call that succeeds, its guard the conjunction of the     *)
(* checks, and a failing call is no step at all.                           *)
(*                                                                         *)
(* Below 2^127 the code's saturating arithmetic is exact.  Top-ups and     *)
(* withdrawals name each stream once: twice does what two calls would do.  *)
(*                                                                         *)
(* Operators whose name ends in _M are deliberate mistakes that            *)
(* PROJECT.json puts in the place of the definition that follows.          *)
(***************************************************************************)
EXTENDS Integers, Sequences, FiniteSets, Functions

CONSTANTS
    StreamIds,       \* caller-supplied stream identifiers
    Senders,         \* accounts that fund streams
    Receivers,       \* accounts that are paid by streams
    Rates,           \* flow rates a caller may ask for
    Amounts,         \* deposits, top-ups and withdrawal amounts
    MaxBatchCancel,  \* MAX_BATCH_CANCEL of batch_cancel_streams
    MaxTime,         \* bound on the ledger clock
    MaxDeposited     \* bound on what one identifier ever receives

ASSUME StreamsAssumption ==
    /\ Rates \subseteq Nat \ {0}
    /\ Amounts \subseteq Nat \ {0}
    /\ MaxBatchCancel \in Nat
    /\ MaxTime \in Nat
    /\ MaxDeposited \in Nat

VARIABLES
    stream,          \* StreamDataKey::Stream
    senderIdx,       \* StreamIndexKey::SenderStream
    recipientIdx,    \* StreamIndexKey::RecipientStream
    locked,          \* WithdrawLockKey::Lock, in temporary storage
    paused,          \* the processor's global pause
    now,             \* the ledger timestamp
    deposited,       \* history: tokens pulled in for an identifier
    paid,            \* history: tokens sent to the receiver's side
    refunded,        \* history: tokens sent back to the sender
    residual,        \* history: the part of paid sent by close_expired_stream
    flow,            \* history: rate times seconds while Active
    streamed         \* history: the same, capped each second by the deposit

vars == <<stream, senderIdx, recipientIdx, locked, paused, now,
          deposited, paid, refunded, residual, flow, streamed>>
ledger == <<deposited, paid, refunded, residual>>
clocks == <<now, flow, streamed>>
indexes == <<senderIdx, recipientIdx>>

-----------------------------------------------------------------------------
NoStream == [status |-> "None"]

StreamRecord ==
    [sender : Senders, receiver : Receivers, destination : BOOLEAN,
     rate : Nat \ {0}, remaining : Nat, checkpoint : Nat, accrued : Nat,
     status : {"Active", "Cancelled", "Exhausted"}, approved : BOOLEAN]

Lesser(a, b) == IF a =< b THEN a ELSE b

Exists(s) == stream[s].status # "None"
Active(s) == stream[s].status = "Active"

Checkpointed_Unclamped_M(r, t) ==
    [r EXCEPT !.accrued = r.accrued + (t - r.checkpoint) * r.rate,
              !.checkpoint = t]

Checkpointed_SameTime_M(r, t) ==
    [r EXCEPT !.accrued =
                  r.accrued + Lesser((t - r.checkpoint) * r.rate,
                                     r.remaining - r.accrued)]

\* The accrual every handler performs before it looks at the stream: capped
\* so that it never exceeds what is left of the deposit.
Checkpointed(r, t) ==
    [r EXCEPT !.accrued =
                  r.accrued + Lesser((t - r.checkpoint) * r.rate,
                                     r.remaining - r.accrued),
              !.checkpoint = t]

\* get_accrued_amount of an Active stream.
Accrued(s) == Checkpointed(stream[s], now).accrued

\* What the contract holds of the streams' token.
Pool == SumFunction([s \in StreamIds |-> deposited[s] - paid[s] - refunded[s]])

\* Outgoing transfers, amount[s] for each s, succeed when the pool covers them.
Covered(amount) == SumFunction(amount) =< Pool

-----------------------------------------------------------------------------
Init ==
    /\ stream = [s \in StreamIds |-> NoStream]
    /\ senderIdx = [a \in Senders |-> <<>>]
    /\ recipientIdx = [a \in Receivers |-> <<>>]
    /\ locked = {}
    /\ paused = FALSE
    /\ now = 0
    /\ deposited = [s \in StreamIds |-> 0]
    /\ paid = [s \in StreamIds |-> 0]
    /\ refunded = [s \in StreamIds |-> 0]
    /\ residual = [s \in StreamIds |-> 0]
    /\ flow = [s \in StreamIds |-> 0]
    /\ streamed = [s \in StreamIds |-> 0]

CreateStream(s, snd, rcv, rate, deposit) ==
    /\ ~Exists(s)
    /\ deposited[s] + deposit =< MaxDeposited
    /\ stream' = [stream EXCEPT ![s] =
           [sender |-> snd, receiver |-> rcv, destination |-> FALSE,
            rate |-> rate, remaining |-> deposit, checkpoint |-> now,
            accrued |-> 0, status |-> "Active", approved |-> FALSE]]
    /\ senderIdx' = [senderIdx EXCEPT ![snd] = Append(@, s)]
    /\ recipientIdx' = [recipientIdx EXCEPT ![rcv] = Append(@, s)]
    /\ deposited' = [deposited EXCEPT ![s] = @ + deposit]
    /\ UNCHANGED <<locked, paused, paid, refunded, residual, clocks>>

SetStreamDestination(s) ==
    /\ Active(s)
    /\ stream' = [stream EXCEPT ![s].destination = TRUE]
    /\ UNCHANGED <<indexes, locked, paused, ledger, clocks>>

\* No status check: a terminal stream may be approved too.
ApproveStreamMilestone(s) ==
    /\ Exists(s)
    /\ stream' = [stream EXCEPT ![s].approved = TRUE]
    /\ UNCHANGED <<indexes, locked, paused, ledger, clocks>>

Surplus_NewSeconds_M(r, newRate) ==
    LET unlocked == r.remaining - r.accrued
    IN  IF newRate < r.rate
        THEN unlocked - (unlocked \div newRate) * newRate
        ELSE 0

\* What a rate cut frees of a checkpointed stream: the unlocked deposit, less
\* what the new rate needs for the whole seconds the old rate would have run.
Surplus(r, newRate) ==
    LET unlocked == r.remaining - r.accrued
    IN  IF newRate < r.rate
        THEN unlocked - (unlocked \div r.rate) * newRate
        ELSE 0

Rerated_Undrawn_M(r, newRate) == [r EXCEPT !.rate = newRate]

Rerated(r, newRate) ==
    [r EXCEPT !.rate = newRate, !.remaining = @ - Surplus(r, newRate)]

ChangeRate_NoAccrual_M(s, newRate) ==
    LET r == [stream[s] EXCEPT !.checkpoint = now]
    IN  /\ Active(s)
        /\ Surplus(r, newRate) =< Pool
        /\ stream' = [stream EXCEPT ![s] = Rerated(r, newRate)]
        /\ refunded' = [refunded EXCEPT ![s] = @ + Surplus(r, newRate)]
        /\ UNCHANGED <<indexes, locked, paused, deposited, paid, residual, clocks>>

ChangeRate(s, newRate) ==
    LET r == Checkpointed(stream[s], now)
    IN  /\ Active(s)
        /\ Surplus(r, newRate) =< Pool
        /\ stream' = [stream EXCEPT ![s] = Rerated(r, newRate)]
        /\ refunded' = [refunded EXCEPT ![s] = @ + Surplus(r, newRate)]
        /\ UNCHANGED <<indexes, locked, paused, deposited, paid, residual, clocks>>

DecreaseRatePerSecond(s, newRate) ==
    /\ Active(s)
    /\ newRate < stream[s].rate
    /\ ChangeRate(s, newRate)

UpdateStreamRate(s, newRate) ==
    /\ ~paused
    /\ ChangeRate(s, newRate)

-----------------------------------------------------------------------------
\* A withdrawal of amount from a checkpointed stream.
Withdrawn(r, amount) ==
    [r EXCEPT !.accrued = @ - amount,
              !.remaining = @ - amount,
              !.status = IF r.remaining = amount THEN "Exhausted" ELSE @]

\* Pays amount[s], at most what has accrued, for each stream s it names.
PayOut(amount) ==
    /\ Covered(amount)
    /\ stream' = [s \in StreamIds |->
           IF s \in DOMAIN amount
           THEN Withdrawn(Checkpointed(stream[s], now), amount[s]) ELSE stream[s]]
    /\ paid' = [s \in StreamIds |->
           IF s \in DOMAIN amount THEN paid[s] + amount[s] ELSE paid[s]]
    /\ UNCHANGED <<indexes, paused, deposited, refunded, residual, clocks>>

Pays_Unapproved_M(rcv, i) ==
    LET s == recipientIdx[rcv][i]
    IN  /\ Active(s)
        /\ stream[s].receiver = rcv
        /\ Accrued(s) > 0
        /\ \A j \in 1 .. i - 1 : recipientIdx[rcv][j] # s

\* Position i of the recipient's index names a stream that pays: the first
\* mention of an Active, approved stream of this recipient with funds accrued.
Pays(rcv, i) ==
    LET s == recipientIdx[rcv][i]
    IN  /\ Active(s)
        /\ stream[s].receiver = rcv
        /\ stream[s].approved
        /\ Accrued(s) > 0
        /\ \A j \in 1 .. i - 1 : recipientIdx[rcv][j] # s

Scanned_CountsSkipped_M(rcv, max) == {i \in DOMAIN recipientIdx[rcv] : i =< max}

\* The positions the loop reaches before max streams have been processed.
Scanned(rcv, max) ==
    {i \in DOMAIN recipientIdx[rcv] :
        Cardinality({j \in 1 .. i - 1 : Pays(rcv, j)}) < max}

Picked(rcv, max) ==
    {recipientIdx[rcv][i] : i \in {j \in Scanned(rcv, max) : Pays(rcv, j)}}

\* The guard of withdraw_all_for_recipient: every index entry it reaches still
\* has its stream, and no stream it pays is locked.
WithdrawAllAllowed(rcv, max) ==
    /\ ~paused
    /\ \A i \in Scanned(rcv, max) : Exists(recipientIdx[rcv][i])
    /\ Picked(rcv, max) \cap locked = {}

WithdrawAllForRecipient(rcv, max) ==
    /\ WithdrawAllAllowed(rcv, max)
    /\ PayOut([s \in Picked(rcv, max) |-> Accrued(s)])
    /\ UNCHANGED locked            \* acquired and released around each transfer

TriggerAllowed(s) ==
    /\ ~paused
    /\ Active(s)
    /\ stream[s].approved
    /\ stream[s].destination
    /\ s \notin locked

\* With nothing accrued the handler saves the checkpoint and returns before
\* release_lock: the lock stays behind.
TriggerWithdrawal(s) ==
    /\ TriggerAllowed(s)
    /\ \/ /\ Accrued(s) > 0
          /\ PayOut([x \in {s} |-> Accrued(x)])
          /\ UNCHANGED locked
       \/ /\ Accrued(s) = 0
          /\ locked' = locked \cup {s}
          /\ stream' = [stream EXCEPT ![s] = Checkpointed(@, now)]
          /\ UNCHANGED <<indexes, paused, ledger, clocks>>

\* External: a temporary entry lapses when its time to live runs out.
LockLapses(s) ==
    /\ s \in locked
    /\ locked' = locked \ {s}
    /\ UNCHANGED <<stream, indexes, paused, ledger, clocks>>

\* Each entry pays the lesser of its amount and what has accrued; an entry of
\* nothing is skipped without saving the checkpoint.  Neither the pause nor
\* the lock is looked at.
BatchWithdrawTo(rcv, asked) ==
    /\ \A s \in DOMAIN asked :
           Active(s) /\ stream[s].receiver = rcv /\ stream[s].approved
    /\ PayOut([s \in {x \in DOMAIN asked : Accrued(x) > 0} |->
                  Lesser(Accrued(s), asked[s])])
    /\ UNCHANGED locked

\* Adds to the deposit and leaves the checkpoint where it was.
TopUpMultipleStreams(snd, amount) ==
    /\ \A s \in DOMAIN amount :
           /\ Active(s)
           /\ stream[s].sender = snd
           /\ deposited[s] + amount[s] =< MaxDeposited
    /\ stream' = [s \in StreamIds |->
           IF s \in DOMAIN amount
           THEN [stream[s] EXCEPT !.remaining = @ + amount[s]] ELSE stream[s]]
    /\ deposited' = [s \in StreamIds |->
           IF s \in DOMAIN amount THEN deposited[s] + amount[s] ELSE deposited[s]]
    /\ UNCHANGED <<indexes, locked, paused, paid, refunded, residual, clocks>>

-----------------------------------------------------------------------------
\* remaining_deposit and accrued_at_checkpoint both keep the amount that was
\* just paid to the receiver.
CancelledForm(r) == [r EXCEPT !.status = "Cancelled", !.remaining = r.accrued]

CancelAll(S) ==
    /\ Covered([s \in S |-> stream[s].remaining])
    /\ stream' = [s \in StreamIds |->
           IF s \in S THEN CancelledForm(Checkpointed(stream[s], now)) ELSE stream[s]]
    /\ paid' = [s \in StreamIds |-> IF s \in S THEN paid[s] + Accrued(s) ELSE paid[s]]
    /\ refunded' = [s \in StreamIds |->
           IF s \in S THEN refunded[s] + (stream[s].remaining - Accrued(s))
                      ELSE refunded[s]]
    /\ UNCHANGED <<indexes, locked, paused, deposited, residual, clocks>>

\* cancel_stream, and cancel_multiple_streams which reverts unless every
\* stream named is an Active stream of the sender.
CancelMultipleStreams(snd, S) ==
    /\ \A s \in S : Active(s) /\ stream[s].sender = snd
    /\ CancelAll(S)

BatchCancelStreams_Again_M(snd, ids) ==
    CancelAll({s \in {ids[i] : i \in {j \in DOMAIN ids : j =< MaxBatchCancel}} :
                   Exists(s) /\ stream[s].sender = snd})

\* Looks at the first MaxBatchCancel names and skips what it cannot cancel.
BatchCancelStreams(snd, ids) ==
    CancelAll({s \in {ids[i] : i \in {j \in DOMAIN ids : j =< MaxBatchCancel}} :
                   Active(s) /\ stream[s].sender = snd})

\* Pays the residual, which a cancellation has paid already, and removes the
\* record; the two indexes keep its name.
CloseExpiredStream(s) ==
    LET rest == Lesser(stream[s].accrued, stream[s].remaining)
    IN  /\ Exists(s)
        /\ ~Active(s)
        /\ rest =< Pool
        /\ stream' = [stream EXCEPT ![s] = NoStream]
        /\ paid' = [paid EXCEPT ![s] = @ + rest]
        /\ residual' = [residual EXCEPT ![s] = @ + rest]
        /\ UNCHANGED <<indexes, locked, paused, deposited, refunded, clocks>>

SetGlobalPause(value) ==
    /\ paused' = value
    /\ UNCHANGED <<stream, indexes, locked, ledger, clocks>>

\* One second passes.  The two histories record what a stream should have
\* sent: its rate, and its rate as far as the deposit still goes.
Tick ==
    /\ now < MaxTime
    /\ now' = now + 1
    /\ flow' = [s \in StreamIds |->
           IF Active(s) THEN flow[s] + stream[s].rate ELSE flow[s]]
    /\ streamed' = [s \in StreamIds |->
           IF Active(s)
           THEN streamed[s] + Lesser(stream[s].rate, stream[s].remaining - Accrued(s))
           ELSE streamed[s]]
    /\ UNCHANGED <<stream, indexes, locked, paused, ledger>>

-----------------------------------------------------------------------------
\* The entrypoints that PaymentProcessor exports.
ProcessorNext ==
    \/ \E s \in StreamIds, snd \in Senders, rcv \in Receivers,
          rate \in Rates, a \in Amounts : CreateStream(s, snd, rcv, rate, a)
    \/ \E s \in StreamIds :
          \/ SetStreamDestination(s)
          \/ TriggerWithdrawal(s)
          \/ LockLapses(s)
          \/ CloseExpiredStream(s)
          \/ \E rate \in Rates : UpdateStreamRate(s, rate)
    \/ \E rcv \in Receivers, max \in 1 .. Cardinality(StreamIds) :
          WithdrawAllForRecipient(rcv, max)
    \/ \E S \in SUBSET StreamIds : \E amount \in [S -> Amounts] :
          \/ \E rcv \in Receivers : BatchWithdrawTo(rcv, amount)
          \/ \E snd \in Senders : TopUpMultipleStreams(snd, amount)
    \/ \E snd \in Senders :
          \/ \E S \in SUBSET StreamIds : CancelMultipleStreams(snd, S)
          \/ \E n \in 0 .. MaxBatchCancel + 1 : \E ids \in [1 .. n -> StreamIds] :
                BatchCancelStreams(snd, ids)
    \/ \E value \in BOOLEAN : SetGlobalPause(value)
    \/ Tick

\* The whole of PaymentStreaming: two of its functions are not exported.
Next ==
    \/ ProcessorNext
    \/ \E s \in StreamIds :
          \/ ApproveStreamMilestone(s)
          \/ \E rate \in Rates : DecreaseRatePerSecond(s, rate)

Spec == Init /\ [][Next]_vars
-----------------------------------------------------------------------------
(* Properties *)

TypeOK ==
    /\ stream \in [StreamIds -> StreamRecord \cup {NoStream}]
    /\ senderIdx \in [Senders -> Seq(StreamIds)]
    /\ recipientIdx \in [Receivers -> Seq(StreamIds)]
    /\ locked \in SUBSET StreamIds
    /\ paused \in BOOLEAN
    /\ now \in Nat
    /\ deposited \in [StreamIds -> Nat]
    /\ paid \in [StreamIds -> Nat]
    /\ refunded \in [StreamIds -> Nat]
    /\ residual \in [StreamIds -> Nat]
    /\ flow \in [StreamIds -> Nat]
    /\ streamed \in [StreamIds -> Nat]

\* The deposit an Active stream locks.
Locked(s) == IF Active(s) THEN stream[s].remaining ELSE 0

\* What the receiver has been given or may claim now, not counting the second
\* payment that close_expired_stream makes.
Entitled(s) == paid[s] - residual[s] + (IF Active(s) THEN Accrued(s) ELSE 0)

\* Whole seconds the unlocked deposit still lasts.
SecondsLeft(s) == (stream[s].remaining - Accrued(s)) \div stream[s].rate

\* Conservation, per identifier and through every life it has: each token
\* pulled in is locked in an Active stream, was paid, or was refunded, and the
\* only token to leave twice is the residual of close_expired_stream.
Conserved ==
    \A s \in StreamIds :
        deposited[s] + residual[s] = paid[s] + refunded[s] + Locked(s)

\* While no close has paid a residual, the balance is exactly what the Active
\* streams lock: nothing else that a call does leaves it short, or leaves a
\* token in the contract that belongs to nobody.
BalanceExact ==
    (\A s \in StreamIds : residual[s] = 0)
    => Pool = SumFunction([s \in StreamIds |-> Locked(s)])

\* Lazy accrual against the clock: whatever mix of withdrawals, rate changes,
\* top-ups and cancellations checkpoints a stream, the receiver never gets
\* more than rate times the seconds it ran, nor less than the seconds its
\* deposit covered.
PaidForElapsedTime ==
    \A s \in StreamIds : streamed[s] =< Entitled(s) /\ Entitled(s) =< flow[s]

\* What the receiver has earned is never taken back, and only the passing of
\* time or a top-up adds to it: a withdrawal, a rate change and a cancellation
\* move it without changing it.
Keeps(s) ==
    /\ Entitled(s)' >= Entitled(s)
    /\ now' = now /\ (Active(s) => deposited'[s] = deposited[s])
          => Entitled(s)' = Entitled(s)

EntitlementKept == [][\A s \in StreamIds : Keeps(s)]_vars

\* "surplus deposit no longer needed": a rate cut returns surplus but leaves
\* the stream running for the same number of whole seconds.
RateCutKeepsDuration ==
    [][\A s \in StreamIds :
          Active(s) /\ Active(s)' /\ stream'[s].rate < stream[s].rate
             => SecondsLeft(s)' = SecondsLeft(s)]_vars

\* "distributions (withdrawals) are locked until the sender explicitly
\* approves" (stream.rs:54): before the approval the receiver is only paid by a
\* cancellation or, once, by the close that follows it.  Three tests say the
\* opposite, for they withdraw from streams nobody approved and expect to be
\* paid (stream_test.rs:251 and 276, test.rs:231).  The handlers are with the
\* comment: a stream is created locked, and every withdrawal looks at the flag.
DistributionNeedsApproval ==
    [][\A s \in StreamIds :
          paid'[s] > paid[s]
             => stream[s].approved \/ stream'[s].status \in {"Cancelled", "None"}]_vars

\* A withdraw_all that may process every stream leaves the recipient nothing
\* to claim, however the index was built up by creations and removals.
WithdrawAllDrains ==
    [][\A rcv \in Receivers :
          WithdrawAllForRecipient(rcv, Cardinality(StreamIds))
             => \A s \in StreamIds :
                    Active(s)' /\ stream'[s].receiver = rcv /\ stream'[s].approved
                       => Accrued(s)' = 0]_vars

-----------------------------------------------------------------------------
(* The escrow that the checkpoints implement *)

RunningBar == [s \in StreamIds |-> IF Active(s) THEN stream[s].rate ELSE 0]

UnearnedBar ==
    [s \in StreamIds |-> IF Active(s) THEN stream[s].remaining - Accrued(s) ELSE 0]

EarnedBar == [s \in StreamIds |-> IF Active(s) THEN Accrued(s) ELSE 0]

\* The second payment of close_expired_stream comes out of other accounts.
ReceivedBar == [s \in StreamIds |-> paid[s] - residual[s]]

E == INSTANCE Escrow WITH
    Accounts <- StreamIds, rate <- RunningBar, unearned <- UnearnedBar,
    earned <- EarnedBar, funded <- deposited, received <- ReceivedBar,
    returned <- refunded

\* Lazy accrual is unobservable: to both sides of every stream, through
\* batches, rate changes, top-ups and whatever calls bring a checkpoint up to
\* date, the contract is an escrow that drips each second.
ImplementsEscrow == E!Spec

-----------------------------------------------------------------------------
(* What the documentation says and the code does not do *)

\* "Total deposit locked in this contract on behalf of the stream": the
\* contract holds every deposit its Active streams record.
DepositsBacked == Pool >= SumFunction([s \in StreamIds |-> Locked(s)])
=============================================================================
