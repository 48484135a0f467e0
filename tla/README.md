# Verification of the FluxaPay contracts

TLA+ models of the FluxaPay Soroban contracts (`fluxapay/src/*.rs`), TLC
configurations that check them on small instances, and proofs that TLAPS checks
for every instance. Paths below are relative to the repository; `lib.rs` and the
other bare file names are in `fluxapay/src/`.

| Module | Models | Checked by | Proved in |
|---|---|---|---|
| `Streams` | `PaymentStreaming` (`stream.rs`) | `MCStreams`: `StreamsOne.cfg`, `StreamsTwo.cfg`, `Streams_DepositsBacked.cfg` | `Streams_proofs` |
| `Escrow` | nothing in the code: what `Streams` implements | `MCStreams`: `StreamsOne.cfg` | `Streams_proofs` |
| `Payments` | `PaymentProcessor` (`lib.rs`) | `MCPayments`: `PaymentsLife.cfg`, `PaymentsBatches.cfg` | `Payments_proofs` |
| `Refunds` | refunds, disputes and votes of `RefundManager` (`lib.rs`) | `MCRefunds`: `RefundsMoney.cfg`, `RefundsVotes.cfg` | `Refunds_proofs` |
| `Claims` | nothing in the code: what `Refunds` implements | `MCRefunds`: `RefundsMoney.cfg` | `Refunds_proofs` |
| `Subscriptions` | plans and subscriptions of `RefundManager` (`lib.rs`) | `Subscriptions.cfg` | `Subscriptions_proofs` |
| `MerchantAuth` | pull authorizations (`merchant_auth.rs`) | `MerchantAuth.cfg` | `MerchantAuth_proofs` |
| `Allowance` | nothing in the code: what `MerchantAuth` implements | `MerchantAuth.cfg` | `MerchantAuth_proofs` |
| `AccessControl`, extended by `MerchantRegistry` | roles (`access_control.rs`); merchants (`merchant_registry.rs`) | `MCMerchantRegistry`: `MerchantRegistry.cfg` | `MerchantRegistry_proofs` |
| `Swaps` | `FXOracle` (`fx_oracle.rs`) and `swap_and_pay` (`lib.rs`) | `MCSwaps`: `Swaps.cfg` | `Swaps_proofs` |
| `PaymentLinks` | `PaymentLinkManager` (`payment_link.rs`) | `MCPaymentLinks`: `PaymentLinks.cfg` | `PaymentLinks_proofs` |

`PROJECT.json` lists every run with what it shows, the source lines of every
definition, the hazards of the code and the properties that cover them.

## How the code is read

**A call is a step.** A Soroban call is one transaction: calls are serialised by
the ledger, and when a handler returns an error or panics (a token transfer that
fails panics) everything it did is undone. An action of a model is therefore a
call that *succeeds*: its guard is the conjunction of the handler's checks, and
a refused call is no step. The exception is `try_transfer`, whose failure the code
swallows: `Refunds` makes it a choice (`Payouts`), limited by the balance.
Concurrency is then what is left of it: any party's call between any two calls
of another, and the clock moving in between.

**Authorization** is left out where some account that may call exists and no
state depends on which one does. Where it matters it is a guard: the sender of a
stream, the recipient, the MERCHANT role, the standing of a merchant, the owner of
a link, the admin of the registry and of the roles.

**Time** is the ledger timestamp, moved one second at a time by `Tick` (external).
TTLs, and so the archival of persistent entries, are not modelled; the temporary
withdrawal lock of a stream can lapse at any time (`LockLapses`).

**Tokens** are balances. `Streams` derives the contract's balance from what was
pulled in, paid and refunded; a transfer out needs it to suffice, which is how
one stream's double payment can consume another's deposit. `Refunds` keeps
`held`, which anyone may add to (`Fund`).

**History variables** (`deposited`, `paid`, `refunded`, `residual`, `flow`,
`streamed`; `creations`; `sent`, `returned`, `slashed`; `charges`, `leaps`;
`pulled`; `lifted`, `closed`, `changes`, `deposed`; `published`; `uses`, `born`)
record what the code forgets. No guard reads them, except `deposited`, `paid` and `refunded`
through the balance, and `deposited`, `published` and `uses` through their bounds.

**The commit does not compile as it stands**: a brace is missing after
`close_expired_stream` (`stream.rs:1037`), a record of `create_payments_batch`
lacks a field, some functions are duplicated. The models take the evident
reading of each such place.

## The system

| Component | State | Operations |
|---|---|---|
| **PaymentStreaming** | streams; the lists of a sender's and a recipient's streams; the withdrawal lock | create, set destination, approve milestone, decrease/update rate, withdraw (all, trigger, batch), top up, cancel (one, many, batch), close |
| **PaymentProcessor** | payments; merchants' lists; idempotency keys; creation counters; amount limits; allowed tokens; two pauses | create (one, batch), verify, cancel, expire, settle, set limits/tokens/pauses, swap and pay; it exports the streams and MerchantAuth |
| **RefundManager** | its own copies of payments; refunds; disputes; stakes, votes, tallies; counters; the token balance | register, create/process/reject/cancel a refund, instant refund; create/review/escalate/resolve/reject a dispute; lock stake, vote, finalize |
| **Subscriptions** (in RefundManager) | plans, subscriptions | plan, subscribe, pause, resume, charge, retry, cancel, usage |
| **MerchantAuth** | pull allowances per payer and merchant | authorize, revoke, pull |
| **AccessControl** | role → members, the admin | grant, revoke, renounce, transfer |
| **MerchantRegistry** | merchants, tiers, suspensions, payout addresses, whitelist, fee settings | register, update, verify, suspend, reinstate, set tier, set fees; every read may reinstate |
| **PaymentLink** | links with a use count | create, use, deactivate |
| **FXOracle** | rates, staleness threshold, roles | initialize, grant, set rate, set threshold, get |
| DexRouter, GasEstimator | none | quotes with fixed prices, cost tables |
| SDK, scripts, indexer | none on the ledger | clients |

Interactions: `PaymentProcessor` asks `MerchantRegistry` whether a merchant is
verified and active when it creates a payment, and `AccessControl` (in its own
storage) for roles. `PaymentStreaming` runs in the processor's storage, shares its
pause, and holds its tokens at the processor's address. `RefundManager` is a
contract of its own: a payment reaches it only by `register_payment`, which
stores a copy that is Confirmed for good; it asks the registry for the merchant's
tier when it computes a fee. The registry in turn grants the MERCHANT role in the
refund manager, as an admin of it. `swap_and_pay` asks the router for a quote, the
oracle for a rate, the router for the swap, and then creates a payment.
Subscriptions are charged out of the payer's account into the balance that also
holds stakes and refunds, and on to affiliate and merchant. Operators, oracles and a subscription daemon call
from outside.

What is hard here: the three ways money leaves a stream, each with its own copy
of the accrual; the sums that limit refunds and disputes, computed over lists that
other handlers write; swallowed transfer failures; a counter that stands for a
time window; batches checked against the state before them; the last second
before an expiry; what is *lazy* -- accruals, the roll-over of an allowance, the end
of a pause or of a suspension all happen when somebody next calls; errors that
undo what the same call stored; and one balance shared by everything a contract owes.

## Streams

`stream[s]` is the stored record, or `NoStream`. Accrual is *lazy*: nothing
happens per second. `Checkpointed(r, t)` is the computation that every handler
repeats: rate × seconds since the last checkpoint, clamped to what is left.

| Code | Model |
|---|---|
| `create_stream` | `CreateStream` |
| `set_stream_destination`, `approve_stream_milestone` | `SetStreamDestination`, `ApproveStreamMilestone` |
| `decrease_rate_per_second`, `update_stream_rate` | `DecreaseRatePerSecond`, `UpdateStreamRate`, both `ChangeRate` |
| `withdraw_all_for_recipient` | `WithdrawAllForRecipient`: the index scan (`Scanned`, `Picked`) and `PayOut` |
| `trigger_withdrawal` | `TriggerWithdrawal` |
| `batch_withdraw_to` | `BatchWithdrawTo` |
| `top_up_multiple_streams` | `TopUpMultipleStreams` |
| `cancel_stream`, `cancel_multiple_streams` | `CancelMultipleStreams` |
| `batch_cancel_streams` | `BatchCancelStreams` |
| `close_expired_stream` | `CloseExpiredStream` |

`Next` has every function of `PaymentStreaming`; `ProcessorNext` only those that
`PaymentProcessor` exports, which leaves out `approve_stream_milestone` and
`decrease_rate_per_second`.

An identifier has several lives: after `close_expired_stream` it may be created
again, and its index entries from the earlier life are still there.

What is checked:

- `Conserved`: per identifier and through all its lives, what was pulled in is
  locked, paid or refunded, and the *only* token that leaves twice is the residual
  that closing pays again. (`DepositsBacked` is the run that shows this residual
  comes out of the other streams' deposits.)
- `PaidForElapsedTime`: what the receiver was paid or may claim lies between two
  clocks: rate × seconds capped by the deposit (`streamed`) and uncapped
  (`flow`). The lower bound is what "the receiver keeps what accrued" means, the
  upper bound what "at most rate per second" means.
- `EntitlementKept`: no call takes an earned token back, and only time or a
  top-up adds one.
- `RateCutKeepsDuration`: a cut refunds exactly so much that the stream lasts as
  many whole seconds as before.
- `DistributionNeedsApproval`: the milestone gate, which each of the three withdrawals checks for itself.
  It takes the side of the code and its doc comments in a conflict with three tests
  (below).
- `WithdrawAllDrains`: the bounded index scan, for what the gate lets through.
- `ImplementsEscrow`: the library implements `Escrow`, in which nothing is lazy: each
  second a token drips from the sender's part of every running account to the
  receiver's. The mapping reads a stream as an account whose rate is that of an Active
  stream (`RunningBar`), whose parts are what a checkpoint made *now* would find
  (`EarnedBar`, `UnearnedBar`), and whose receipts leave out the residual
  (`ReceivedBar`). Handlers are then `Open`, `Take`, `Change`, `Add` and `Close`, `Tick`
  is `Second`, and whatever only writes a checkpoint, a flag or an index, as well as
  `close_expired_stream`, changes nothing. Two things of the code show in the escrow:
  taking the last of a deposit ends an account, and what is added to an account that
  ran dry may be earned at once (`Late`).

`BalanceExact` is not checked by a run but proved, from `Conserved`: until a close pays
a residual, the contract's balance is what its Active streams lock.

## Payments

`payment[p]` is the stored charge. `CreatePaymentsBatch` has the shape of the
code: all checks against the state before the call, then all writes in order.
The answer of the registry and the MERCHANT role are sets that change at any
time (`ChangeStanding`, `ChangeMerchantRole`). `swap_and_pay` reaches the state only
through a creation, and is one here.

| Code | Model |
|---|---|
| `create_payment`, `create_payments_batch` | `CreatePayment`, `CreatePaymentsBatch`; `Acceptable`, `CountAt`, `WithinLimits` |
| `verify_payment` | `VerifyPayment`, `Outcome` |
| `cancel_payment`, `expire_payment`, `settle_payment` | the actions of those names |
| limits, tokens, pauses | the six setters |

What is checked:

- `StatusIsTrue`: what a status says of the money and the clock is true, and
  stays true whatever happens afterwards: Confirmed and Settled mean the amount
  arrived within the tolerance and in time, Overpaid and PartiallyPaid mean it did
  not, Expired means the time is over and nothing arrived.
- `WindowRespected`: no 60-second window holds more than 30 creations of a merchant,
  although the code keeps one counter and one time.
- `LifeCycle`: terms never change, a report is final, only a Confirmed payment is
  settled; a pause stops everything but expiry and settlement.
- `PendingEnds` (liveness): a Pending payment whose time comes is decided in the
  end, whatever is paused, limited or taken away meanwhile.
- `KeysAnswer`: a key that was used is stored, names an existing payment and never
  changes it, in batches too. That it names the payment it was *sent with* is not
  claimed: it does not hold for a batch that repeats a key.

## Refunds

`RefundIds` and `DisputeIds` are the values of the two counters; `format_id`
(`utils.rs`) makes distinct strings of them. `Refundable` is the check that all
three ways to a refund share.

| Code | Model |
|---|---|
| `register_payment` | `RegisterPayment` |
| `create_refund`, `process_refund`, `reject_refund`, `cancel_refund` | `CreateRefund`, `ProcessRefund`, `RejectRefund`, `CancelRefund` |
| `create_dispute`, `review_dispute`, `set_dispute_deadline` | `CreateDispute`, `ReviewDispute`, `SetDisputeDeadline` |
| `get_dispute` (a read that writes) | `EscalateOnRead` |
| `resolve_dispute_with_refund`, `reject_dispute` | `ResolveDisputeWithRefund`, `RejectDispute` |
| `lock_stake`, `cast_vote`, `finalize_dispute_vote` | `LockStake`, `CastVote`, `FinalizeDisputeVote` |

`refund_instantly` cannot succeed on a payment this contract registered (it needs
a payer that `register_payment` never stores) and has no action. The fee is the flat
one: the tiered fee needs a registry address that only `PaymentProcessor` stores.

What is checked:

- `RefundsBounded`: the sum of a payment's refunds that were not rejected stays within the
  payment, over *all* refunds and not only the listed ones, and so does what was
  sent.
- `PaidIsRecorded`: money left only for Completed refunds, and at most their
  amount.
- `ListsExact`, `DisputeNamesItsRefund`, `Final`: the lists the sums run over are
  exact; a dispute's `refund_id` is a Completed refund of its own amount, payment
  and disputer; decisions stay.
- `ImplementsClaims`: to each payment the contract is one account of `Claims`, with a
  worth, what is claimed of it (`OwedBar`, the refunds not rejected) and what was given
  (`SentBar`). `register_payment` opens it; the three ways to a refund are one `Claim`,
  a resolved dispute or a won vote with part of it given at once; processing a refund
  gives up to its amount, or nothing when the transfers fail; rejecting and cancelling
  give a claim up, exactly its amount, and never so that more was given than stays
  claimed (that nothing was sent for the very refund follows from `PaidIsRecorded` and
  the guards). Disputes, reviews, deadlines, stakes and votes change no account, and no
  call changes two.
- `TallyExact`, `StakeJustice`: the incremental tally equals the votes; a stake
  leaves once, whole or less the slash, as the votes carried.

## Subscriptions

`subscription[s]` is the stored record, `charges[s]` the times of its successful
charges. `charge_subscription` is the hard part: it first resumes a pause whose
date has come (`Resumed`), then decides what is due (`DueAt`), pulls the price
from the payer, and pays affiliate and merchant by `try_transfer`, whose failures
it swallows (`Distributed`). A failed pull is stored as a retry (`Failed`) and then
answered with an error, which undoes it: the model computes that record and
leaves the state as it was (`Stored`).

| Code | Model |
|---|---|
| `create_subscription_plan`, `deactivate_subscription_plan` | `CreateSubscriptionPlan`, `DeactivateSubscriptionPlan` |
| `subscribe`, `cancel_subscription` | `Subscribe`, `CancelSubscription` |
| `pause_subscription` with and without a date, `resume_subscription` | `PauseSubscription`, `PauseSubscriptionWithResumeDate`, `ResumeSubscription` |
| `charge_subscription`, `submit_usage_metrics` | `ChargeSubscription`, `SubmitUsageMetrics` |

What is checked:

- `ChargesPaced`: between any two charges, not only neighbouring ones, lie as many
  intervals as charges, less one for each *leap*: an automatic resume that moved
  the next payment back, because a date left by an earlier pause was older than the
  charge since. Without leaps this is "one charge per interval". It includes that
  no retry is ever scheduled.
- `CapHolds`: a cap is kept and ends the subscription exactly when reached; the
  cap 0 admits one charge.
- `LifeCycle`: an ended subscription stays ended and uncharged, and neither a new
  plan under the old identifier nor anything else changes its parties and terms.
- `PaidFromTheCharge`: whatever transfer of a distribution fails, the balance held
  for others falls only for an affiliate that was promised more than the payment.

## Pull authorizations and their abstraction

`MerchantAuth` keeps the record of the code, which is brought up to date only by a
pull; `Allowance` is what that is meant to be: a budget per grant that is refilled at
the very second a period ends. `GrantBar`, `LeftBar` and `ElapsedBar` map one to the
other, and `ImplementsAllowance` says that every behaviour of the record is one of the
budget: `Tick` is `Second`, `PullPayment` is `Take`, a failed or an empty call is no
step.

| Code | Model |
|---|---|
| `pre_authorize_merchant`, `revoke_authorization` | `PreAuthorizeMerchant`, `RevokeAuthorization` |
| `pull_payment`, `remaining_limit` | `PullPayment`, `RemainingLimit` |

What is checked, besides: `PulledWithinLimit`, at most the limit for every period
begun since the grant, whatever the pulls; `ReadAgreesWithPull`, the read rolls the
period over as the pull will, although each has its own computation.

## Roles and the merchant registry

`AccessControl` is the library each contract embeds, here with the state of the
refund manager: the flags (`holders`), the index (`members`, counting how often an
account is named) and the admin key. `MerchantRegistry` extends it because
verifying a merchant grants a role there, and adds the registry's own state.

A suspension ends lazily: `get_merchant_internal` reinstates a merchant whose time
has come and saves it, so every call that loads a merchant is one that may
reinstate (`Loaded`). A call that does nothing else to the modelled state is `Access`.

| Code | Model |
|---|---|
| `initialize`, `grant_role`, `revoke_role`, `renounce_role`, `transfer_admin` (`access_control.rs`) | `Initialize`, `GrantRole`, `RevokeRole`, `RenounceRole`, `TransferAdmin`, together `RolesNext` |
| `initialize`, `set_refund_manager_address` | `InitializeRegistry`, `SetRefundManagerAddress` |
| `register_merchant`, `update_merchant` | `RegisterMerchant`, `UpdateMerchant` |
| `verify_merchant`, `set_kyc_tier` | `VerifyMerchant`, `SetKycTier` |
| `suspend_merchant`, `reinstate_merchant` | `SuspendMerchant`, `ReinstateMerchant` |
| payout per currency, whitelist | `AddCurrencyPayout`, `AddToWhitelist`, `RemoveFromWhitelist` |
| every other call that loads merchants | `Access` |

What is checked:

- `IndexExact`, `KeyNamesAnAdmin`: flags and index agree; the admin key names an
  admin, unless `revoke_role` took the role and left the key.
- `SuspensionOnRecord`: the dates of a suspension are there together, and a merchant
  that is not suspended has none, unless it reactivated itself -- so no deadline is
  left over that would one day reactivate a merchant that closed itself.
- `PayoutChangesApart`: any two changes of the payout address through
  `update_merchant` are at least 48 hours apart, whatever loads and saves the
  record between them.
- `SuspensionEnds` (liveness): a suspended merchant whose time comes is active
  again, unless an admin suspends it anew.

## Swaps and links

`Swaps` models the oracle, its roles and threshold, and the one call that relies on
it. The router is external: it quotes and delivers any amount. `SwapsSettleAtTheRate`
is the promise to the payer, over both integer divisions: the output the router reports
(`lib.rs:3439`; no balance is looked at) is at least what the payer's tokens are worth at
a rate that was, at that moment, the last of its pair and recent enough -- up to the
deviation allowed, one unit and one basis point.

`PaymentLinks` models a link's whole life, several times over, for an identifier
may be created again by any merchant. `UsesKeepTheTerms`: the uses since the last
creation are counted exactly and each kept the merchant, amount, expiry and number
of uses the link has, and none came after its deactivation.

## Runs and bounds

| Run | Instance | Why it is enough |
|---|---|---|
| `StreamsOne` | one stream, rates 1 and 3, amounts 2 and 5, 4 seconds, at most 5 tokens in | amounts and rates that do not divide each other reach every rounding; deposits run dry before and after rate changes; the identifier lives twice |
| `StreamsTwo` | two interchangeable streams, one rate, 1 second, 4 tokens each, cancellation batches of up to three names of which two are looked at | both in one batch, or one twice; one closed and created again, so an index with a stale and a repeated entry; scans of length 1 and 2. Rate cuts are `StreamsOne`'s; that they conserve tokens is proved (`StreamsConserved`) |
| `PaymentsLife` | one payment, two tokens with tolerances 1 and 2, receipts on both sides of every boundary, 3 seconds | each status, the second of the expiry itself, limits on and off |
| `PaymentsBatches` | three payments, two keys, batches up to 2, window 2, limit 2, 4 seconds | more creations than a window takes, across two windows, singly and in batches; batches that repeat an identifier or a key |
| `RefundsMoney` | two payments that share the counters, two refunds, two disputes, a balance that may be short, a deadline, no clock | each way to a refund, together with each other, with and without money; a dispute's refund that is not the first; a deadline that is set and moved |
| `RefundsVotes` | three arbitrators, stakes 10 and 20, 1 second | ties, majorities against the number of votes, slashes of 1 and 2; a deadline that passes while votes are cast |
| `Subscriptions` | one subscription of a plan that two merchants may own in turn, interval 2, six seconds (0 to 5), caps 0 and 2, affiliates with half and with twice the payment | three charges, early, in time and late; every order of two pauses, dates and resumes; dates that are before and after the next payment; a balance that pays for an affiliate |
| `MerchantAuth` | one customer, two merchants, limits 0 and 3, periods 0, 2 and 3, amounts to 2, 5 seconds | pulls before, at and after the end of a period, and with whole periods skipped; a grant that is revoked and made again off the old grid; pairs that must not disturb each other |
| `MerchantRegistry` | one merchant and one other account, either of which may be an admin of either contract; suspensions of 0 and 2 seconds, a delay of 3, 3 seconds | a suspension that ends, is extended, is lifted by the merchant and outlived by its dates; two payout changes just at the delay; each order of grants, transfers and revocations of two accounts |
| `Swaps` | two pairs, rates of both signs, thresholds 0, 1 and 2, amounts at both edges of the deviation | a rate at the last second of its age and after it, replaced within a second, read under a changed threshold; a quote on either side of each rounding |
| `PaymentLinks` | two links, two merchants, two uses, one expiry, one limit | the last use and the one after it, before and after expiry, deactivation and re-creation |
| `Streams_DepositsBacked` | two streams, one of which closes at the other's expense | the shortest way to the violation takes four calls and one second |

Bounds of the models: `MaxTime` (clock), `MaxDeposited` (what an identifier ever
receives), `MaxBatch` (length of a batch of creations), `MaxRefunds`, `MaxDisputes`
(counters), `MaxHeld` (what the contract is sent), `MaxSubs` (subscriptions), `MaxRates`
(rates ever set), `MaxUses` (uses of links). `MaxBatchCancel`, `PayoutDelay`,
`MaxRetries`, `RetryInterval`, `DefaultThreshold`,
`WindowSecs`, `MaxPerWindow`, `FeeBps` and `SlashBps` are constants of the code, with
smaller values in the runs. The `Refunds` runs are checked with `CHECK_DEADLOCK FALSE`
because with its identifiers used up and its clock at the bound a model stops;
the others never do.

Symmetry is used where identifiers are only compared for equality (streams,
payments, arbitrators, links), with invariants and step properties, never with
liveness.

**Fairness.** The contracts have no scheduler, so a handler happens when somebody
calls it, and almost none is bound to be called. Two are assumed to be, because
anybody may make the call and nothing but the clock is needed for it to succeed:

- `Payments`: `WF(Tick)` and `WF(ExpirePayment(p))`. `expire_payment` asks for no
  authorization, role or absence of a pause; `PendingEnds` shows that this alone keeps
  a payment from staying open, whereas reports and cancellations can be blocked for
  good by a pause. Take the pause check that the other handlers have and it fails.
- `MerchantRegistry`: `WF(Tick)` and `WF(Access({m}))`. A lookup of a merchant is
  what every creation of a payment causes. `SuspensionEnds` depends on it: without a
  lookup nobody is reinstated, and without the save in `get_merchant_internal` a lookup
  would not be enough.

Both are about a time within the run (`MaxTime`), which `Tick` reaches. Liveness of
charges is *not* claimed: `process_due_subscriptions`, the call the daemon makes, does
nothing, and the operator who may charge is not bound to.

## Where the code and its documentation disagree

`Streams_DepositsBacked` is a run that TLC must find violated (`PROJECT.json`,
"findings", quotes the document): cancel, then close, and the accrued amount is paid
twice, the second time out of other streams' deposits.

The others are in the models as the code has them, without a run of their own.

*Streams.* An empty `trigger_withdrawal` keeps the withdrawal lock, and the stream
cannot be withdrawn from until it lapses (`stream.rs:668`). A top-up pays for the
seconds the deposit was empty (`stream.rs:732`; hence the upper bound `flow` in
`PaidForElapsedTime`). A closed stream stays in its recipient's index and makes
`withdraw_all_for_recipient` fail from then on (`stream.rs:1026`). The processor
exports no call that approves milestones, so through it nothing is ever withdrawn
(`lib.rs:3603`). The milestone gate divides the repository: by the code (`stream.rs:244`
creates a stream locked; `stream.rs:567`, `639` and `1143` look at the flag) and by its
comments ("Stream distributions are locked until the sender approves milestones.",
`stream.rs:96`; also `stream.rs:54`, `317` and `566`) a stream nobody approved pays
nobody, but three tests withdraw from such streams and expect to be paid:
`test_set_stream_destination_and_trigger_withdrawal` 100 (`stream_test.rs:251`),
`test_withdraw_all_for_recipient_limits_execution` 100 and 200, then 300
(`stream_test.rs:276`), and `test_batch_withdraw_to_custom_routing` from two streams
(`test.rs:231`). The code refuses the first and the last and skips the streams of the
second, so these tests ask for what it does not do; no test calls
`approve_stream_milestone`. The models follow the code, and so do
`DistributionNeedsApproval` and the condition in `WithdrawAllDrains`.

*Payments.* A batch whose requests share a key is accepted, and the key names the
last of its payments (`lib.rs:2980`, against `lib.rs:313`). A batch accepts one
identifier twice, and the list of the merchant names it twice (`lib.rs:2923`). The
counter is reset only after an idle window, so a slow but steady merchant is refused
(`lib.rs:2574`, against `docs/payment-spam-mitigation.md:7`).

*Refunds.* A refund takes the room an open dispute was checked against (`lib.rs:619`,
`lib.rs:1030`). Deciding a dispute without the vote strands its stakes
(`lib.rs:1264`; only `finalize_dispute_vote` returns any). A refund whose transfer
failed is Completed (`lib.rs:745`). A favourable vote whose refund no longer fits
resolves the dispute without one (`lib.rs:1570`). Refunds are paid from the balance
that holds the stakes, and a verdict names the token of the stakes anew
(`lib.rs:1361`, `lib.rs:1485`).

*Subscriptions.* A failed charge is stored and then undone by the error it is
answered with, so retries never count and never cancel (`lib.rs:2095`, against
`lib.rs:1928`). The cap 0 admits one charge (`lib.rs:2064`). An affiliate's share is
not checked against the whole, and a larger one is paid from the contract's balance
(`lib.rs:2027`). A metered amount stays the price of later charges, although the
comment says "for this cycle" (`lib.rs:2241`). A plan's identifier may be taken over
(`lib.rs:1691`). `process_due_subscriptions` charges nothing (`lib.rs:2261`). A pause
without an end keeps the resume date an earlier pause left, so it may end by itself and
the next payment move into the past (`lib.rs:1865`); the model does this, and
`ChargesPaced` counts it as one of its leaps.

*Registry, roles, oracle, links.* A merchant may reactivate itself while suspended
(`merchant_registry.rs:208`, against `merchant_registry.rs:435`). `revoke_role` leaves
the admin key behind. Whoever calls a second initialization of the refund manager
or the oracle becomes an admin of it. No sign of a rate is checked when it is set; a
swap refuses a rate that is not positive. A link is re-created by any merchant, and
the tracking identifiers of two uses in one second are the same.

## Proofs

All from the assumption named in each module (`StreamsAssumption`,
`PaymentsAssumption`, `RefundsAssumption`, `SubscriptionsAssumption`,
`MerchantAuthAssumption`, `MerchantRegistryAssumption` with `AccessControlAssumption`,
`SwapsAssumption`, `PaymentLinksAssumption`): amounts and times are integers of the
ranges the handlers check, and the reserved value `None` is none of them. Sets of
accounts, identifiers and tokens are arbitrary.

**`Streams_proofs`.** `IInv` says of every identifier that its record and its
histories are `Good`: `0 =< accrued =< remaining`, `checkpoint =< now`, the
conservation identity, and `streamed =< Entitled =< flow`, where the upper
bound has to be strengthened to the *uncapped* accrual (`Meter`): with the capped one
it would not survive a top-up, which lets earlier seconds count. The arithmetic
of a checkpoint is stated once (`CheckpointFacts`); each operation is then a lemma on
one record (`DoWithdraw`, `DoRerate`, `DoTopUp`, `DoCancel`, ...) and one on the
state, and each also yields the step property `Keeps`, from which
`EntitlementKept` follows. `StreamsBalanceExact` sums the conservation identity over
the streams.

The other properties of steps rest on what a step leaves of a stream that stays Active
(its terms and its approval, except for the one handler that sets them): hence
`StreamsNeedApproval`. `StreamsCutKeepsDuration` is about one division: what a cut keeps
is the whole seconds left times the new rate, and so lasts just as many.
`StreamsWithdrawAllDrains` compares the number of index entries a scan may
look at with the number of streams it picks. It assumes what the code needs not say, that
there are finitely many identifiers.

`StreamsImplementEscrow` is the refinement. What a step does to one account is one of a
few moves, read off its record and its histories (`Moves`), and there is one lemma for
each handler that puts the moves of all accounts together into one step of `Escrow`.
The second that passes needs the arithmetic of `CheckpointFacts` once more: the clamped
accrual at `now + 1` is that at `now` plus the lesser of the rate and what is left.

**`Payments_proofs`.** All properties of `Payments` but the liveness one. `WindowRespected` is a fact
about times the contract does not keep, so `IInv` ties what it keeps to them
(`Paced`): the counter is the number of creations since the last gap of a whole
window, and the last time is that of the latest creation. `PacedCreate` is the
argument: the creation `MaxPerWindow` places earlier lies before that gap.
`StatusIsTrue` is an argument about one record (`Sound`), proved for each way a
record is made or changed and for the passing of a second. Steps are reduced to
two shapes: some payments are `Created` (one or a batch; the batch needs that its
last request for an identifier exists, `LastExists`) or one is `Changed`.

**`Refunds_proofs`.** `IInv` is `TypeOK`, `RefundPart` (lists are exact,
identifiers above the counter are unused, money was sent only for Completed
refunds), `DisputePart` (the same for disputes, and what a `refundId` says) and
`StakeJustice`. Identifiers above the counter must be free, or a new refund could
overwrite one that a dispute names. Actions are first reduced to a few shapes
(a refund issued, one refund's status changed, one dispute changed), and each
shape keeps each part. `Final` is an action property from the same invariant.
`TallyPart` and `OwedPart` make the two properties about sums inductive: each dispute's tallies
are the stakes of its voters, and each payment's refunds, but the rejected ones, add
up to at most its amount, with what was sent bounded refund by refund. A handler checks its
limit over the *list* of a payment's refunds; `ListsExact` makes this the sum over all.
The sums are those of the community modules, a recursive function over subsets; the
lemmas about them (a sum without an element, over a larger set, of larger terms) come first.
`RefundsImplementClaims` is the refinement: `OwedChanges` and `SentChanges` say that a
change of one refund changes the sums of a payment by its own term and those of others by
nothing (`OneRefund`), and `RefundMoves` reads each shape as a step of the account.

**`Subscriptions_proofs`.** All properties of `Subscriptions`. What the record keeps
for the pace is one number, the next payment; `Pace` states the property not only for
the charges there were but for the one to come, at the earliest at the *horizon*, the
later of the next payment and now. A charge moves the horizon an interval on, time only
raises it, and the automatic resume lowers it by at most one interval, which is the leap
it is charged with -- for that the invariant needs that the next payment is never
more than an interval away. Everything about one record is proved apart from the
state (`Sound`, and a lemma for each way a record changes).

**`MerchantAuth_proofs`.** `Grounded` says of a grant that its period starts on the
grid of the grant, `m` periods after it, and that what was pulled is at most the
limit times `m` and what this period's counter shows. This is what the bound of
`PulledWithinLimit` cannot say of itself: it counts periods from the grant, the
code from the last pull. The same grid is what the refinement needs: the time into
the period is what remains of the time since the stored start, before a roll-over as
after it (`AuthImplementsAllowance`, with a lemma for each action and the fact of
integer division they rest on).

**`MerchantRegistry_proofs`.** The invariant has four independent parts: `RolesInv`
(flags, index, key), `Records` (the dates of suspensions), `Payouts` (each change is
at least the delay after all others, and the recorded last change is the last) and
`Settings`. A call is a load followed by a change of one record and perhaps by a
grant, and so is its proof.

**`PaymentLinks_proofs`.** `UsesKeepTheTerms` needs to know when the present life of
a link began and, once it is deactivated, when that ended (`Marks`); a use adds itself
to the life of its own link and to no other (`LifeGrows`, `LifeKept`).

**`Swaps_proofs`.** `SwapsSettle` is about two integer divisions, a quote by the
oracle's rate and the deviation in basis points, and the lemmas `QuoteFacts` and
`SettledFacts` bound what each may lose. The divisor is a power of ten, a
recursive function of the decimals, of which the proof needs that it is positive. The
invariant says that the stored rate of a pair is the last of those published and in
what order they were; a payment, once settled, stays so because the rates
published before it are never changed.

**Recursion.** The library's induction theorems take an operator as a parameter,
which the installed provers cannot instantiate. What the two recursive definitions
compute is argued instead by a smallest counterexample, with the theorem `WFMin` and the
order of strict subsets: `SumUnfold` for the sums of `Refunds`, `DivisorUnfold` for the
divisor of `Swaps`.

Only model-checked: the liveness properties `PendingEnds` and `SuspensionEnds`.
Liveness under fairness and `ENABLED` are beyond the prover. (`DepositsBacked` is
violated, and `StreamsBalanceExact` says when it cannot be.)

## Not modelled

- `process_due_subscriptions` changes nothing; `refund_instantly` cannot succeed.
- Fee settings and `calculate_fee` of the registry: a pure computation whose result
  only the flat fee of `Refunds` would use.
- Names, bank accounts, metadata, descriptions, currencies, tracking identifiers.
- `DexRouter` (fixed prices, no state of its own; external in `Swaps`) and
  `GasEstimator` (tables).
- Event payloads, TTLs and archival, the SDK, the scripts, the indexer and CI.

## Plan

1. `Platform`: processor, refund manager and registry together; what a refund
   manager's copy of a payment promises once the processor has moved on.
2. `calculate_fee` against a reference definition over bounded inputs.
