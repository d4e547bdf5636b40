# Pyth cross-chain: a TLA+ verification project

The repository holds the off-chain and on-chain parts of the Pyth oracle outside
Pythnet. This project models the parts that carry a protocol of their own, checks
them with TLC on small instances and proves the central results with TLAPS for
every instance. Four groups are modelled:

* **Entropy**, the commit/reveal randomness protocol: the contract on an EVM chain and
  Fortuna, the service of a randomness provider (keeper, nonces, hash chain);
* the **price pusher**, which keeps the prices of a contract close to those of Hermes:
  its controller with the EVM pusher, and the Aptos, Injective and Sui pushers;
* the **WebSocket clients** of the Lazer and the price service SDKs;
* **governance** of Pythnet: proposals to a multisig, the crank that executes them, the
  relayer and the remote executor.

## Inventory

| Part (source) | State it keeps | Operations | Hard behaviour |
|---|---|---|---|
| Entropy contract (`target_chains/ethereum/contracts/contracts/entropy`) | provider records, two-level request table, accrued fees, governance | register, withdraw, request, reveal, revealWithCallback, advanceProviderCommitment, setters, governance | hash collisions in the table, rotation under pending requests, reveals out of order, calls back into the contract, reverts, checked arithmetic |
| Fortuna keeper (`apps/fortuna/src/keeper`) | taken sequence numbers, last safe block, channel of block ranges, running tasks | watch blocks, scan ranges, submit reveals, advance commitment, adjust fee, withdraw fees | concurrent threads on one set, bounded channel, lagging RPC nodes, reorgs, crashes, timeouts with late transactions |
| Fortuna nonces (`apps/fortuna/src/eth_utils`) | cached nonce | initialise, next, resend, reset | concurrent tasks around initialisation and reset, lost transactions |
| Fortuna hash chain (`apps/fortuna/src/state.rs`) | sampled hash chains with offsets | reveal | index arithmetic at segment boundaries |
| Fortuna API (`apps/fortuna/src/api`) | none | revelation | two reads that are not of one moment |
| Price pusher controller and EVM pusher (`apps/price_pusher/src`, `evm`) | latest source and target prices, last push attempt, pushes in progress | receive, poll, compare, push, replace | pushes that overlap, nonces and gas replacement, late polls, lost answers, other pushers, crash and restart |
| Aptos, Injective, Sui pushers (`apps/price_pusher/src`) | cached sequence number and lock; account; pool of gas coins | predict, fetch, broadcast, confirm; merge, split, take, give back | caches that are wrong after a lost transaction, coins lost or used twice |
| Lazer client (`lazer/sdk/js/src`) | sockets, subscriptions, cache of messages | connect, heartbeat, restart, subscribe, deduplicate, shut down | two restarts at once, shutdown during a restart, duplicates |
| Price service client (`price_service/client/js/src`) | callbacks, ResilientWebSockets | subscribe, unsubscribe, restart, close | calls that overlap at the wait for a socket |
| Governance tools (`governance/xc_admin/packages`, `remote_executor`) | proposals, messages, claim record | propose, resume, execute, relay | shared transaction index, transactions that land late, stops half way, messages that must not be passed over |
| Pyth contract, governance, Wormhole receiver (`.../contracts/pyth`, `wormhole-receiver`) | latest prices, data sources, governance sequence, guardian sets | update prices, parse updates, governance instructions | replay, ordering by publish time, authority transfer, guardian set expiry |
| Executor, Pulse (`.../contracts/executor`, `pulse`) | executed sequence; price requests and providers | execute; request, execute callback | replay, exclusivity periods, reverting callbacks |
| Hermes (`apps/hermes/server`) | per-slot accumulator messages and VAAs, caches, subscribers | join, store, evict, serve | messages in any order, eviction of what is still needed |
| Message buffer, other chains' receivers, Lazer contracts | accounts per program | update, execute, verify | replay, bounds |
| Contract manager, staking and receiver SDKs, web applications | none of the protocol | build and display data | input/output only |

Components interact by transactions and logs (keeper, pushers, cranks and their
chains), by an in-process channel and a shared set (the keeper's threads), by fields
shared between calls that are not awaited (pushers and SDKs), by RPC reads that may be
stale, and by callbacks (contract and consumer). `PROJECT.json` lists every component
with its status and the hazards with the lines at which they bite.

## Modules

| Module | Models |
|---|---|
| `Entropy` | the contract: one action per external function |
| `RandomnessLedger` | what the contract promises: a ledger of numbers, each opened once in increasing order and answered at most once |
| `EntropyLedger` | the refinement mapping from `Entropy` to `RandomnessLedger` |
| `MCEntropy` | instances for TLC, and `Solvency` (a sum over the providers) |
| `EntropyProofs` | inductive invariant and theorems for `Entropy` |
| `EntropyLedgerProofs` | `Entropy` implements `RandomnessLedger`, and is solvent |
| `HashChain` | Fortuna's sampled hash chains: `reveal_ith` and `reveal` |
| `HashChainProofs` | `reveal` returns the right element, for every chain and sample interval |
| `FortunaKeeper` | the keeper's threads, the chain they watch and the mempool; discloses through `HashChain` |
| `MCFortunaKeeper` | instances for TLC |
| `FortunaKeeperProofs` | all safety properties of `FortunaKeeper` |
| `PricePusher`, `MCPricePusher` | controller, listeners and EVM pusher, with the contract and the network |
| `PricePusherProofs` | all safety properties of `PricePusher` |
| `AptosPusher`, `InjectivePusher`, `SuiPusher`, `NonceManager` | four programs that number transactions, or hand out gas coins, from a local cache |
| `MCSenders` | these four as alternatives, with one fault model |
| `SendersProofs` | the lock of `AptosPusher` and the coins of `SuiPusher` |
| `LazerPool`, `PriceServiceClient` | two clients that keep subscriptions over sockets they replace |
| `MCWebSockets` | these two as alternatives |
| `WebSocketsProofs` | the sockets and the messages of `LazerPool`, and the sockets of `PriceServiceClient` |
| `Governance`, `MCGovernance` | requests, proposals, crank, relayer and remote executor |
| `GovernanceProofs` | the proposals hold their requests, batches fit; the relay to Pythnet skips no message |

Operators named "Mutant" in a comment are deliberately wrong variants of the
definition that follows them; each property of a passing run is violated when its
mutant takes the place of the real definition.

### Entropy

*State.* `providers`, `requests`, `requestsOverflow`, `accruedPythFeesInWei` and
`governance` are the fields of `EntropyInternalStructs.State`; `balance` is the wei
the contract holds; `events` and `registrations` are its logs, used as history.

*Hashes.* A word of a hash chain is `[chain, index]`. Element 0 is what a
registration commits to and hashing lowers the index by one, so
`constructProviderCommitment(n, w)` lowers it by `n`. keccak256 is injective: equal
commitments have equal preimages. `requestKey`'s short hash is a constant operator
`ShortKey`: nothing is assumed of it but its range, so every pattern of collisions is
covered. The prefilled slots of `_initialize` keep only the provider `address(1)`;
their other fields are never read, because their sequence number is 0.

*Failure.* A function that reverts leaves no trace, so its `require`s are guards,
overflow of the checked arithmetic included.

*External calls.* `withdraw` and `revealWithCallback` hand control to another
contract. They push the storage at their entry on `callStack`; every function may run
while the frame is open; `ReturnCall` pops it and `RevertCall` restores it (the
transfer failed or the consumer reverted). Withdrawals go to any receiver that can
call back. View functions and upgrades are not modelled.

*Refinement.* `RandomnessLedger` has one variable, and one action that commits any
set of entries at once, since a transaction with nested calls may make and answer
several requests. `EntropyLedger` maps the storage *committed* so far (the one saved by the
outermost open call, or the current one) to it. The log of a number decides its entry: a
request opens it, a reveal answers it, and any further entry makes it `"repeated"`, a status
that the ledger never reaches: a second reveal is a step the ledger does not have.

### FortunaKeeper

*Chain (external).* `chain` is the sequence of blocks with the confirmed block
status. A block holds at most one request and one keeper transaction. Sequence
numbers are counted from the requests on the chain, as `requestHelper` assigns them;
requests without a callback, which the keeper never sees, are left out. A reorg drops
up to `ReorgDepth` blocks of the longest chain so far. An RPC call is answered at any
view at most `MaxLag` blocks behind the chain, and the runs take a delay no shorter than the
lag, so they do not test how `RETRY_PREVIOUS_BLOCKS` and the rescan make up for a node that
lags further. RPC errors that the code retries in a
loop change nothing and are stuttering steps.

*Threads.* `watch_blocks` computes a range and `sendRange` delivers it (two steps: the
send may wait for a full channel, and `last_safe_block_processed` moves after it).
`receiveRange`, `fetchBatch` and `handleEvent` are `process_new_blocks`,
`process_block_range` and one turn of the event loop of `process_single_block_batch`;
the backlog thread is the second worker running the last two. Tasks go
`spawned -> submitting -> waiting` and end; `updateCommitments` and `updateReturns`
are the commitment updater. `tx.send` cannot fail: the receiver never stops.

*Submission.* Estimating, filling and sending may fail (`submitFails`), an estimate
above the limit ends the task, waiting may fail although the transaction is mined
later (`receiptFails`). The five minutes of backoff are `MaxRetries` attempts. Since
`submit_tx_with_backoff` returns `Ok` in every case, `finishTask` always counts a
success; the failure branch of `process_event_with_backoff` is unreachable.

*Disclosure.* Publishing an element of the hash chain lets anybody compute those of all
smaller numbers. `disclose(n)` therefore records the holders of the numbers `1..n`. What
is published is what `HashChain!reveal` computes from the samples, so that
`DisclosedElementsExpected` compares it with the element the contract expects.

*Fairness (`FairSpec`).* Blocks keep coming, the process is restarted after a crash,
and each thread that can take a step eventually does: tokio schedules its tasks and an
RPC endpoint answers again after errors. Nothing is assumed of users, reorgs,
crashes, or of the mempool: a transaction may never be mined.

### HashChain

`PebbleHashChain` keeps every `sample_interval`-th element, counted from the *end* of the
chain, and recomputes the others by hashing; `HashChainState::reveal` picks the chain by
its offset. An element is the number of times the secret was hashed and hashing adds one, so
`reveal_ith` is index arithmetic with the code's own divisions; `hash` is the list that
`PebbleHashChain::new` leaves after its `reverse`.

### PricePusher

*Process.* `source` and `target` are the `latestPriceInfo` of the two listeners; `polled`
is the answer of a poll that has not been processed. `checkPrices` is one turn of the
controller's loop; a turn without a push changes nothing. `updatePriceFeed` is not awaited,
so `pushes` holds the calls in progress, each stopped at an RPC call: `getTransactionCount`
(nonce, `lastPushAttempt`, gas price to override), `writeContract` (simulation and
submission, or an error that skips the push), `storePushAttempt`. `throwError` is an error
nobody catches: the process ends, as it does in `healthCheck`, and `start` runs it again.

*Environment.* A price is its publish time. The contract applies
`updatePriceFeedsIfNecessary`. The mempool holds one transaction per nonce and replaces it
for a gas price that is a tenth higher, as nodes do (`accepted`); it may evict it, an answer
may be lost, the gas price may move, and `otherPusher` updates the same contract.

*Fairness.* One fault happens. Timers fire, calls are answered, a transaction that pays
enough is executed, and the process is restarted (the shipped `docker-compose` files say
`restart: always`).

### The senders

*AptosPusher.* `predictSequenceNumber` or `fetchSequenceNumber` under the lock,
`submitTransaction`, and a confirmation that is not awaited and drops the cache when it
times out. A push during a fetch throws outside the `try`, which ends the process
(`rejectDuringFetch`), and so does a failure to generate the transaction (`fetchFails`). A
transaction that was executed and failed drops the cache too (`executionFails`).

*InjectivePusher.* The account is fetched with `??=`: the answer is assigned whatever the
field has become meanwhile (`assignAccount`). Signing is local and part of `simulate`.

*SuiPusher.* `mergeChunk` and `retryWithoutLocked` are the loop of `mergeGasCoinsIntoOne`,
which learns the locked coins from errors; `splitGasCoinEqually` makes the pool. A
transaction takes a coin, and ends in `effects`, `versionMismatch`, `callFails` (its
transaction may still execute: `executeLate`) or `throwError`. When every coin seen so far is
locked there is nothing to pay the gas of the merge with, and the process starts over
(`mergeNothing`, `startOver`). A wallet with a single coin is not merged and is left out.
The effects of a transaction are taken to name its gas coin, as the Sui protocol says they do:
`sui.ts:275-277` and `304` would drop a coin whose reference is undefined.

*NonceManager.* Tasks of Fortuna: `next` or `get_transaction_count` and `storeAndNext`, then
`send_transaction` with its resend, `receipt`, `reset`. `callFails` is a failure after the
nonce was taken: a gap that only a reset closes. A task may give up at any attempt
(`giveUp`: five minutes are over, or the gas estimate is too high), leaving behind a nonce or
a transaction that waits. No fairness is assumed of giving up, so `FortunaNoTaskBlocked` says
that the tasks that go on are never blocked for ever, by failures or by tasks that gave up;
a task that does give up returns without its transaction, which `keeper_metrics` is about.

*Fairness.* Calls return, timeouts fire, the controller keeps pushing, and a chain executes
what it can execute. Faults are bounded by `MaxFault`.

### The WebSocket clients

*LazerPool.* Per connection: every socket it made, the current one, the promise of the
handshake, the restart after a close (`restart`) and the one after a heartbeat timeout
(`terminated`). `open`, `connectionFails`, `connectionTimeout`, `handleClose` are the
socket's events, `restartUnexpectedClosedWebsocket` follows the backoff. `send` waits for a
socket. `create` waits for the promises of the first handshakes (`created`): a connection
that opened and was lost meanwhile counts as established.

A restart awaits its promise inside `void this.handleClose()`, so that a handshake that fails
or takes too long is a rejection nobody handles. `unhandledRejections` is what the process
does then: with `"throw"`, the default of Node, it ends (`phase = "ended"`); with `"warn"` it
goes on, and the close event starts the next restart. Both are checked. The model is that of
Node: the `WebSocket` of a browser has neither `terminate` nor ping events.

`dedupeHandler` and `expire` are the cache of messages. `expire` waits for the last copy of a
message: that all copies arrive within the ten seconds of the cache is an assumption about
the service, and `LazerDeliveredOnce` is false for a copy that arrives later.

*PriceServiceClient.* The older `ResilientWebSocket` without a promise: a restart waits for
the socket at most five seconds (`reconnected`, `restartTimeout`). The connection makes a
new ResilientWebSocket after it closed one, so `clients` is a sequence.

A call of the user has two awaits, and a caller need not wait for the call. Without a client
it makes one and yields (`request`, at `"starting"`), goes on to the callbacks (`started`),
and its send yields once more when a socket is open or missing (`"sending"`) or polls every
ten milliseconds for up to five seconds (`"waiting"`), until `send` or `sendTimeout`.
`unsubscribePriceFeedUpdates` looks at the callbacks after that (`afterSend`). An await that
waits for nothing is a microtask: other calls made in the same turn of the event loop come
in between, events and timers do not (`turnOver`).

`PriceServiceNoSocketLeaked` holds for every caller. `PriceServiceFollowsCallbacks` takes a
caller that does not set `overlapped`, because the code does not keep it otherwise:

* two calls for one feed that both wait may send in either order, each with its own timer;
  an unsubscription that is sent after a later subscription leaves a callback without a
  subscription;
* `closeWebSocket()` in the turn of a `subscribePriceFeedUpdates` that was not awaited finds
  the new client and closes it; the callback is registered afterwards and has no client until
  a later call makes one;
* a call that makes a client in the turn in which an unsubscription has still to look at the
  callbacks, which are empty, has its client closed in the same way.

These are not listed as findings because nothing in the repository says that calls may
overlap; the examples await each call or make a single one.

*Fairness.* Servers accept connections in the end; close events and timers arrive.
`LazerSubscriptionsRestored` also takes handshakes that stay below `CONNECTION_TIMEOUT`;
`LazerReconnectCallsBack`, which does not, is the subject of `lazer_late_handshake`.

### Governance

*Requests.* `propose` reads the transaction index once (`base`) and turns a request into
Squads operations and these into transactions (`proposeAll`, `writeProposal`, `batchIntoExecutorPayload`,
`batchIntoLegacyTransactions`), which `sendAllTransactions` sends one after the other, each
up to `TIMEOUT` times. A transaction is confirmed, rejected, or given up while it may still
land (`flight`, `landLate`). `resume` goes on with a proposal that was left half way; the
operator is assumed to give the address of his own.

*Execution.* The crank takes a snapshot of the approved proposals and executes their
instructions in order; another client may do the same. Each posted message gets the next
sequence number. The relayer starts after the claim record, relays in order and stops at a
failure unless `SKIP_FAILED_REMOTE_INSTRUCTIONS` is set; `execute_posted_vaa` accepts only
sequence numbers above the claim record.

The program lets any payer execute any posted message (`lib.rs:61-66`). The model has no
caller but the relayers: an outsider who executed a later message first would move the claim
record past an earlier one, and `NoMessageSkipped` would be false. Nor does an instruction of
a message fail for good, the case for which `SKIP_FAILED_REMOTE_INSTRUCTIONS` exists; without
the flag the relayer would stop there for ever. A transaction that is too large for its only
instruction, where `buildLegacyTransactions` throws before anything is sent, is left out.

*External.* The Squads program, Wormhole and the atomicity of a Solana transaction are
stated as far as the clients rely on them; members approve and cancel.

*Fairness.* Both cranks are started again and again (they are one-shot jobs), and their
calls succeed when nothing is wrong.

## Runs

| Run | Instance | What it shows |
|---|---|---|
| `entropy_requests` | 2 providers, numbers to 3, 2 slots | collisions within and across providers never lose, revive or mix up a request (`TableFindsPending`); `RevealedOnce` |
| `entropy_rotation` | 1 provider, 2 chains, numbers to 5, block hashes, hash limit | `ProviderCounters`, `RevealsCommittedNumber`, `CommitmentTracksChain` over rotations, advances and reveals in any order |
| `entropy_calls` | 1 provider, fees of 1 wei paid exactly or over, fee manager, calls nested 2 deep | the ledger is implemented (`ImplementsLedger`); `RevealedOnce`, `Solvency` and `TypeOK` under reentrancy, reverts, fees and overpayment |
| `keeper_disclosure` | 4 blocks, reorg depth = delay = 1, 2 providers, 2 users, 1 retry, hash limit 1, sampled chain | `DisclosedNumbersFinal`, `DisclosedElementsExpected`, `TypeOK` |
| `keeper_scan` | 5 blocks, lag 1, delay 1, channel of 1, rescan delay 1, 1 crash, 2 requests | `NoRequestSkipped`, `OneTaskPerRequest` and, under `FairSpec`, `EveryRequestHandled` |
| `keeper_collision` | a second provider | **violated**: an event of the other provider with the same number takes our request out of play |
| `keeper_metrics` | every attempt fails | **violated**: the request counts as processed successfully |
| `price_pusher` | 1 feed, 2 publish times, 2 pushes at once, 2 gas prices, 1 fault, 6 transactions | at most one transaction waits and it is the next one (`OneTransactionPending`); the cache only advances (`TargetCacheAdvances`); a push executes only on the price it was decided on (`PushDecidedOnCurrentPrice`); the contract follows the source (`TargetFollowsSource`) |
| `senders` | 2 pushes or tasks at once, 2 faults; Sui: 3 coins, chunks of 2, 2 gas objects | the lock admits one fetch (`AptosOneFetch`), stale numbers are noticed (`AptosRecovers`, `InjectiveRecovers`), coins are neither lost nor doubled (`SuiCoinsPartitioned`, `SuiMergedAllUnlocked`, `SuiReferencesRecover`), no reveal waits for ever behind a gap (`FortunaNoTaskBlocked`) |
| `websocket_clients` | Lazer: 2 connections, 2 requests, 1 slow handshake, rejections that throw and that warn; price service: 2 feeds, 4 calls; 2 faults | no client forgets an open socket (`LazerNoSocketLeaked`, `PriceServiceNoSocketLeaked`), each message arrives once (`LazerDeliveredOnce`), subscriptions come back (`LazerSubscriptionsRestored`, `PriceServiceFollowsCallbacks`), shutdown is final (`LazerShutdownIsFinal`); `LazerTypeOK` |
| `lazer_late_handshake` | 1 slow handshake, rejections warn | **violated**: a connection that was lost is open again and has no subscription |
| `governance` | 2 requests at once, up to 4 instructions in 2 proposals, 1 resumption, 1 fault | `ProposalsHoldOneRequest`, `ActivatedIsComplete`, `BatchesFit`, `NoMessageSkipped`, `ApprovedIsExecuted` |

*Why the bounds are enough.* Table errors need two requests that share a slot and a clear or
a third request: three numbers and two slots. Rotation errors need a pending request, a
rotation and one more step: numbers to 5 leave room for two registrations and two requests.
Reentrancy errors need one call back; two levels also cover a call whose nested call is
itself interrupted. One fee is enough for TLC because `SolvencyCorrect` covers every fee.
Losing a block needs a scan of more than one batch, a rescan and a range waiting behind a
full channel: five blocks. A disclosure error needs a request that is reorganised away and
one that takes its number: two users and a reorg of one block. Races of the pushers need two
calls at once and a fault between them; the second fault of `senders` hits the recovery from
the first. `MaxTx` and `MaxNonce` are large enough never to stop a behaviour before it has
recovered. With one feed the early-update thresholds of `price-config.ts` decide nothing,
because they only add feeds to a push that another feed has triggered; two feeds beside two
pushes are out of TLC's reach. Two restarts of one connection race only after a close and a
timeout: two faults. Proposals are mixed by two clients that read one index, with one
transaction landing late. Deadlock is not checked because the bounds end every behaviour.

`NoRequestSkipped` and `EveryRequestHandled` are checked for nodes that lag by no more
than `reveal_delay_blocks`; with larger lags a request can be missed when the chain
advances more than `RETRY_PREVIOUS_BLOCKS` between two ranges.

## What the code does that a reader may not expect

Three disagreements are runs that TLC refutes (`keeper_collision`, `keeper_metrics`,
`lazer_late_handshake`; see "findings" in `PROJECT.json`). The others met while modelling:

* *Reveal delay.* A request is revealed when the confirmed block is exactly
  `reveal_delay_blocks` above it (`keeper/block.rs:52`); `config.rs:120-123` says the
  difference "should be greater".
* *Gas of a skipped push.* `evm.ts:294-300` and `351-360` say that the next push raises the
  gas price after an underpriced or too cheap transaction, but `lastPushAttempt` is only set
  after a successful submission: a push that nodes refuse as underpriced is repeated with the
  same gas price until the network's price has risen by a tenth or the waiting transaction is
  gone.
* *Pushes that change nothing.* A feed whose source price is older than 60 seconds is
  `undefined`, which means "push" (`price-config.ts:100-101`), and an equal publish time with
  a wide confidence interval also pushes (`<` at line 113): that a push always stores a newer
  price is not a property of this code.
* *Failed restart.* A restart of a Lazer connection whose handshake fails, or takes longer
  than `CONNECTION_TIMEOUT`, rejects inside `void this.handleClose()`
  (`resilient-websocket.ts:124`, `189`): by default a Node process ends, so that the backoff
  of the next restart is never reached.
* *Calls that overlap.* See `PriceServiceClient` above.
* *Resuming.* A request whose activation landed and whose approval did not cannot be resumed:
  activating again is rejected until "Too many retries".
* *Message 0.* The claim record starts at 0 and only larger numbers are accepted
  (`lib.rs:65`), so a message for Pythnet with sequence number 0 can never be executed and
  stops a relayer that does not skip (`SequenceZeroUsed`).
* *Skipping.* With `SKIP_FAILED_REMOTE_INSTRUCTIONS` a failure of the call, not only of the
  instruction, skips the message, and the next one executed rules it out for good.
* *Sui.* A transaction whose call timed out may execute later; the refreshed reference may be
  stale by then, and the coin is repaired by the next failure.

## Proofs

### The Entropy contract

`EntropyProofs` proves, for every choice of the constants allowed by
`ConstantsAssumption` (any providers, array size, short hash, chain lengths, bounds and
call depth), that `Spec` implies always `TypeOK`, `ProviderCounters`,
`TableFindsPending`, `RevealedOnce`, `RevealsCommittedNumber` and
`CommitmentTracksChain`.

None of these is inductive alone. The invariant `IInv` says that the types hold and that
`Safe` holds of the current storage and of the storage in *every* frame of
`callStack`, because a revert makes a saved storage current again. `Safe` adds:

* the shape of the table: an active request in a slot sits in the slot of its own key
  and is pending, an entry of the overflow mapping is pending under its own key, and
  every pending request is in one of the two (`SlotsPending`, `OverflowPending`,
  `PendingFound`). Without the first two, clearing one request could uncover another.
* freshness: no number at or above a provider's next number was ever given out, so a new
  request starts an empty log and no overflow entry is overwritten.
* registrations: they are ordered, the last one is the provider's, and the
  registration that governs a number does not change when a later one starts above it.
* commitments: a pending request's `numHashes` and commitment single out the element of
  the governing chain at the request's number (`BindsToElement`, `OpensCommittedWord`),
  so that only this element passes `revealHelper`, however far the provider's current
  commitment has moved meanwhile (`MoveSafe`).

Each external function has one lemma for types and one for safety; `Inductive`
combines them and PTL concludes.

### The ledger and the money of Entropy

`EntropyLedgerProofs` proves `Spec => ImplementsLedger`. Only a transaction that ends
commits, and then everything its nested calls did and did not revert is committed at once,
so the proof needs to know how a storage inside a transaction relates to the committed one.
`Follows(prov, evs, prov1, evs1)` says it: next numbers only grow, and the log of a number
stays, is opened if it is not below the next number, or gets its answer. It is transitive,
every external function takes the storage to one that follows it (`StepFollows`), and
`FramesFollow` (each saved storage is followed by the ones above it and by the current one)
is inductive with `IInv`: a revert makes the topmost saved storage current, which follows
those below it. `CommittedStep` lists the ways the committed storage changes,
`FollowsCommits` turns `Follows` into a step of the ledger; that the answer fits the request
comes from `LogIn` and `OutcomeIn`.

It also proves `Spec => []Solvency` for any finite `Provider` (`ProvidersFinite`: addresses
have 160 bits). `Solvency` sums with a fold of the community modules, whose value the
provers do not know: `TotalsExist` shows that the recursive function of the fold exists,
`TotalsAnyOrder` that the order of the summands does not matter, and `TotalChange` that
changing one summand changes the sum by as much, each by induction on the size of a set of
providers, with `SetInduction`. The invariant is that the storage *and all saved storages*
are solvent.

### The keeper

`FortunaKeeperProofs` proves all safety properties of the keeper, for every delay, batch
size, lag, reorg depth and number of crashes.

* `OneTaskPerRequest`. A bound on the number of tasks is not inductive; `TakenIsCached` adds
  that the number of every request with a task is in `fulfilled_requests_cache`. Only
  `handleEvent` spawns, and only when its insert is new; only `Crash` empties the cache, and
  it ends the tasks with it.
* `TypeOK`, with `ChainLength`: a reorg never cuts below the first blocks, and the highest
  block ever seen is at most `ReorgDepth` above the head.
* `DisclosedElementsExpected`, from `RevealCorrect` of `HashChainProofs`.
* `DisclosedNumbersFinal`, if `reveal_delay_blocks >= ReorgDepth` (`DelayCoversReorgs`): the
  contract of the parameter, without which the property is false. `FinalInv` follows a
  request from block to disclosure: ranges end at safe blocks, events in batches and tasks
  are those of requests in safe blocks, and no reorg removes a safe block.
* `NoRequestSkipped`, if the contract has one provider (`OneProvider`; the run
  `keeper_collision` shows that a second one makes it false) and
  `reveal_delay_blocks >= ReorgDepth + MaxLag` (`DelayCoversLag`: a node that lags further
  than the delay answers for blocks it has not seen). `SkipInv` adds the converse of
  `TakenIsCached` and that a range being sent starts no later than the watcher is.

### Hash chains

`HashChainProofs` proves `RevealCorrect`: for every list of chains, offsets, lengths and
sample intervals, `reveal(n)` is the element the contract expects for `n`, whenever it does
not fail. `RevealIth` is the arithmetic: `Division` and `QuotientMonotone` bound the quotient
that finds the sample, so the index stays within `hash` and the digests bring it to the
element. `ChainStarts` shows that the chain picked by the offsets starts at or before `n`.

### The price pusher

`PricePusherProofs` proves `TypeOK`, `OneTransactionPending`, `TargetCacheAdvances` and
`PushDecidedOnCurrentPrice`. The invariant adds that a push about to send holds a nonce no
higher than the transaction count (`NoncesTaken`, so that it can only replace the waiting
transaction), that cache and poll are never newer than the contract (`CachesBehind`), and
that the publish times passed with a push are at most one above the contract's
(`DecidedBehind`, so that the contract's test singles out the price it was decided on).

### The senders

`SendersProofs` proves `AptosOneFetch` (the push that holds the lock is the only one that
fetches, and without a lock nobody does), `SuiCoinsPartitioned` (no two places, in the
pool or with the tasks, have the same coin, and once the pool is filled every coin is in
one) and `SuiMergedAllUnlocked` (the merged coins are those of the chunks before the current
one that were not found locked, and no merged coin is locked).
`SuiAssumption`: the wallet is a list, chunks are not empty.

### The WebSocket clients

`WebSocketsProofs` proves `LazerTypeOK`, `LazerNoSocketLeaked` and `LazerDeliveredOnce`.
`NoSocketLeaked` is not inductive: a socket in its closing handshake must be the current one
too (`SocketInv`), since its close event will clear the current socket whatever it is then.
`DeliveryInv` adds that a delivered message is in the cache or has no copy on its way.

It also proves `PriceServiceNoSocketLeaked`. `PriceServiceInv` says the same of every
ResilientWebSocket (`Sound`), and that every one but that of the connection was closed by the
user, which is what keeps a restart that still sleeps from opening a socket nobody refers to.
The steps of a client change one client soundly (`ClientStepsChange`); a call that makes a
client finds all others closed (`CallBegins`); one that ends sends on a current socket or
closes the connection's (`CallEnds`).

### Governance

`GovernanceProofs` proves the five safety invariants of `Governance`. `GovernanceAssumption`:
a request asks for at least one instruction, a proposal can hold one, a transaction is tried
at least once. Sizes and limits are arbitrary, and so are the numbers of requests, resumptions
and faults.

*The relay.* `NoMessageSkipped`. A relay that was given up may land much later;
`RelayBehindClaim` says that neither it nor the relayer is beyond a message for Pythnet that
was not executed, so whenever it lands it executes the next one or is refused.

*Proposing.* `ProposalsHoldOneRequest`, `ActivatedIsComplete`, `BatchesFit` and `TypeOK`
follow from one invariant, `ProposeInv`. Each request has a *plan*: where its proposals start
(`base`) and the payloads to write (`contents`); slice `k` of the plan goes into proposal
`k`. The invariant says that

* every proposal belongs to a request that has read the account, holds the beginning of its
  slice, all of it once it is active, and follows a complete proposal of the same request or
  is its first (`Sound`);
* what a request has still to send is a `queue`: operations of the plan in its order, without
  gaps, the first of which is `due`, that is, the proposals are already as far as it needs;
* every transaction that was given up executes an instruction, or is such a piece of a plan
  and `due` too (`sent`): the proposals may be far beyond it, never behind it.

The last is what makes a late transaction harmless. The program accepts it only at the very
place where the proposal is, so it adds the next payload of the same plan, or it is refused;
and an activation that is due finds the proposal complete. That the queue stays due needs
that proposals only grow (`grows`, `DueGrows`) and that a transaction is applied whole
(`LandChain`, by induction on its operations). A second client whose `base` was read too
early creates nothing, since the index is taken: the owner of a proposal is part of `due`.

The lemmas below it are about the operators: where `batchIntoExecutorPayload` cuts the
instructions (`PayloadsCut`), that `batchIntoLegacyTransactions` keeps the order and the
limit (`BatchedIsQueue`), that `proposeAll` lists the whole plan (`ProposedChain`), and what
`FlattenSeq` gives for consecutive payloads (`FlattenSlice`). Inductions over data are
written with sets: `SetInduction` (a set that holds 0 and successors holds every number) has
no operator parameter, and each lemma defines its own set. Functions that a fold or a
recursive function chooses are shown to exist first (`SplitExists`, `FlatExists`,
`BatchingExists`, `RunningExists`).

*Only model-checked:* liveness everywhere, which is out of the prover's reach
(`EveryRequestHandled`, `TargetFollowsSource`, the recovery of the four senders,
`LazerSubscriptionsRestored`, `LazerShutdownIsFinal`, `PriceServiceFollowsCallbacks`,
`ApprovedIsExecuted`). Every invariant of a passing run is proved.

## Not modelled, and the plan

1. Proofs: what is left to the model checker is liveness.
2. Models that could follow: the Pyth EVM contract with its governance and the Wormhole
   receiver, Hermes' join of accumulator messages and VAAs, Fortuna's fee threads, Pulse.

Left out for good: user interfaces, generated bindings and IDLs, command line tools, the
contract manager and the SDKs that build one transaction per call (they keep no state over
time; most of the repository's TypeScript is of this kind), the pushers that keep nothing
between pushes (NEAR, Solana, TON, Fuel), the encoding of governance payloads, and the ports
of the receiver contract to other chains, which follow the EVM contract.
