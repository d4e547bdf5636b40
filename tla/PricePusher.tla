---------------------------- MODULE PricePusher ----------------------------
(***************************************************************************)
(* The price pusher (apps/price_pusher) with an EVM chain as its target.   *)
(* It keeps the prices of a Pyth contract within the thresholds of its     *)
(* configuration: the source listener follows Hermes, the target listener  *)
(* follows the contract, and the controller compares the two and calls     *)
(* updatePriceFeed of the chain's pusher.                                  *)
(*                                                                         *)
(* The controller does not await updatePriceFeed, so several pushes may be *)
(* in progress at once, each stopped at one of its RPC calls.  They share  *)
(* lastPushAttempt.  An error that updatePriceFeed throws is an unhandled  *)
(* rejection: it ends the process, which its supervisor restarts.          *)
(*                                                                         *)
(* A price is known by its publish time, 0 when there is no price; Quote   *)
(* gives the price and the confidence published at each time.              *)
(***************************************************************************)
EXTENDS Integers, FiniteSets

CONSTANTS
  Feed,          \* the price feeds of the configuration file
  ClosedFeed,    \* feeds whose last price, of time 1, is older than 60s
  Quote,         \* price and confidence of each feed at each time
  Config,        \* the thresholds of each feed; an optional one is a set
  MaxPush,       \* bound on the concurrent calls of updatePriceFeed
  GasPrice,      \* gas prices the network may ask
  overrideGasPriceMultiplier,
  overrideGasPriceMultiplierCap,
  MaxTime,       \* bound on the publish times
  MaxTx,         \* bound on the transactions executed
  MaxFault,      \* bound on the failures and changes of the gas price
  MaxLoad        \* bound on the pushes in progress plus the failures

Time == 0..MaxTime
Push == 1..MaxPush

ASSUME PusherAssumption ==
  /\ ClosedFeed \subseteq Feed
  /\ MaxTime \in Nat \ {0} /\ MaxTx \in Nat
  /\ MaxFault \in Nat /\ MaxPush \in Nat /\ MaxLoad \in Nat
  /\ GasPrice \subseteq Nat \ {0}
  /\ overrideGasPriceMultiplier \in Nat \ {0}
  /\ overrideGasPriceMultiplierCap \in Nat \ {0}
  /\ \A f \in Feed, t \in 1..MaxTime :
       Quote[f][t].price \in Nat \ {0} /\ Quote[f][t].conf \in Nat
  /\ \A f \in Feed :
       /\ {Config[f].timeDifference, Config[f].priceDeviation,
           Config[f].confidenceRatio} \subseteq Nat
       /\ Config[f].customEarlyUpdate \in BOOLEAN
       /\ Config[f].earlyTime \cup Config[f].earlyPrice
            \cup Config[f].earlyConf \subseteq Nat

VARIABLES
  hermes,     \* publish time of the latest prices at Hermes
  price,      \* publish time stored for each feed by the Pyth contract
  txCount,    \* transactions of the pusher's account that were executed
  mempool,    \* transactions of the account that wait for a block
  netGas,     \* gas price the network asks
  faults,     \* failures and changes of the gas price so far
  up,         \* the process runs and the controller is in its loop
  streamOpen, \* the stream of the source listener
  source,     \* latestPriceInfo of PythPriceListener
  target,     \* latestPriceInfo of EvmPriceListener
  polled,     \* results of polls that have not been processed yet
  pushes,     \* calls of updatePriceFeed in progress
  lastPushAttempt

chainVars == <<price, txCount, mempool, netGas>>
processVars == <<up, streamOpen, source, target, polled, pushes,
                 lastPushAttempt>>
vars == <<hermes, chainVars, faults, processVars>>

NoAttempt == [nonce |-> -1, gasPrice |-> 0]
Idle == [pc |-> "idle", ids |-> {}, pubTimes |-> [f \in Feed |-> 0],
         data |-> 0, gasPrice |-> 0, nonce |-> 0]
busy == {p \in Push : pushes[p].pc # "idle"}
NoPrices == [f \in Feed |-> 0]

-----------------------------------------------------------------------------
(* price-config.ts *)

Abs(n) == IF n < 0 THEN -n ELSE n
Least(m, n) == IF m < n THEN m ELSE n

\* The thresholds are percentages.
deviates(f, s, t, pct) ==
  100 * Abs(Quote[f][s].price - Quote[f][t].price) >= pct * Quote[f][t].price
uncertain(f, s, pct) == 100 * Quote[f][s].conf >= pct * Quote[f][s].price

mustUpdate(f, s, t) ==
  \/ s - t >= Config[f].timeDifference
  \/ deviates(f, s, t, Config[f].priceDeviation)
  \/ uncertain(f, s, Config[f].confidenceRatio)

mayUpdateEarly(f, s, t) ==
  \/ ~Config[f].customEarlyUpdate
  \/ \E d \in Config[f].earlyTime : s - t >= d
  \/ \E pct \in Config[f].earlyPrice : deviates(f, s, t, pct)
  \/ \E pct \in Config[f].earlyConf : uncertain(f, s, pct)

shouldUpdate(f, s, t) ==
  CASE s = 0 -> "YES"
    [] s # 0 /\ t = 0 -> "YES"
    [] s # 0 /\ t # 0 /\ s < t -> "NO"
    [] OTHER -> IF mustUpdate(f, s, t) THEN "YES"
                ELSE IF mayUpdateEarly(f, s, t) THEN "EARLY" ELSE "NO"

-----------------------------------------------------------------------------
(* The Pyth contract: updatePriceFeedsIfNecessary applied to a transaction *)

latestAt(f, t) == IF f \in ClosedFeed THEN 1 ELSE t

isFresh(tx) == \E f \in tx.ids : price[f] < tx.pubTimes[f]

updatePriceFeeds(tx) ==
  [f \in Feed |-> IF f \in tx.ids /\ price[f] < latestAt(f, tx.data)
                  THEN latestAt(f, tx.data) ELSE price[f]]

-----------------------------------------------------------------------------
Init ==
  /\ hermes = 1
  /\ price = [f \in Feed |-> IF f \in ClosedFeed THEN 1 ELSE 0]
  /\ txCount = 0 /\ mempool = {} /\ faults = 0
  /\ netGas \in GasPrice
  /\ up = FALSE /\ streamOpen = FALSE
  /\ source = NoPrices /\ target = NoPrices /\ polled = NoPrices
  /\ pushes = [p \in Push |-> Idle]
  /\ lastPushAttempt = NoAttempt

\* The process, the account and the contract hold values of their types: a
\* nonce never passes the number of transactions the account can execute.
TypeOK ==
  /\ hermes \in Time /\ price \in [Feed -> Time]
  /\ txCount \in 0..MaxTx /\ netGas \in GasPrice
  /\ \A tx \in mempool : tx.nonce \in 0..MaxTx /\ tx.ids \subseteq Feed
  /\ faults \in 0..MaxFault
  /\ up \in BOOLEAN /\ streamOpen \in BOOLEAN
  /\ source \in [Feed -> Time] /\ target \in [Feed -> Time]
  /\ polled \in [Feed -> Time]
  /\ pushes \in
       [Push -> [pc : {"idle", "count", "send", "sent"},
                 ids : SUBSET Feed, pubTimes : [Feed -> 0..MaxTime + 1],
                 data : Time, gasPrice : Nat, nonce : 0..MaxTx]]
  /\ lastPushAttempt \in [nonce : -1..MaxTx, gasPrice : Nat]

-----------------------------------------------------------------------------
(* The process *)

\* The listeners start, the target listener polls every feed once, and the
\* controller sleeps.  A poll that fails leaves the feed without a price.
start ==
  /\ ~up
  /\ up' = TRUE /\ streamOpen' = TRUE
  /\ \E failed \in SUBSET Feed :
       target' = [f \in Feed |-> IF f \in failed THEN 0 ELSE price[f]]
  /\ UNCHANGED <<hermes, chainVars, faults, source, polled, pushes,
                 lastPushAttempt>>

\* A failure that leaves the pushes remaining in progress.
fail(remaining) ==
  /\ faults < MaxFault /\ faults' = faults + 1
  /\ faults' + Cardinality(remaining) <= MaxLoad

exit ==
  /\ up' = FALSE /\ streamOpen' = FALSE
  /\ source' = NoPrices /\ target' = NoPrices /\ polled' = NoPrices
  /\ pushes' = [p \in Push |-> Idle]
  /\ lastPushAttempt' = NoAttempt

\* One message of the stream carries every feed that is not too old.
onmessage ==
  /\ up /\ streamOpen
  /\ source' = [f \in Feed |-> IF f \in ClosedFeed THEN source[f] ELSE hermes]
  /\ UNCHANGED <<hermes, chainVars, faults, up, streamOpen, target, polled,
                 pushes, lastPushAttempt>>

onerror ==
  /\ up /\ streamOpen /\ fail(busy)
  /\ streamOpen' = FALSE
  /\ UNCHANGED <<hermes, chainVars, up, source, target, polled, pushes,
                 lastPushAttempt>>

\* The health check throws once the stream has been silent for 30s.
healthCheck ==
  /\ up /\ ~streamOpen
  /\ exit
  /\ UNCHANGED <<hermes, chainVars, faults>>

\* Mutant: the answer of a late poll overwrites a newer price.
overwritesPriceInfo(f, observed) == target' = [target EXCEPT ![f] = observed]

updateLatestPriceInfo(f, observed) ==
  target' = [target EXCEPT ![f] = IF @ > observed THEN @ ELSE observed]

\* pollPrices reads a price and processes the answer later.
getOnChainPriceInfo(f) ==
  /\ up /\ polled[f] = 0 /\ price[f] # 0
  /\ polled' = [polled EXCEPT ![f] = price[f]]
  /\ UNCHANGED <<hermes, chainVars, faults, up, streamOpen, source, target,
                 pushes, lastPushAttempt>>

pollPrices(f) ==
  /\ up /\ polled[f] # 0
  /\ updateLatestPriceInfo(f, polled[f])
  /\ polled' = [polled EXCEPT ![f] = 0]
  /\ UNCHANGED <<hermes, chainVars, faults, up, streamOpen, source, pushes,
                 lastPushAttempt>>

onPriceFeedUpdate(f) ==
  /\ up /\ price[f] # 0
  /\ updateLatestPriceInfo(f, price[f])
  /\ UNCHANGED <<hermes, chainVars, faults, up, streamOpen, source, polled,
                 pushes, lastPushAttempt>>

-----------------------------------------------------------------------------
(* The controller *)

condition(f) == shouldUpdate(f, source[f], target[f])

\* Mutant: the publish time the contract has, which is never fresh.
pubTimesUnchanged == [f \in Feed |-> IF condition(f) = "NO" THEN 0 ELSE target[f]]

\* Mutant: the publish time of the new price.
pubTimesOfSource == [f \in Feed |-> IF condition(f) = "NO" THEN 0 ELSE source[f]]

pubTimesToPush ==
  [f \in Feed |-> IF condition(f) = "NO" THEN 0 ELSE target[f] + 1]

\* One turn of the loop that meets the threshold.  The health check has
\* ended the process by now if no message has arrived.  updatePriceFeed is
\* called and not awaited; its first calls, for the update data, the update
\* fee and the gas price, only read and belong to this step.
checkPrices(p) ==
  /\ up /\ \E f \in Feed : source[f] # 0
  /\ \E f \in Feed : condition(f) = "YES"
  /\ p \notin busy /\ \A q \in Push : q < p => q \in busy
  /\ faults + Cardinality(busy) < MaxLoad
  /\ pushes' = [pushes EXCEPT ![p] =
       [Idle EXCEPT !.pc = "count", !.pubTimes = pubTimesToPush,
                    !.ids = {f \in Feed : condition(f) # "NO"},
                    !.data = hermes, !.gasPrice = netGas]]
  /\ UNCHANGED <<hermes, chainVars, faults, up, streamOpen, source, target,
                 polled, lastPushAttempt>>

-----------------------------------------------------------------------------
(* EvmPricePusher.updatePriceFeed, cut at its RPC calls *)

step(p, from, to) ==
  /\ pushes[p].pc = from
  /\ pushes' = [pushes EXCEPT ![p] = to]
  /\ UNCHANGED <<hermes, up, streamOpen, source, target, polled>>

\* The previous attempt, unless its nonce has been executed.
pendingAttempt ==
  IF lastPushAttempt.nonce <= txCount - 1 THEN NoAttempt ELSE lastPushAttempt

overrideGasPrice(gasPrice) ==
  LET override == pendingAttempt.gasPrice * overrideGasPriceMultiplier
  IN  IF override > gasPrice
      THEN Least(override, gasPrice * overrideGasPriceMultiplierCap)
      ELSE gasPrice

\* Mutant: the nonce follows the last attempt, not the transaction count.
countsLocally(p) ==
  /\ step(p, "count",
          [pushes[p] EXCEPT !.pc = "send",
                            !.nonce = IF pendingAttempt = NoAttempt THEN txCount
                                      ELSE lastPushAttempt.nonce + 1,
                            !.gasPrice = overrideGasPrice(@)])
  /\ lastPushAttempt' = pendingAttempt
  /\ UNCHANGED <<chainVars, faults>>

getTransactionCount(p) ==
  /\ step(p, "count",
          [pushes[p] EXCEPT !.pc = "send", !.nonce = txCount,
                            !.gasPrice = overrideGasPrice(@)])
  /\ lastPushAttempt' = pendingAttempt
  /\ UNCHANGED <<chainVars, faults>>

\* The simulation fails when no update is fresh, and when the network asks
\* a higher gas price by now.
simulates(tx) == isFresh(tx) /\ tx.gasPrice >= netGas

transaction(p) ==
  [nonce |-> pushes[p].nonce, gasPrice |-> pushes[p].gasPrice,
   ids |-> pushes[p].ids, pubTimes |-> pushes[p].pubTimes,
   data |-> pushes[p].data]

\* A node refuses a nonce that is too low and a replacement that does not
\* raise the gas price by a tenth.
accepted(tx) ==
  /\ tx.nonce >= txCount
  /\ \A other \in mempool : other.nonce = tx.nonce =>
                              11 * other.gasPrice <= 10 * tx.gasPrice

enterMempool(tx) ==
  /\ mempool' = {other \in mempool : other.nonce # tx.nonce} \cup {tx}
  /\ UNCHANGED <<price, txCount, netGas>>

\* Simulation and submission.  An error here skips the push.
writeContract(p) ==
  /\ \/ /\ simulates(transaction(p)) /\ accepted(transaction(p))
        /\ step(p, "send", [pushes[p] EXCEPT !.pc = "sent"])
        /\ enterMempool(transaction(p))
     \/ /\ ~(simulates(transaction(p)) /\ accepted(transaction(p)))
        /\ step(p, "send", Idle)
        /\ UNCHANGED chainVars
  /\ UNCHANGED <<faults, lastPushAttempt>>

\* The node takes the transaction and its answer is lost: the error is a
\* TransactionExecutionError, which skips the push.
writeContractAnswerLost(p) ==
  /\ fail(busy \ {p})
  /\ simulates(transaction(p)) /\ accepted(transaction(p))
  /\ step(p, "send", Idle)
  /\ enterMempool(transaction(p))
  /\ UNCHANGED lastPushAttempt

storePushAttempt(p) ==
  /\ step(p, "sent", Idle)
  /\ lastPushAttempt' = [nonce |-> pushes[p].nonce,
                         gasPrice |-> pushes[p].gasPrice]
  /\ UNCHANGED <<chainVars, faults>>

\* An error that is thrown: Hermes or the RPC fails, the wallet has too
\* little balance, or the error is unknown.
throwError(p) ==
  /\ pushes[p].pc \in {"count", "send"}
  /\ fail({}) /\ exit
  /\ UNCHANGED <<hermes, chainVars>>

-----------------------------------------------------------------------------
(* Hermes, the network and the other pushers of the same contract *)

publish ==
  /\ hermes < MaxTime /\ hermes' = hermes + 1
  /\ UNCHANGED <<chainVars, faults, processVars>>

executable(tx) == tx.nonce = txCount /\ tx.gasPrice >= netGas

execute ==
  /\ txCount < MaxTx
  /\ \E tx \in mempool :
       /\ executable(tx)
       /\ txCount' = txCount + 1
       /\ mempool' = mempool \ {tx}
       /\ price' = IF isFresh(tx) THEN updatePriceFeeds(tx) ELSE price
  /\ UNCHANGED <<hermes, netGas, faults, processVars>>

evict ==
  /\ fail(busy)
  /\ \E tx \in mempool : mempool' = mempool \ {tx}
  /\ UNCHANGED <<hermes, price, txCount, netGas, processVars>>

changeGasPrice ==
  /\ fail(busy)
  /\ netGas' \in GasPrice \ {netGas}
  /\ UNCHANGED <<hermes, price, txCount, mempool, processVars>>

otherPusher(f) ==
  /\ price[f] < latestAt(f, hermes)
  /\ price' = [price EXCEPT ![f] = latestAt(f, hermes)]
  /\ UNCHANGED <<hermes, txCount, mempool, netGas, faults,
                 processVars>>

-----------------------------------------------------------------------------
ListenerNext ==
  \/ start \/ onmessage \/ onerror \/ healthCheck
  \/ \E f \in Feed :
       getOnChainPriceInfo(f) \/ pollPrices(f) \/ onPriceFeedUpdate(f)

PushStep(p) ==
  getTransactionCount(p) \/ writeContract(p) \/ storePushAttempt(p)

PushNext ==
  \E p \in Push : checkPrices(p) \/ PushStep(p)
                    \/ writeContractAnswerLost(p) \/ throwError(p)

ChainNext ==
  \/ publish \/ execute \/ evict \/ changeGasPrice
  \/ \E f \in Feed : otherPusher(f)

Next == ListenerNext \/ PushNext \/ ChainNext

\* The process is restarted by its supervisor, timers fire, RPC calls are
\* answered, and the network executes a transaction that pays enough.
Fairness ==
  /\ WF_vars(start \/ onmessage \/ healthCheck)
  /\ \A f \in Feed : WF_vars(getOnChainPriceInfo(f) \/ pollPrices(f))
  /\ WF_vars(\E p \in Push : checkPrices(p))
  /\ \A p \in Push : WF_vars(PushStep(p))
  /\ WF_vars(execute)

Spec == Init /\ [][Next]_vars

FairSpec == Spec /\ Fairness

-----------------------------------------------------------------------------
(* Properties *)

\* The nonce of a push is the account's transaction count and a later push
\* re-uses it: at any moment at most one transaction waits, and it is the
\* next one, however many pushes are in progress and whatever was lost.
OneTransactionPending ==
  \A tx \in mempool : tx.nonce = txCount /\ mempool = {tx}

\* The cache of the target listener never runs ahead of the contract, and
\* while the process runs a late poll never takes it back.
TargetCacheAdvances ==
  [][ /\ \A f \in Feed : target'[f] <= price'[f]
      /\ up /\ up' => \A f \in Feed : target[f] <= target'[f] ]_vars

\* The publish time passed with a push makes the contract refuse it unless
\* some feed still has the price on which the push was decided: two pushers,
\* or two pushes of one, never store a price twice for one deviation.
PushDecidedOnCurrentPrice ==
  [][ \A tx \in mempool :
        (execute /\ tx \notin mempool' /\ price' # price) =>
          \E f \in tx.ids : price[f] = tx.pubTimes[f] - 1 ]_vars

\* Once Hermes has its last prices the contract gets within the thresholds
\* of each, through restarts, lost answers and gas prices that move.
TargetFollowsSource ==
  \A f \in Feed \ ClosedFeed :
    hermes = MaxTime ~> (price[f] # 0 /\ shouldUpdate(f, MaxTime, price[f]) # "YES")
=============================================================================
