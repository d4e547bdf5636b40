------------------------- MODULE PricePusherProofs -------------------------
(***************************************************************************)
(* Proofs about the price pusher: for any number of feeds, of concurrent   *)
(* pushes, of failures and for any gas prices, at most one transaction of  *)
(* the account waits, the cache of target prices only advances, and a push *)
(* is executed only on a price on which it was decided.                    *)
(***************************************************************************)
EXTENDS PricePusher, TLAPS

Tx == [nonce : 0..MaxTx, gasPrice : Nat, ids : SUBSET Feed,
       pubTimes : [Feed -> 0..MaxTime + 1], data : Time]

\* Transactions in the mempool are the ones pushes made.
TxTyped == mempool \subseteq Tx

\* A push that is about to send took its nonce from the transaction count,
\* which has not gone down since.
NoncesTaken == \A p \in Push : pushes[p].pc = "send" => pushes[p].nonce <= txCount

\* What the target listener knows or has asked for is no newer than the
\* contract.
CachesBehind == \A f \in Feed : target[f] <= price[f] /\ polled[f] <= price[f]

\* So the publish time passed with a push, one above the cached one, is at
\* most one above the time of the contract.
decidedBehind(x, times) == \A f \in x.ids : x.pubTimes[f] <= times[f] + 1

DecidedBehind ==
  /\ \A p \in Push : decidedBehind(pushes[p], price)
  /\ \A tx \in mempool : decidedBehind(tx, price)

Typed == TypeOK /\ TxTyped

IInv ==
  Typed /\ NoncesTaken /\ OneTransactionPending /\ CachesBehind /\ DecidedBehind

-----------------------------------------------------------------------------
(* Types *)

PushState == [pc : {"idle", "count", "send", "sent"},
              ids : SUBSET Feed, pubTimes : [Feed -> 0..MaxTime + 1],
              data : Time, gasPrice : Nat, nonce : 0..MaxTx]

\* The values with which the process starts have their types.
LEMMA InitialValues ==
  /\ 0 \in Time /\ 1 \in Time
  /\ NoPrices \in [Feed -> Time] /\ Idle \in PushState
  /\ NoAttempt \in [nonce : -1..MaxTx, gasPrice : Nat]
<1>1. 0 \in Time /\ 1 \in Time /\ 0 \in 0..MaxTime + 1 /\ 0 \in 0..MaxTx /\ -1 \in -1..MaxTx
  BY PusherAssumption DEF Time
<1>2. NoPrices \in [Feed -> Time]
  BY <1>1 DEF NoPrices
<1>3. Idle \in PushState
  BY <1>1 DEF Idle, PushState
<1>4. NoAttempt \in [nonce : -1..MaxTx, gasPrice : Nat]
  BY <1>1 DEF NoAttempt
<1> QED BY <1>1, <1>2, <1>3, <1>4

\* A feed's latest price at Hermes has a publish time.
LEMMA LatestTyped == \A f \in Feed, t \in Time : latestAt(f, t) \in Time
  BY InitialValues DEF latestAt

\* The initial state has its types.
LEMMA InitTyped == Init => Typed
<1> SUFFICES ASSUME Init PROVE Typed
  OBVIOUS
<1>1. 0 \in 0..MaxFault /\ 0 \in 0..MaxTx
  BY PusherAssumption
<1>2. price \in [Feed -> Time]
  BY InitialValues DEF Init
<1> QED BY <1>1, <1>2, InitialValues DEF Init, Typed, TypeOK, TxTyped, PushState

\* A failure stays within its bound.
LEMMA FailTyped ==
  ASSUME Typed, NEW S, fail(S)
  PROVE  faults' \in 0..MaxFault
  BY PusherAssumption DEF Typed, TypeOK, fail

\* The end of the process resets its state to values of their types.
LEMMA ExitTyped ==
  ASSUME exit
  PROVE  /\ up' \in BOOLEAN /\ streamOpen' \in BOOLEAN
         /\ source' \in [Feed -> Time] /\ target' \in [Feed -> Time]
         /\ polled' \in [Feed -> Time] /\ pushes' \in [Push -> PushState]
         /\ lastPushAttempt' \in [nonce : -1..MaxTx, gasPrice : Nat]
  BY InitialValues DEF exit

\* Every step of the listeners keeps the types.
LEMMA ListenerTyped == Typed /\ ListenerNext => Typed'
<1> SUFFICES ASSUME Typed, ListenerNext PROVE Typed'
  OBVIOUS
<1> USE DEF Typed, TypeOK, TxTyped, chainVars
<1>1. CASE start
  BY <1>1, InitialValues DEF start
<1>2. CASE onmessage
  BY <1>2 DEF onmessage
<1>3. CASE onerror
  BY <1>3, FailTyped DEF onerror
<1>4. CASE healthCheck
  BY <1>4, ExitTyped DEF healthCheck, PushState
<1>5. ASSUME NEW f \in Feed, getOnChainPriceInfo(f) PROVE Typed'
  BY <1>5 DEF getOnChainPriceInfo
<1>6. ASSUME NEW f \in Feed, pollPrices(f) PROVE Typed'
  BY <1>6, InitialValues DEF pollPrices, updateLatestPriceInfo
<1>7. ASSUME NEW f \in Feed, onPriceFeedUpdate(f) PROVE Typed'
  BY <1>7 DEF onPriceFeedUpdate, updateLatestPriceInfo
<1> QED BY <1>1, <1>2, <1>3, <1>4, <1>5, <1>6, <1>7 DEF ListenerNext

\* The gas price of a replacement is a natural number.
LEMMA OverrideTyped ==
  ASSUME Typed, NEW g \in Nat
  PROVE  /\ pendingAttempt \in [nonce : -1..MaxTx, gasPrice : Nat]
         /\ overrideGasPrice(g) \in Nat
<1>1. pendingAttempt \in [nonce : -1..MaxTx, gasPrice : Nat]
  BY InitialValues DEF Typed, TypeOK, pendingAttempt
<1>2. \A m, n \in Nat : m * n \in Nat
  OBVIOUS
<1>3. pendingAttempt.gasPrice * overrideGasPriceMultiplier \in Nat
  BY <1>1, <1>2, PusherAssumption
<1>4. g * overrideGasPriceMultiplierCap \in Nat
  BY <1>2, PusherAssumption
<1> QED BY <1>1, <1>3, <1>4 DEF overrideGasPrice, Least

\* A transaction made from a push has its type.
LEMMA TransactionTyped ==
  ASSUME Typed, NEW p \in Push
  PROVE  transaction(p) \in Tx
  BY DEF Typed, TypeOK, transaction, Tx

\* A push that moves on stays within the type of a push.
LEMMA StepTyped ==
  ASSUME Typed, NEW p \in Push, NEW from, NEW to \in PushState,
         step(p, from, to)
  PROVE  /\ pushes' \in [Push -> PushState]
         /\ UNCHANGED <<hermes, up, streamOpen, source, target, polled>>
  BY DEF Typed, TypeOK, step, PushState

\* The mempool takes a transaction of its type.
LEMMA MempoolTyped ==
  ASSUME Typed, NEW tx \in Tx, enterMempool(tx)
  PROVE  /\ mempool' \subseteq Tx
         /\ \A x \in mempool' : x.nonce \in 0..MaxTx /\ x.ids \subseteq Feed
         /\ UNCHANGED <<price, txCount, netGas>>
<1>1. mempool' \subseteq Tx
  BY DEF Typed, TxTyped, enterMempool
<1> QED BY <1>1 DEF enterMempool, Tx

\* Every step of a push keeps the types.
LEMMA PushTyped == Typed /\ PushNext => Typed'
<1> SUFFICES ASSUME Typed, NEW p \in Push,
                    checkPrices(p) \/ PushStep(p)
                      \/ writeContractAnswerLost(p) \/ throwError(p)
             PROVE  Typed'
  BY DEF PushNext
<1>p. pushes \in [Push -> PushState] /\ pushes[p] \in PushState
  BY DEF Typed, TypeOK, PushState
<1>1. CASE checkPrices(p)
  <2>1. pubTimesToPush \in [Feed -> 0..MaxTime + 1]
    BY PusherAssumption DEF Typed, TypeOK, pubTimesToPush, Time
  <2>2. netGas \in Nat /\ hermes \in Time
    BY PusherAssumption DEF Typed, TypeOK
  <2>3. {f \in Feed : condition(f) # "NO"} \in SUBSET Feed
    OBVIOUS
  <2> DEFINE new == [Idle EXCEPT !.pc = "count", !.pubTimes = pubTimesToPush,
                       !.ids = {f \in Feed : condition(f) # "NO"},
                       !.data = hermes, !.gasPrice = netGas]
  <2>4. new \in PushState
    BY <2>1, <2>2, <2>3, InitialValues DEF PushState
  <2>5. pushes' = [pushes EXCEPT ![p] = new]
    BY <1>1 DEF checkPrices
  <2> HIDE DEF new
  <2>6. pushes' \in [Push -> PushState]
    BY <1>p, <2>4, <2>5
  <2> QED BY <1>1, <2>6 DEF checkPrices, Typed, TypeOK, TxTyped, chainVars, PushState
<1>2. CASE getTransactionCount(p)
  <2>1. overrideGasPrice(pushes[p].gasPrice) \in Nat
    BY <1>p, OverrideTyped DEF PushState
  <2> DEFINE to == [pushes[p] EXCEPT !.pc = "send", !.nonce = txCount,
                      !.gasPrice = overrideGasPrice(@)]
  <2>2. to \in PushState
    BY <1>p, <2>1 DEF PushState, Typed, TypeOK
  <2>3. step(p, "count", to)
    BY <1>2 DEF getTransactionCount
  <2> HIDE DEF to
  <2>4. pushes' \in [Push -> PushState]
        /\ UNCHANGED <<hermes, up, streamOpen, source, target, polled>>
    BY <2>2, <2>3, StepTyped
  <2>5. lastPushAttempt' \in [nonce : -1..MaxTx, gasPrice : Nat]
    BY <1>2, OverrideTyped DEF getTransactionCount
  <2> QED BY <1>2, <2>4, <2>5
          DEF getTransactionCount, Typed, TypeOK, TxTyped, chainVars, PushState
<1>3. CASE writeContract(p)
  <2>1. CASE /\ step(p, "send", [pushes[p] EXCEPT !.pc = "sent"])
             /\ enterMempool(transaction(p))
    <3>1. [pushes[p] EXCEPT !.pc = "sent"] \in PushState
      BY <1>p DEF PushState
    <3>2. pushes' \in [Push -> PushState]
          /\ UNCHANGED <<hermes, up, streamOpen, source, target, polled>>
      BY <2>1, <3>1, StepTyped
    <3> QED BY <1>3, <2>1, <3>2, TransactionTyped, MempoolTyped
            DEF writeContract, Typed, TypeOK, TxTyped, PushState
  <2>2. CASE step(p, "send", Idle) /\ UNCHANGED chainVars
    BY <1>3, <2>2, StepTyped, InitialValues
       DEF writeContract, Typed, TypeOK, TxTyped, chainVars, PushState
  <2> QED BY <1>3, <2>1, <2>2 DEF writeContract
<1>4. CASE storePushAttempt(p)
  <2>1. lastPushAttempt' \in [nonce : -1..MaxTx, gasPrice : Nat]
    BY <1>4, <1>p DEF storePushAttempt, PushState
  <2>2. pushes' \in [Push -> PushState]
        /\ UNCHANGED <<hermes, up, streamOpen, source, target, polled>>
    BY <1>4, StepTyped, InitialValues DEF storePushAttempt
  <2> QED BY <1>4, <2>1, <2>2
          DEF storePushAttempt, Typed, TypeOK, TxTyped, chainVars, PushState
<1>5. CASE writeContractAnswerLost(p)
  <2>1. pushes' \in [Push -> PushState]
        /\ UNCHANGED <<hermes, up, streamOpen, source, target, polled>>
    BY <1>5, StepTyped, InitialValues DEF writeContractAnswerLost
  <2>2. faults' \in 0..MaxFault
    BY <1>5, FailTyped DEF writeContractAnswerLost
  <2> QED BY <1>5, <2>1, <2>2, TransactionTyped, MempoolTyped
          DEF writeContractAnswerLost, Typed, TypeOK, TxTyped, PushState
<1>6. CASE throwError(p)
  <2>1. faults' \in 0..MaxFault /\ UNCHANGED <<hermes, chainVars>> /\ exit
    BY <1>6, FailTyped DEF throwError
  <2> QED BY <2>1, ExitTyped DEF Typed, TypeOK, TxTyped, chainVars, PushState
<1> QED BY <1>1, <1>2, <1>3, <1>4, <1>5, <1>6 DEF PushStep

\* Every step of Hermes, of the chain and of other pushers keeps the types.
LEMMA ChainTyped == Typed /\ ChainNext => Typed'
<1> SUFFICES ASSUME Typed, ChainNext PROVE Typed'
  OBVIOUS
<1>1. CASE publish
  BY <1>1, PusherAssumption
     DEF publish, Typed, TypeOK, TxTyped, chainVars, processVars, Time
<1>2. CASE execute
  <2>1. PICK tx \in mempool :
          /\ executable(tx) /\ txCount' = txCount + 1
          /\ mempool' = mempool \ {tx}
          /\ price' = IF isFresh(tx) THEN updatePriceFeeds(tx) ELSE price
    BY <1>2 DEF execute
  <2>2. tx.data \in Time
    BY DEF Typed, TxTyped, Tx
  <2>3. price' \in [Feed -> Time]
    BY <2>1, <2>2, LatestTyped DEF updatePriceFeeds, Typed, TypeOK
  <2>4. txCount' \in 0..MaxTx
    BY <1>2, <2>1, PusherAssumption DEF execute, Typed, TypeOK
  <2> QED BY <1>2, <2>1, <2>3, <2>4
          DEF execute, Typed, TypeOK, TxTyped, processVars
<1>3. CASE evict
  BY <1>3, FailTyped DEF evict, Typed, TypeOK, TxTyped, processVars
<1>4. CASE changeGasPrice
  BY <1>4, FailTyped DEF changeGasPrice, Typed, TypeOK, TxTyped, processVars
<1>5. ASSUME NEW f \in Feed, otherPusher(f) PROVE Typed'
  BY <1>5, LatestTyped DEF otherPusher, Typed, TypeOK, TxTyped, processVars
<1> QED BY <1>1, <1>2, <1>3, <1>4, <1>5 DEF ChainNext

\* The type invariant is inductive.
LEMMA NextTyped == Typed /\ [Next]_vars => Typed'
<1>1. CASE UNCHANGED vars
  BY <1>1 DEF vars, chainVars, processVars, Typed, TypeOK, TxTyped
<1> QED BY <1>1, ListenerTyped, PushTyped, ChainTyped DEF Next

\* Every variable holds a value of its type in every reachable state,
\* whatever the bounds: no nonce passes the number of transactions.
THEOREM TypeCorrect == Spec => []TypeOK
<1>1. Typed => TypeOK
  BY DEF Typed
<1> QED BY <1>1, InitTyped, NextTyped, PTL DEF Spec

-----------------------------------------------------------------------------
(* One transaction waits *)

\* The chain's transaction count never goes down, and only a push that asks
\* for it gets a nonce: so the nonce of a push that is about to send is at
\* most the count.
LEMMA NoncesTakenKept ==
  ASSUME Typed, NoncesTaken, [Next]_vars
  PROVE  NoncesTaken'
<1>p. pushes \in [Push -> PushState] /\ txCount \in Nat
  BY DEF Typed, TypeOK, PushState
<1>i. Idle.pc = "idle"
  BY DEF Idle
<1>1. CASE pushes' = pushes /\ txCount' = txCount
  BY <1>1 DEF NoncesTaken
<1>2. CASE exit
  BY <1>2, <1>i DEF exit, NoncesTaken
<1>3. ASSUME NEW p \in Push, checkPrices(p) PROVE NoncesTaken'
  <2> DEFINE new == [Idle EXCEPT !.pc = "count", !.pubTimes = pubTimesToPush,
                       !.ids = {f \in Feed : condition(f) # "NO"},
                       !.data = hermes, !.gasPrice = netGas]
  <2>1. new.pc = "count"
    BY DEF Idle
  <2>2. pushes' = [pushes EXCEPT ![p] = new] /\ txCount' = txCount
    BY <1>3 DEF checkPrices, chainVars
  <2> HIDE DEF new
  <2> QED BY <1>p, <2>1, <2>2 DEF NoncesTaken
<1>4. ASSUME NEW p \in Push, getTransactionCount(p) PROVE NoncesTaken'
  <2> DEFINE new == [pushes[p] EXCEPT !.pc = "send", !.nonce = txCount,
                      !.gasPrice = overrideGasPrice(@)]
  <2>1. new.nonce = txCount
    BY <1>p DEF PushState
  <2>2. pushes' = [pushes EXCEPT ![p] = new] /\ txCount' = txCount
    BY <1>4 DEF getTransactionCount, step, chainVars
  <2> HIDE DEF new
  <2> QED BY <1>p, <2>1, <2>2 DEF NoncesTaken
<1>5. ASSUME NEW p \in Push, NEW to, to.pc # "send", txCount' = txCount,
             pushes' = [pushes EXCEPT ![p] = to]
      PROVE  NoncesTaken'
  BY <1>p, <1>5 DEF NoncesTaken
<1>6. ASSUME NEW p \in Push, writeContract(p) PROVE NoncesTaken'
  <2>1. [pushes[p] EXCEPT !.pc = "sent"].pc = "sent"
    BY <1>p DEF PushState
  <2> QED BY <1>5, <1>6, <1>i, <2>1 DEF writeContract, step, enterMempool, chainVars
<1>7. ASSUME NEW p \in Push, writeContractAnswerLost(p) PROVE NoncesTaken'
  BY <1>5, <1>7, <1>i DEF writeContractAnswerLost, step, enterMempool
<1>8. ASSUME NEW p \in Push, storePushAttempt(p) PROVE NoncesTaken'
  BY <1>5, <1>8, <1>i DEF storePushAttempt, step, chainVars
<1>9. CASE execute
  <2>1. pushes' = pushes /\ txCount' = txCount + 1
    BY <1>9 DEF execute, processVars
  <2> QED BY <1>p, <2>1 DEF NoncesTaken, PushState
<1>10. CASE ListenerNext
  BY <1>1, <1>2, <1>10
     DEF ListenerNext, start, onmessage, onerror, healthCheck,
         getOnChainPriceInfo, pollPrices, onPriceFeedUpdate, chainVars
<1>11. CASE PushNext
  BY <1>2, <1>3, <1>4, <1>6, <1>7, <1>8, <1>11 DEF PushNext, PushStep, throwError
<1>12. CASE ChainNext
  BY <1>1, <1>9, <1>12
     DEF ChainNext, publish, evict, changeGasPrice, otherPusher, chainVars,
         processVars
<1>13. CASE UNCHANGED vars
  BY <1>1, <1>13 DEF vars, chainVars, processVars
<1> QED BY <1>10, <1>11, <1>12, <1>13 DEF Next

\* A transaction that the node accepts from a push has the next nonce, so
\* it replaces the one that waits.
LEMMA EnterOnePending ==
  ASSUME Typed, NoncesTaken, OneTransactionPending, NEW p \in Push,
         pushes[p].pc = "send", accepted(transaction(p)),
         enterMempool(transaction(p))
  PROVE  OneTransactionPending'
<1> DEFINE tx == transaction(p)
<1>1. tx.nonce = pushes[p].nonce
  BY DEF transaction
<1>2. txCount \in Nat /\ pushes[p].nonce \in Nat
  BY DEF Typed, TypeOK
<1>3. tx.nonce = txCount
  BY <1>1, <1>2 DEF accepted, NoncesTaken
<1>4. mempool' = {tx} /\ txCount' = txCount
  BY <1>3 DEF enterMempool, OneTransactionPending
<1> HIDE DEF tx
<1> QED BY <1>3, <1>4 DEF OneTransactionPending

\* At most one transaction waits after every step.
LEMMA OnePendingKept ==
  ASSUME Typed, NoncesTaken, OneTransactionPending, [Next]_vars
  PROVE  OneTransactionPending'
<1>1. CASE mempool' = mempool /\ txCount' = txCount
  BY <1>1 DEF OneTransactionPending
<1>2. CASE ListenerNext
  BY <1>1, <1>2
     DEF ListenerNext, start, onmessage, onerror, healthCheck,
         getOnChainPriceInfo, pollPrices, onPriceFeedUpdate, chainVars
<1>3. ASSUME NEW p \in Push, writeContract(p) PROVE OneTransactionPending'
  BY <1>1, <1>3, EnterOnePending DEF writeContract, step, chainVars
<1>4. ASSUME NEW p \in Push, writeContractAnswerLost(p)
      PROVE  OneTransactionPending'
  BY <1>4, EnterOnePending DEF writeContractAnswerLost, step
<1>5. CASE PushNext
  BY <1>1, <1>3, <1>4, <1>5
     DEF PushNext, PushStep, checkPrices, getTransactionCount,
         storePushAttempt, throwError, chainVars
<1>6. CASE execute
  <2>1. mempool' = {}
    BY <1>6 DEF execute, OneTransactionPending
  <2> QED BY <2>1 DEF OneTransactionPending
<1>7. CASE evict
  <2>1. mempool' = {}
    BY <1>7 DEF evict, OneTransactionPending
  <2> QED BY <2>1 DEF OneTransactionPending
<1>8. CASE ChainNext
  BY <1>1, <1>6, <1>7, <1>8
     DEF ChainNext, publish, changeGasPrice, otherPusher, chainVars
<1>9. CASE UNCHANGED vars
  BY <1>1, <1>9 DEF vars, chainVars
<1> QED BY <1>2, <1>5, <1>8, <1>9 DEF Next

-----------------------------------------------------------------------------
(* The caches, the pushes and the contract *)

PricesAdvance == \A f \in Feed : price[f] <= price'[f]

\* The contract never replaces a price by an older one.
LEMMA PriceMonotone ==
  ASSUME Typed, [Next]_vars
  PROVE  PricesAdvance
<1>p. price \in [Feed -> Nat]
  BY PusherAssumption DEF Typed, TypeOK, Time
<1>1. CASE price' = price
  BY <1>1, <1>p DEF PricesAdvance
<1>2. CASE execute
  <2>1. PICK tx \in mempool :
          price' = IF isFresh(tx) THEN updatePriceFeeds(tx) ELSE price
    BY <1>2 DEF execute
  <2>2. tx.data \in Time
    BY DEF Typed, TxTyped, Tx
  <2>3. \A f \in Feed : latestAt(f, tx.data) \in Nat
    BY <2>2, LatestTyped, PusherAssumption DEF Time
  <2> QED BY <1>p, <2>1, <2>3, <1>1 DEF updatePriceFeeds, PricesAdvance
<1>3. ASSUME NEW f \in Feed, otherPusher(f) PROVE PricesAdvance
  <2>1. latestAt(f, hermes) \in Nat
    BY LatestTyped, PusherAssumption DEF Typed, TypeOK, Time
  <2> QED BY <1>3, <1>p, <2>1 DEF otherPusher, PricesAdvance
<1>4. CASE ListenerNext
  BY <1>1, <1>4
     DEF ListenerNext, start, onmessage, onerror, healthCheck,
         getOnChainPriceInfo, pollPrices, onPriceFeedUpdate, chainVars
<1>5. CASE PushNext
  BY <1>1, <1>5
     DEF PushNext, PushStep, checkPrices, getTransactionCount, writeContract,
         writeContractAnswerLost, enterMempool, storePushAttempt, throwError,
         chainVars
<1>6. CASE ChainNext
  BY <1>1, <1>2, <1>3, <1>6
     DEF ChainNext, publish, evict, changeGasPrice, chainVars
<1>7. CASE UNCHANGED vars
  BY <1>1, <1>7 DEF vars, chainVars
<1> QED BY <1>4, <1>5, <1>6, <1>7 DEF Next

\* While the process runs the cache of the target listener only advances.
CacheAdvances == up /\ up' => \A f \in Feed : target[f] <= target'[f]

\* A price enters the caches from the contract, directly or through a poll,
\* and replaces an older one.
LEMMA CachesBehindKept ==
  ASSUME Typed, CachesBehind, [Next]_vars
  PROVE  CachesBehind' /\ CacheAdvances
<1>p. /\ price \in [Feed -> Nat] /\ target \in [Feed -> Nat]
      /\ polled \in [Feed -> Nat] /\ price' \in [Feed -> Nat]
      /\ \A f \in Feed : price[f] <= price'[f]
  BY PusherAssumption, NextTyped, PriceMonotone
     DEF Typed, TypeOK, Time, PricesAdvance
<1>1. CASE target' = target /\ polled' = polled
  BY <1>1, <1>p DEF CachesBehind, CacheAdvances
<1>2. CASE exit
  BY <1>2, <1>p DEF exit, NoPrices, CachesBehind, CacheAdvances
<1>3. CASE start
  BY <1>3, <1>p DEF start, chainVars, CachesBehind, CacheAdvances
<1>4. ASSUME NEW f \in Feed, getOnChainPriceInfo(f)
      PROVE  CachesBehind' /\ CacheAdvances
  BY <1>4, <1>p DEF getOnChainPriceInfo, chainVars, CachesBehind, CacheAdvances
<1>5. ASSUME NEW f \in Feed, pollPrices(f)
      PROVE  CachesBehind' /\ CacheAdvances
  BY <1>5, <1>p DEF pollPrices, updateLatestPriceInfo, chainVars,
                    CachesBehind, CacheAdvances
<1>6. ASSUME NEW f \in Feed, onPriceFeedUpdate(f)
      PROVE  CachesBehind' /\ CacheAdvances
  BY <1>6, <1>p DEF onPriceFeedUpdate, updateLatestPriceInfo, chainVars,
                    CachesBehind, CacheAdvances
<1>7. CASE ListenerNext
  BY <1>1, <1>2, <1>3, <1>4, <1>5, <1>6, <1>7
     DEF ListenerNext, onmessage, onerror, healthCheck
<1>8. CASE PushNext
  BY <1>1, <1>2, <1>8
     DEF PushNext, PushStep, checkPrices, getTransactionCount, writeContract,
         writeContractAnswerLost, storePushAttempt, throwError, step
<1>9. CASE ChainNext
  BY <1>1, <1>9
     DEF ChainNext, publish, execute, evict, changeGasPrice, otherPusher,
         processVars
<1>10. CASE UNCHANGED vars
  BY <1>1, <1>10 DEF vars, processVars
<1> QED BY <1>7, <1>8, <1>9, <1>10 DEF Next

\* What was decided behind the contract stays behind it.
LEMMA DecidedBehindMonotone ==
  ASSUME Typed, Typed', PricesAdvance, NEW x,
         x.ids \subseteq Feed, x.pubTimes \in [Feed -> 0..MaxTime + 1],
         decidedBehind(x, price)
  PROVE  decidedBehind(x, price')
<1>1. price \in [Feed -> Nat] /\ price' \in [Feed -> Nat]
  BY PusherAssumption DEF Typed, TypeOK, Time
<1>2. \A f \in x.ids : x.pubTimes[f] \in Nat /\ price[f] <= price'[f]
  BY PusherAssumption DEF PricesAdvance
<1> QED BY <1>1, <1>2 DEF decidedBehind

\* A push is decided on the cached prices, which are behind the contract;
\* its transaction carries the publish times unchanged.
LEMMA DecidedBehindKept ==
  ASSUME Typed, CachesBehind, DecidedBehind, [Next]_vars
  PROVE  DecidedBehind'
<1>p. pushes \in [Push -> PushState] /\ mempool \subseteq Tx
  BY DEF Typed, TypeOK, TxTyped, PushState
<1>m. PricesAdvance /\ Typed'
  BY NextTyped, PriceMonotone
<1>q. \A q \in Push : decidedBehind(pushes[q], price')
  <2> TAKE q \in Push
  <2>1. /\ pushes[q].ids \subseteq Feed
        /\ pushes[q].pubTimes \in [Feed -> 0..MaxTime + 1]
    BY <1>p DEF PushState
  <2> QED BY <2>1, <1>m, DecidedBehindMonotone DEF DecidedBehind
<1>t. \A tx \in mempool : decidedBehind(tx, price')
  <2> TAKE tx \in mempool
  <2>1. tx.ids \subseteq Feed /\ tx.pubTimes \in [Feed -> 0..MaxTime + 1]
    BY <1>p DEF Tx
  <2> QED BY <2>1, <1>m, DecidedBehindMonotone DEF DecidedBehind
<1>i. decidedBehind(Idle, price')
  BY DEF decidedBehind, Idle
<1>1. CASE pushes' = pushes /\ mempool' \subseteq mempool
  BY <1>1, <1>q, <1>t DEF DecidedBehind
<1>2. CASE exit /\ mempool' = mempool
  BY <1>2, <1>i, <1>t DEF exit, DecidedBehind
<1>3. ASSUME NEW p \in Push, NEW to, decidedBehind(to, price'),
             pushes' = [pushes EXCEPT ![p] = to],
             mempool' \subseteq mempool \cup {transaction(p)}
      PROVE  DecidedBehind'
  <2>1. \A q \in Push : decidedBehind(pushes'[q], price')
    BY <1>3, <1>p, <1>q
  <2>2. decidedBehind(transaction(p), price')
    BY <1>q DEF decidedBehind, transaction
  <2> QED BY <1>3, <1>t, <2>1, <2>2 DEF DecidedBehind
<1>4. ASSUME NEW p \in Push, checkPrices(p) PROVE DecidedBehind'
  <2> DEFINE new == [Idle EXCEPT !.pc = "count", !.pubTimes = pubTimesToPush,
                       !.ids = {f \in Feed : condition(f) # "NO"},
                       !.data = hermes, !.gasPrice = netGas]
  <2>1. /\ new.ids = {f \in Feed : condition(f) # "NO"}
        /\ new.pubTimes = pubTimesToPush
    BY DEF Idle
  <2>2. pushes' = [pushes EXCEPT ![p] = new] /\ mempool' = mempool
    BY <1>4 DEF checkPrices, chainVars
  <2>3. price' = price /\ price \in [Feed -> Nat] /\ target \in [Feed -> Nat]
    BY <1>4, PusherAssumption DEF checkPrices, chainVars, Typed, TypeOK, Time
  <2> HIDE DEF new
  <2>4. decidedBehind(new, price')
    BY <2>1, <2>3 DEF decidedBehind, pubTimesToPush, CachesBehind
  <2> QED BY <1>3, <2>2, <2>4
<1>5. ASSUME NEW p \in Push, getTransactionCount(p) PROVE DecidedBehind'
  <2> DEFINE new == [pushes[p] EXCEPT !.pc = "send", !.nonce = txCount,
                      !.gasPrice = overrideGasPrice(@)]
  <2>1. new.ids = pushes[p].ids /\ new.pubTimes = pushes[p].pubTimes
    BY <1>p DEF PushState
  <2>2. pushes' = [pushes EXCEPT ![p] = new] /\ mempool' = mempool
    BY <1>5 DEF getTransactionCount, step, chainVars
  <2> HIDE DEF new
  <2>3. decidedBehind(new, price')
    BY <1>q, <2>1 DEF decidedBehind
  <2> QED BY <1>3, <2>2, <2>3
<1>6. ASSUME NEW p \in Push, writeContract(p) PROVE DecidedBehind'
  <2> DEFINE new == [pushes[p] EXCEPT !.pc = "sent"]
  <2>1. new.ids = pushes[p].ids /\ new.pubTimes = pushes[p].pubTimes
    BY <1>p DEF PushState
  <2>2. \/ pushes' = [pushes EXCEPT ![p] = new]
        \/ pushes' = [pushes EXCEPT ![p] = Idle]
    BY <1>6 DEF writeContract, step
  <2>3. mempool' \subseteq mempool \cup {transaction(p)}
    BY <1>6 DEF writeContract, enterMempool, chainVars
  <2> HIDE DEF new
  <2>4. decidedBehind(new, price')
    BY <1>q, <2>1 DEF decidedBehind
  <2> QED BY <1>3, <1>i, <2>2, <2>3, <2>4
<1>7. ASSUME NEW p \in Push, writeContractAnswerLost(p) PROVE DecidedBehind'
  <2>1. pushes' = [pushes EXCEPT ![p] = Idle]
    BY <1>7 DEF writeContractAnswerLost, step
  <2>2. mempool' \subseteq mempool \cup {transaction(p)}
    BY <1>7 DEF writeContractAnswerLost, enterMempool
  <2> QED BY <1>3, <1>i, <2>1, <2>2
<1>8. ASSUME NEW p \in Push, storePushAttempt(p) PROVE DecidedBehind'
  <2>1. pushes' = [pushes EXCEPT ![p] = Idle] /\ mempool' = mempool
    BY <1>8 DEF storePushAttempt, step, chainVars
  <2> QED BY <1>3, <1>i, <2>1
<1>9. CASE ListenerNext
  BY <1>1, <1>2, <1>9
     DEF ListenerNext, start, onmessage, onerror, healthCheck,
         getOnChainPriceInfo, pollPrices, onPriceFeedUpdate, chainVars
<1>10. CASE PushNext
  BY <1>2, <1>4, <1>5, <1>6, <1>7, <1>8, <1>10
     DEF PushNext, PushStep, throwError, chainVars
<1>11. CASE ChainNext
  BY <1>1, <1>11
     DEF ChainNext, publish, execute, evict, changeGasPrice, otherPusher,
         processVars, chainVars
<1>12. CASE UNCHANGED vars
  BY <1>1, <1>12 DEF vars, processVars, chainVars
<1> QED BY <1>9, <1>10, <1>11, <1>12 DEF Next

-----------------------------------------------------------------------------
(* Theorems *)

\* The inductive invariant holds at the start.
LEMMA InitIInv == Init => IInv
<1> SUFFICES ASSUME Init PROVE IInv
  OBVIOUS
<1>1. /\ mempool = {} /\ pushes = [p \in Push |-> Idle]
      /\ target = NoPrices /\ polled = NoPrices
  BY DEF Init
<1>2. Typed
  BY InitTyped
<1>3. NoncesTaken /\ DecidedBehind
  BY <1>1 DEF NoncesTaken, DecidedBehind, decidedBehind, Idle
<1>4. CachesBehind
  BY <1>1, <1>2, PusherAssumption DEF CachesBehind, NoPrices, Typed, TypeOK, Time
<1> QED BY <1>1, <1>2, <1>3, <1>4 DEF IInv, OneTransactionPending

\* Every step keeps the inductive invariant.
LEMMA NextIInv == IInv /\ [Next]_vars => IInv'
  BY NextTyped, NoncesTakenKept, OnePendingKept, CachesBehindKept,
     DecidedBehindKept DEF IInv

\* The inductive invariant holds in every reachable state.
LEMMA InvariantHolds == Spec => []IInv
  BY InitIInv, NextIInv, PTL DEF Spec

\* However many pushes run at once, whatever answers are lost and however
\* often the process restarts, the account has at most one transaction in
\* the mempool and it has the next nonce.
THEOREM OnePending == Spec => []OneTransactionPending
<1>1. IInv => OneTransactionPending
  BY DEF IInv
<1> QED BY <1>1, InvariantHolds, PTL

\* The listener's cache of the contract's prices is never ahead of the
\* contract, and no late poll takes it back while the process runs.
THEOREM CacheOnlyAdvances == Spec => TargetCacheAdvances
<1> DEFINE Advance ==
      /\ \A f \in Feed : target'[f] <= price'[f]
      /\ up /\ up' => \A f \in Feed : target[f] <= target'[f]
<1>1. IInv /\ [Next]_vars => Advance
  BY CachesBehindKept DEF IInv, CachesBehind, CacheAdvances
<1>2. IInv /\ [Next]_vars => [Advance]_vars
  BY <1>1
<1> HIDE DEF Advance
<1>3. Spec => [][Advance]_vars
  BY <1>2, InvariantHolds, PTL DEF Spec
<1> QED BY <1>3 DEF TargetCacheAdvances, Advance

\* The only transaction that waits is fresh for some feed exactly when the
\* contract still has that feed's price on which the push was decided.
LEMMA ExecutedOnDecidedPrice ==
  ASSUME IInv, NEW tx \in mempool, execute, price' # price
  PROVE  \E f \in tx.ids : price[f] = tx.pubTimes[f] - 1
<1>1. mempool = {tx}
  BY DEF IInv, OneTransactionPending
<1>2. isFresh(tx)
  BY <1>1 DEF execute
<1>3. PICK f \in tx.ids : price[f] < tx.pubTimes[f]
  BY <1>2 DEF isFresh
<1>4. tx.pubTimes[f] <= price[f] + 1
  BY <1>3 DEF IInv, DecidedBehind, decidedBehind
<1>5. price[f] \in Nat /\ tx.pubTimes[f] \in Nat
  BY <1>3, PusherAssumption DEF IInv, Typed, TypeOK, TxTyped, Tx, Time
<1> QED BY <1>3, <1>4, <1>5

\* No transaction stores prices unless some feed of it still has the price
\* on which the push was decided, for any number of pushers and pushes.
THEOREM PushOnCurrentPrice == Spec => PushDecidedOnCurrentPrice
<1> DEFINE Decided ==
      \A tx \in mempool :
        (execute /\ tx \notin mempool' /\ price' # price) =>
          \E f \in tx.ids : price[f] = tx.pubTimes[f] - 1
<1>1. IInv => Decided
  BY ExecutedOnDecidedPrice
<1>2. IInv /\ [Next]_vars => [Decided]_vars
  BY <1>1
<1> HIDE DEF Decided
<1>3. Spec => [][Decided]_vars
  BY <1>2, InvariantHolds, PTL DEF Spec
<1> QED BY <1>3 DEF PushDecidedOnCurrentPrice, Decided
=============================================================================
