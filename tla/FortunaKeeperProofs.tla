------------------------ MODULE FortunaKeeperProofs ------------------------
(***************************************************************************)
(* Proofs about the Fortuna keeper, for any number of blocks, requests,    *)
(* delays, batches, lags, reorgs and crashes.                              *)
(*                                                                         *)
(* One task per request: the set of taken numbers never forgets a number   *)
(* while the process lives.  Types.  The element that is disclosed is the  *)
(* one the contract expects.  If the delay covers the reorgs, a number is  *)
(* disclosed only for a request that stays in the chain.  If it covers the *)
(* lag of the RPC node too and the contract has one provider, no request   *)
(* is lost between the threads.                                            *)
(***************************************************************************)
EXTENDS FortunaKeeper, HashChainProofs

\* A request that has a task has its number in the cache: the strengthening
\* that makes OneTaskPerRequest inductive.
TakenIsCached ==
  /\ spawned \in [Event -> {0, 1}]
  /\ \A e \in Event : spawned[e] = 1 => e[2] \in fulfilled_requests_cache

\* The process starts with no task and an empty cache.
LEMMA InitTaken == Init => TakenIsCached
  BY DEF Init, TakenIsCached

\* A crash loses the cache together with the tasks.
LEMMA CrashTaken == TakenIsCached /\ Crash => TakenIsCached'
  BY DEF TakenIsCached, Crash

\* An event gets a task only when its number is newly inserted; then it had
\* none, because the number of every request with a task is in the cache.
LEMMA HandleEventTaken ==
  ASSUME TakenIsCached, NEW w \in Worker, handleEvent(w)
  PROVE  TakenIsCached'
<1> DEFINE event == Head(worker[w].events)
           n == event.sequence_number
           k == <<event.provider, n>>
<1>1. fulfilled_requests_cache' = fulfilled_requests_cache \cup {n}
  BY DEF handleEvent, insert
<1>2. CASE n \in fulfilled_requests_cache
  <2>1. spawned' = spawned
    BY <1>2 DEF handleEvent
  <2> QED BY <1>1, <2>1 DEF TakenIsCached
<1>3. CASE n \notin fulfilled_requests_cache
  <2>1. spawned' = [spawned EXCEPT ![k] = @ + 1]
    BY <1>3 DEF handleEvent
  <2>2. k[2] = n
    OBVIOUS
  <2> HIDE DEF k
  <2>3. k \in Event => spawned[k] = 0
    BY <1>3, <2>2 DEF TakenIsCached
  <2>4. spawned' \in [Event -> {0, 1}]
    <3>1. spawned \in [Event -> {0, 1}]
      BY DEF TakenIsCached
    <3>2. CASE k \in Event
      <4>1. spawned[k] + 1 \in {0, 1}
        BY <3>2, <2>3
      <4> QED BY <3>1, <4>1, <2>1
    <3>3. CASE k \notin Event
      <4>1. spawned' = spawned
        BY <3>1, <3>3, <2>1
      <4> QED BY <3>1, <4>1
    <3> QED BY <3>2, <3>3
  <2>5. ASSUME NEW e \in Event, spawned'[e] = 1
        PROVE  e[2] \in fulfilled_requests_cache'
    <3>1. CASE e = k
      BY <3>1, <1>1, <2>2
    <3>2. CASE e # k
      BY <3>2, <2>5, <2>1, <1>1 DEF TakenIsCached
    <3> QED BY <3>1, <3>2
  <2> QED BY <2>4, <2>5 DEF TakenIsCached
<1> QED BY <1>2, <1>3

\* No other step touches the cache or spawns a task.
LEMMA OthersTaken ==
  ASSUME [Next]_vars, ~Crash, ~(\E w \in Worker : handleEvent(w))
  PROVE  UNCHANGED <<spawned, fulfilled_requests_cache>>
<1>1. CASE ChainNext
  BY <1>1 DEF ChainNext, NewRequest, NewEmptyBlock, MineTx, RevertTx, DropTx, Reorg,
              addBlock, scanVars
<1>2. CASE StartNext
  BY <1>2 DEF StartNext, Start
<1>3. CASE WatcherNext \/ receiveRange
  BY <1>3 DEF WatcherNext, sendRange, watch_blocks, receiveRange
<1>4. CASE \E w \in Worker : WorkerNext(w)
  BY <1>4 DEF WorkerNext, fetchBatch
<1>5. CASE TaskNext
  BY <1>5 DEF TaskNext, startTask, ignoreTask, submitFails, receiveReceipt,
              receiptFails, submitTx, retryTask, finishTask, taskStep, scanVars
<1>6. CASE UpdaterNext
  BY <1>6 DEF UpdaterNext, updateReturns, updateCommitments, scanVars
<1>7. CASE UNCHANGED vars
  BY <1>7 DEF vars, scanVars
<1> QED BY <1>1, <1>2, <1>3, <1>4, <1>5, <1>6, <1>7 DEF Next

\* The strengthening is an invariant of the keeper, with or without fairness,
\* whatever the chain and the RPC nodes do.
THEOREM TakenInvariant == Spec => []TakenIsCached
<1>1. TakenIsCached /\ [Next]_vars => TakenIsCached'
  <2> SUFFICES ASSUME TakenIsCached, [Next]_vars PROVE TakenIsCached'
    OBVIOUS
  <2>1. CASE Crash
    BY <2>1, CrashTaken
  <2>2. CASE \E w \in Worker : handleEvent(w)
    BY <2>2, HandleEventTaken
  <2>3. CASE ~Crash /\ ~(\E w \in Worker : handleEvent(w))
    BY <2>3, OthersTaken DEF TakenIsCached
  <2> QED BY <2>1, <2>2, <2>3
<1> QED BY InitTaken, <1>1, PTL DEF Spec

\* A request gets at most one task from one process, however often the ranges
\* of the backlog, of the watcher and of the configured delays overlap.
THEOREM OneTaskCorrect == Spec => []OneTaskPerRequest
<1>1. TakenIsCached => OneTaskPerRequest
  BY DEF TakenIsCached, OneTaskPerRequest
<1> QED BY TakenInvariant, <1>1, PTL

-----------------------------------------------------------------------------
(* Numbers, sequences and counting                                          *)

\* The larger and the smaller of two numbers.
LEMMA TwoNumbers ==
  ASSUME NEW a \in Int, NEW b \in Int
  PROVE  /\ Max({a, b}) = IF a >= b THEN a ELSE b
         /\ Min({a, b}) = IF a <= b THEN a ELSE b
<1> DEFINE M == IF a >= b THEN a ELSE b
           m == IF a <= b THEN a ELSE b
<1>1. /\ M \in {a, b} /\ \A y \in {a, b} : M >= y
      /\ m \in {a, b} /\ \A y \in {a, b} : m <= y
  OBVIOUS
<1>2. /\ \A x \in {a, b} : (\A y \in {a, b} : x >= y) => x = M
      /\ \A x \in {a, b} : (\A y \in {a, b} : x <= y) => x = m
  OBVIOUS
<1> HIDE DEF M, m
<1>3. (CHOOSE x \in {a, b} : \A y \in {a, b} : x >= y) = M
  BY <1>1, <1>2
<1>4. (CHOOSE x \in {a, b} : \A y \in {a, b} : x <= y) = m
  BY <1>1, <1>2
<1> QED BY <1>3, <1>4 DEF Max, Min, M, m

\* The elements of a sequence, of its parts and of a concatenation.
LEMMA Elements ==
  ASSUME NEW S, NEW s \in Seq(S), NEW t \in Seq(S)
  PROVE  /\ Range(s) \subseteq S
         /\ Range(s \o t) = Range(s) \cup Range(t)
         /\ s # << >> => Range(s) = {Head(s)} \cup Range(Tail(s))
<1>1. Range(s) \subseteq S
  BY DEF Range
<1>2. Range(s \o t) = Range(s) \cup Range(t)
  <2>1. ASSUME NEW x \in Range(s \o t) PROVE x \in Range(s) \cup Range(t)
    <3>1. PICK i \in 1..(Len(s) + Len(t)) : x = (s \o t)[i]
      BY <2>1 DEF Range
    <3>2. CASE i <= Len(s)
      BY <3>1, <3>2 DEF Range
    <3>3. CASE i > Len(s)
      <4>1. x = t[i - Len(s)] /\ i - Len(s) \in 1..Len(t)
        BY <3>1, <3>3
      <4> QED BY <4>1 DEF Range
    <3> QED BY <3>2, <3>3
  <2>2. ASSUME NEW x \in Range(s) PROVE x \in Range(s \o t)
    <3>1. PICK i \in 1..Len(s) : x = s[i]
      BY <2>2 DEF Range
    <3>2. i \in DOMAIN (s \o t) /\ (s \o t)[i] = x
      BY <3>1
    <3> QED BY <3>2 DEF Range
  <2>3. ASSUME NEW x \in Range(t) PROVE x \in Range(s \o t)
    <3>1. PICK i \in 1..Len(t) : x = t[i]
      BY <2>3 DEF Range
    <3>2. i + Len(s) \in DOMAIN (s \o t) /\ (s \o t)[i + Len(s)] = x
      BY <3>1
    <3> QED BY <3>2 DEF Range
  <2> QED BY <2>1, <2>2, <2>3
<1>3. ASSUME s # << >> PROVE Range(s) = {Head(s)} \cup Range(Tail(s))
  <2>1. /\ Head(s) = s[1] /\ 1 \in 1..Len(s) /\ Len(Tail(s)) = Len(s) - 1
        /\ \A i \in 1..Len(Tail(s)) : Tail(s)[i] = s[i + 1]
        /\ DOMAIN s = 1..Len(s) /\ DOMAIN Tail(s) = 1..Len(Tail(s))
    BY <1>3
  <2>2. ASSUME NEW x \in Range(s) PROVE x \in {Head(s)} \cup Range(Tail(s))
    <3>1. PICK i \in 1..Len(s) : x = s[i]
      BY <2>1, <2>2 DEF Range
    <3>2. CASE i = 1
      BY <3>1, <3>2, <2>1
    <3>3. CASE i # 1
      <4>1. i - 1 \in DOMAIN Tail(s) /\ Tail(s)[i - 1] = x
        BY <3>1, <3>3, <2>1
      <4> QED BY <4>1 DEF Range
    <3> QED BY <3>2, <3>3
  <2>3. ASSUME NEW x \in Range(Tail(s)) PROVE x \in Range(s)
    <3>1. PICK i \in DOMAIN Tail(s) : x = Tail(s)[i]
      BY <2>3 DEF Range
    <3>2. i + 1 \in DOMAIN s /\ s[i + 1] = x
      BY <3>1, <2>1
    <3> QED BY <3>2 DEF Range
  <2>4. Head(s) \in Range(s)
    BY <2>1 DEF Range
  <2> QED BY <2>2, <2>3, <2>4
<1> QED BY <1>1, <1>2, <1>3

\* The elements of the empty sequence and of a sequence of one.
LEMMA FewElements ==
  /\ Range(<< >>) = {}
  /\ \A x : Range(<<x>>) = {x}
  BY DEF Range

\* Members of a finite set of numbers can be told by how many are not larger:
\* a larger member has a larger count, and every count occurs.
LEMMA Ranks ==
  ASSUME NEW B \in SUBSET Nat, IsFiniteSet(B)
  PROVE  /\ Cardinality(B) \in Nat
         /\ \A b \in B : Cardinality({c \in B : c <= b}) \in 1..Cardinality(B)
         /\ \A b \in B, d \in B :
              b < d => Cardinality({c \in B : c <= b}) < Cardinality({c \in B : c <= d})
         /\ \A m \in 1..Cardinality(B) :
              \E b \in B : Cardinality({c \in B : c <= b}) = m
<1> DEFINE upTo(b) == {c \in B : c <= b}
           n == Cardinality(B)
           rank == [b \in B |-> Cardinality(upTo(b))]
<1>1. n \in Nat
  BY FS_CardinalityType
<1>2. ASSUME NEW b \in B
      PROVE IsFiniteSet(upTo(b)) /\ Cardinality(upTo(b)) \in 1..n
  <2>1. upTo(b) \in SUBSET B /\ b \in upTo(b)
    OBVIOUS
  <2> HIDE DEF upTo
  <2>2. IsFiniteSet(upTo(b)) /\ Cardinality(upTo(b)) <= n
    BY <2>1, FS_Subset
  <2>3. Cardinality(upTo(b)) \in Nat /\ Cardinality(upTo(b)) # 0
    BY <2>1, <2>2, FS_CardinalityType, FS_EmptySet
  <2> QED BY <2>2, <2>3, <1>1
<1>3. ASSUME NEW b \in B, NEW d \in B, b < d
      PROVE  Cardinality(upTo(b)) < Cardinality(upTo(d))
  <2>1. upTo(b) \in SUBSET upTo(d) /\ d \in upTo(d) /\ d \notin upTo(b)
    <3>1. b \in Nat /\ d \in Nat /\ B \subseteq Nat
      OBVIOUS
    <3>2. \A c \in Nat : c <= b => c <= d
      BY <3>1, <1>3
    <3>3. d <= d /\ ~(d <= b)
      BY <3>1, <1>3
    <3> QED BY <3>1, <3>2, <3>3
  <2>2. IsFiniteSet(upTo(d)) /\ IsFiniteSet(upTo(b))
    BY <1>2
  <2>3. Cardinality(upTo(b)) \in Nat /\ Cardinality(upTo(d)) \in Nat
    BY <1>1, <1>2
  <2> HIDE DEF upTo
  <2>4. /\ Cardinality(upTo(b)) <= Cardinality(upTo(d))
        /\ Cardinality(upTo(d)) = Cardinality(upTo(b)) => upTo(d) = upTo(b)
    BY <2>1, <2>2, FS_Subset
  <2> QED BY <2>1, <2>3, <2>4
<1>4. rank \in Injection(B, 1..n)
  <2>1. rank \in [B -> 1..n]
    BY <1>2
  <2>2. ASSUME NEW b \in B, NEW d \in B, b # d PROVE rank[b] # rank[d]
    <3>1. b < d \/ d < b
      BY <2>2
    <3>2. rank[b] = Cardinality(upTo(b)) /\ rank[d] = Cardinality(upTo(d))
      OBVIOUS
    <3>3. Cardinality(upTo(b)) \in 1..n /\ Cardinality(upTo(d)) \in 1..n
      BY <1>2
    <3>4. b < d => Cardinality(upTo(b)) < Cardinality(upTo(d))
      BY <1>3
    <3>5. d < b => Cardinality(upTo(d)) < Cardinality(upTo(b))
      BY <1>3
    <3> HIDE DEF rank, upTo, n
    <3> QED BY <1>1, <3>1, <3>2, <3>3, <3>4, <3>5
  <2> HIDE DEF rank
  <2> QED BY <2>1, <2>2 DEF Injection, IsInjective
<1>5. IsFiniteSet(1..n) /\ Cardinality(1..n) = n
  <2> HIDE DEF n
  <2>1. IsFiniteSet(1..n) /\ Cardinality(1..n) = IF 1 > n THEN 0 ELSE n - 1 + 1
    BY <1>1, FS_Interval
  <2> QED BY <1>1, <2>1
<1>6. rank \in Surjection(B, 1..n)
  <2> HIDE DEF rank
  <2> QED BY <1>4, <1>5, FS_Injection
<1>7. ASSUME NEW m \in 1..n PROVE \E b \in B : Cardinality(upTo(b)) = m
  <2>1. \E b \in B : rank[b] = m
    <3> HIDE DEF rank
    <3> QED BY <1>6, <1>7 DEF Surjection
  <2> QED BY <2>1
<1> QED BY <1>1, <1>2, <1>3, <1>7

-----------------------------------------------------------------------------
(* Types                                                                    *)

\* The chain never gets shorter than a reorg may leave it.
ChainLength ==
  /\ InitialHead <= Len(chain) /\ Len(chain) <= highest
  /\ highest <= Len(chain) + ReorgDepth

ChainTyped ==
  /\ chain \in Seq(Block) /\ highest \in Nat
  /\ mempool \subseteq Tx /\ receipts \subseteq Tx
  /\ ChainLength

WorkerRecord == [ranges : Seq(RangeRecord), events : Seq(EventRecord)]

ScanTyped ==
  /\ running \in BOOLEAN
  /\ fulfilled_requests_cache \subseteq Nat
  /\ last_safe_block_processed \in Nat /\ backlogFrom \in Nat
  /\ outgoing \in Seq(RangeRecord) /\ Len(outgoing) <= 1
  /\ channel \in Seq(RangeRecord) /\ Len(channel) <= ChannelCapacity
  /\ worker \in [Worker -> WorkerRecord]
  /\ spawned \in [Event -> Nat]

TasksTyped ==
  /\ crashes \in 0..MaxCrash
  /\ tasks \subseteq Task /\ updater \subseteq Tx
  /\ counted \subseteq Nat
  /\ disclosed \subseteq [number : Nat, holder : User \cup {NoUser}]

\* TypeOK and the length of the chain, which is what makes it inductive: the
\* safe block is a number because no view is shorter than the reveal delay.
Typed == ChainTyped /\ ScanTyped /\ TasksTyped

\* The parts make up the type invariant.
LEMMA TypedParts == Typed => TypeOK
  BY DEF Typed, ChainTyped, ScanTyped, TasksTyped, TypeOK, WorkerRecord

\* A block of the chain has a request of a provider, or none.
LEMMA BlockTyped ==
  ASSUME ChainTyped, NEW b \in 1..Len(chain)
  PROVE  /\ chain[b] \in Block
         /\ chain[b].request.provider \in Provider
         /\ chain[b].request.user \in User \cup {NoUser}
<1>1. chain[b] \in Block
  BY DEF ChainTyped
<1> QED BY <1>1 DEF Block

\* Any set of blocks can be counted.
LEMMA RequestsCounted ==
  ASSUME NEW p, NEW b \in Int
  PROVE  /\ IsFiniteSet(requestBlocks(p, b)) /\ requestBlocks(p, b) \subseteq Nat
         /\ Cardinality(requestBlocks(p, b)) \in Nat
<1>1. IsFiniteSet(1..b)
  BY FS_Interval
<1>2. requestBlocks(p, b) \in SUBSET (1..b)
  BY DEF requestBlocks
<1>3. IsFiniteSet(requestBlocks(p, b))
  BY <1>1, <1>2, FS_Subset
<1> QED BY <1>2, <1>3, FS_CardinalityType

\* The event of a request.
LEMMA EventTyped ==
  ASSUME ChainTyped, NEW b \in 1..Len(chain), hasRequest(b)
  PROVE  eventAt(b) \in EventRecord
<1>1. chain[b].request.provider \in Provider /\ chain[b].request.user \in User
  BY BlockTyped DEF hasRequest
<1>2. Cardinality(requestBlocks(chain[b].request.provider, b)) \in Nat
  BY RequestsCounted
<1> QED BY <1>1, <1>2 DEF eventAt, EventRecord

\* A node answers from a block of the chain at or after the reveal delay.
LEMMA ViewSafe ==
  ASSUME ChainTyped, NEW view \in Views
  PROVE  /\ view \in Nat /\ view <= Len(chain) /\ Len(chain) \in Nat
         /\ view + MaxLag >= Len(chain)
         /\ get_latest_safe_block(view) \in Nat
         /\ get_latest_safe_block(view) + reveal_delay_blocks = view
  BY KeeperAssumption DEF ChainTyped, ChainLength, Views, get_latest_safe_block

\* Whoever holds a number is a user, or nobody does.
LEMMA HolderTyped ==
  ASSUME ChainTyped, NEW m
  PROVE  holder(m) \in User \cup {NoUser}
<1> DEFINE blocks == {b \in 1..Len(chain) : hasRequest(b) /\ eventAt(b).provider = Us
                                              /\ eventAt(b).sequence_number = m}
<1>1. CASE blocks = {}
  BY <1>1 DEF holder
<1>2. CASE blocks # {}
  <2>1. (CHOOSE b \in blocks : TRUE) \in 1..Len(chain)
    BY <1>2
  <2>2. holder(m) = chain[CHOOSE b \in blocks : TRUE].request.user
    BY <1>2 DEF holder
  <2> HIDE DEF blocks
  <2> QED BY <2>1, <2>2, BlockTyped
<1> QED BY <1>1, <1>2

\* What a disclosure records.
LEMMA DiscloseTyped ==
  ASSUME ChainTyped, TasksTyped, NEW n \in Nat, disclose(n)
  PROVE  disclosed' \subseteq [number : Nat, holder : User \cup {NoUser}]
<1> SUFFICES ASSUME NEW d \in disclosed', d \notin disclosed
             PROVE  d \in [number : Nat, holder : User \cup {NoUser}]
  BY DEF TasksTyped
<1>1. PICK m \in 1..n : d = [number |-> m, holder |-> holder(m)]
  BY DEF disclose
<1>2. holder(m) \in User \cup {NoUser}
  BY HolderTyped
<1> QED BY <1>1, <1>2

\* The events of a batch: exactly those of its blocks that the node knows.
LEMMA FetchedEvents ==
  ASSUME ChainTyped, NEW from \in Nat, NEW to \in Nat, NEW view \in 0..Len(chain)
  PROVE  /\ get_request_with_callback_events(from, to, view) \in Seq(EventRecord)
         /\ Range(get_request_with_callback_events(from, to, view)) =
              {eventAt(b) : b \in {b \in 1..view : from <= b /\ b <= to /\ hasRequest(b)}}
<1> DEFINE B == {b \in from..to : b \in 1..view /\ hasRequest(b)}
           upTo(b) == {c \in B : c <= b}
           nth(i) == CHOOSE b \in B : Cardinality(upTo(b)) = i
           n == Cardinality(B)
           s == [i \in 1..n |-> eventAt(nth(i))]
<1>1. B \in SUBSET Nat /\ IsFiniteSet(B)
  <2>1. IsFiniteSet(from..to) /\ B \in SUBSET (from..to) /\ B \in SUBSET Nat
    BY FS_Interval
  <2> HIDE DEF B
  <2> QED BY <2>1, FS_Subset
<1>2. Len(chain) \in Nat /\ \A b \in B : b \in 1..Len(chain) /\ hasRequest(b)
  BY DEF ChainTyped
<1>3. n \in Nat
  BY <1>1, FS_CardinalityType
<1>4. ASSUME NEW i \in 1..n PROVE nth(i) \in B /\ Cardinality(upTo(nth(i))) = i
  <2>1. \E b \in B : Cardinality(upTo(b)) = i
    <3> HIDE DEF B
    <3> QED BY <1>1, Ranks
  <2> HIDE DEF upTo, B
  <2> QED BY <2>1
<1>5. ASSUME NEW b \in B PROVE \E i \in 1..n : nth(i) = b
  <2> DEFINE i == Cardinality(upTo(b))
  <2>1. i \in 1..n
    <3> HIDE DEF B
    <3> QED BY <1>1, Ranks
  <2>2. nth(i) \in B /\ Cardinality(upTo(nth(i))) = i
    BY <2>1, <1>4
  <2>3. nth(i) = b
    <3> DEFINE d == nth(i)
    <3>1. d \in B /\ d \in Nat /\ b \in Nat
      BY <2>2, <1>1
    <3>2. d < b => Cardinality(upTo(d)) < Cardinality(upTo(b))
      <4> HIDE DEF B, d
      <4> QED BY <3>1, <1>1, Ranks
    <3>3. b < d => Cardinality(upTo(b)) < Cardinality(upTo(d))
      <4> HIDE DEF B, d
      <4> QED BY <3>1, <1>1, Ranks
    <3>4. Cardinality(upTo(d)) = i /\ Cardinality(upTo(b)) = i /\ i \in Nat
      BY <2>1, <2>2, <1>3
    <3>5. d = b
      <4> HIDE DEF d, i, upTo, B
      <4> QED BY <3>1, <3>2, <3>3, <3>4
    <3> QED BY <3>5
  <2> QED BY <2>1, <2>3
<1>6. get_request_with_callback_events(from, to, view) = s
  BY DEF get_request_with_callback_events
<1>7. \A i \in 1..n : eventAt(nth(i)) \in EventRecord
  <2> SUFFICES ASSUME NEW i \in 1..n PROVE eventAt(nth(i)) \in EventRecord
    OBVIOUS
  <2>1. nth(i) \in 1..Len(chain) /\ hasRequest(nth(i))
    BY <1>2, <1>4
  <2> HIDE DEF nth
  <2> QED BY <2>1, EventTyped
<1>8. s \in Seq(EventRecord) /\ DOMAIN s = 1..n
  <2> HIDE DEF nth, n
  <2> QED BY <1>3, <1>7
<1>9. Range(s) = {eventAt(b) : b \in B}
  <2>1. Range(s) = {eventAt(nth(i)) : i \in 1..n}
    BY DEF Range
  <2> HIDE DEF nth, n, s
  <2>2. {eventAt(nth(i)) : i \in 1..n} \subseteq {eventAt(b) : b \in B}
    BY <1>4
  <2>3. {eventAt(b) : b \in B} \subseteq {eventAt(nth(i)) : i \in 1..n}
    <3> SUFFICES ASSUME NEW b \in B PROVE eventAt(b) \in {eventAt(nth(i)) : i \in 1..n}
      OBVIOUS
    <3>1. PICK i \in 1..n : nth(i) = b
      BY <1>5
    <3> QED BY <3>1
  <2> QED BY <2>1, <2>2, <2>3
<1>10. B = {b \in 1..view : from <= b /\ b <= to /\ hasRequest(b)}
  OBVIOUS
<1> QED BY <1>6, <1>8, <1>9, <1>10

\* A chain with one more block.
LEMMA AddBlockTyped ==
  ASSUME ChainTyped, NEW block \in Block, addBlock(block),
         mempool' \subseteq Tx, receipts' \subseteq Tx
  PROVE  /\ ChainTyped' /\ highest <= highest' /\ Len(chain') = Len(chain) + 1
         /\ Len(chain) \in Nat /\ \A b \in 1..Len(chain) : chain'[b] = chain[b]
         /\ chain'[Len(chain) + 1] = block
<1>1. chain \in Seq(Block) /\ chain' = Append(chain, block) /\ highest \in Nat
  BY DEF addBlock, ChainTyped
<1>2. /\ chain' \in Seq(Block) /\ Len(chain') = Len(chain) + 1 /\ Len(chain) \in Nat
      /\ \A b \in 1..Len(chain) : chain'[b] = chain[b]
      /\ chain'[Len(chain) + 1] = block
  BY <1>1, AppendProperties, LenProperties
<1>3. highest' = IF highest >= Len(chain) + 1 THEN highest ELSE Len(chain) + 1
  BY <1>1, <1>2, TwoNumbers DEF addBlock
<1>4. ChainLength' /\ highest' \in Nat /\ highest <= highest'
  BY <1>1, <1>2, <1>3, KeeperAssumption DEF ChainLength, ChainTyped
<1> QED BY <1>2, <1>4 DEF ChainTyped

\* A chain whose last blocks are gone.
LEMMA ReorgTyped ==
  ASSUME ChainTyped, NEW length \in 0..Len(chain), Reorg(length)
  PROVE  /\ ChainTyped' /\ highest' = highest /\ Len(chain') = length
         /\ Len(chain) \in Nat /\ \A b \in 1..length : chain'[b] = chain[b]
<1>1. /\ chain \in Seq(Block) /\ chain' = SubSeq(chain, 1, length) /\ highest \in Nat
      /\ highest' = highest /\ mempool' = mempool /\ receipts' = receipts
  BY DEF Reorg, ChainTyped
<1>2. Len(chain) \in Nat /\ length \in Nat /\ \A i \in 1..length : chain[i] \in Block
  BY <1>1
<1>3. /\ chain' \in Seq(Block) /\ Len(chain') = length
      /\ \A b \in 1..length : chain'[b] = chain[b]
  BY <1>1, <1>2
<1>4. ChainLength'
  BY <1>1, <1>2, <1>3, KeeperAssumption DEF ChainLength, ChainTyped, Reorg
<1> QED BY <1>1, <1>2, <1>3, <1>4 DEF ChainTyped

\* The blocks that a transaction and a request put on the chain.
LEMMA NewBlocksTyped ==
  /\ EmptyBlock \in Block
  /\ \A p \in Provider, user \in User :
       [EmptyBlock EXCEPT !.request = [provider |-> p, user |-> user]] \in Block
  /\ \A tx \in Tx : effect(EmptyBlock, tx) \in Block
<1>1. EmptyBlock \in Block
  BY DEF EmptyBlock, Block, NoRequest, Provider
<1>2. ASSUME NEW p \in Provider, NEW user \in User
      PROVE  [EmptyBlock EXCEPT !.request = [provider |-> p, user |-> user]] \in Block
  BY <1>1 DEF Block
<1>3. ASSUME NEW tx \in Tx PROVE effect(EmptyBlock, tx) \in Block
  <2>1. tx.number \in Nat
    BY DEF Tx
  <2>2. CASE tx.kind = "reveal"
    BY <1>1, <2>1, <2>2 DEF effect, Block
  <2>3. CASE tx.kind # "reveal"
    BY <1>1, <2>1, <2>3 DEF effect, Block
  <2> QED BY <2>2, <2>3
<1> QED BY <1>1, <1>2, <1>3

\* A step of the chain: types, and the blocks it keeps.  A block that is as
\* deep as a reorg can reach is never changed again.
LEMMA ChainStep ==
  ASSUME ChainTyped, ChainNext
  PROVE  /\ ChainTyped' /\ highest <= highest'
         /\ \A b \in Nat : b + ReorgDepth <= highest =>
              b <= Len(chain) /\ \A i \in 1..b : chain'[i] = chain[i]
         /\ UNCHANGED <<processVars, scanVars, tasks, updater, counted, disclosed>>
<1> DEFINE Keeps == \A b \in Nat : b + ReorgDepth <= highest =>
                      b <= Len(chain) /\ \A i \in 1..b : chain'[i] = chain[i]
<1>1. /\ Len(chain) \in Nat /\ highest \in Nat /\ highest <= Len(chain) + ReorgDepth
      /\ ReorgDepth \in Nat /\ mempool \subseteq Tx /\ receipts \subseteq Tx
  BY KeeperAssumption DEF ChainTyped, ChainLength
<1>2. ASSUME NEW block \in Block, addBlock(block),
             mempool' \subseteq Tx, receipts' \subseteq Tx
      PROVE  ChainTyped' /\ highest <= highest' /\ Keeps
  <2>1. /\ ChainTyped' /\ highest <= highest'
        /\ \A b \in 1..Len(chain) : chain'[b] = chain[b]
    BY <1>2, AddBlockTyped
  <2>2. Keeps
    BY <1>1, <2>1
  <2> QED BY <2>1, <2>2
<1>3. CASE \E p \in Provider, user \in User : NewRequest(p, user)
  <2>1. PICK p \in Provider, user \in User : NewRequest(p, user)
    BY <1>3
  <2> DEFINE block == [EmptyBlock EXCEPT !.request = [provider |-> p, user |-> user]]
  <2>2. block \in Block
    BY NewBlocksTyped
  <2>3. addBlock(block) /\ mempool' = mempool /\ receipts' = receipts
    BY <2>1 DEF NewRequest
  <2> HIDE DEF block, Keeps
  <2>4. ChainTyped' /\ highest <= highest' /\ Keeps
    BY <2>2, <2>3, <1>1, <1>2
  <2> QED BY <2>3, <2>4 DEF addBlock, Keeps
<1>4. CASE NewEmptyBlock
  <2>1. EmptyBlock \in Block
    BY NewBlocksTyped
  <2>2. addBlock(EmptyBlock) /\ mempool' = mempool /\ receipts' = receipts
    BY <1>4 DEF NewEmptyBlock
  <2> HIDE DEF Keeps
  <2>3. ChainTyped' /\ highest <= highest' /\ Keeps
    BY <2>1, <2>2, <1>1, <1>2
  <2> QED BY <2>2, <2>3 DEF addBlock, Keeps
<1>5. CASE \E tx \in mempool : MineTx(tx) \/ RevertTx(tx)
  <2>1. PICK tx \in mempool : MineTx(tx) \/ RevertTx(tx)
    BY <1>5
  <2>2. tx \in Tx
    BY <1>1
  <2>3. mempool' \subseteq Tx /\ receipts' \subseteq Tx
    BY <1>1, <2>1, <2>2 DEF MineTx, RevertTx, mine
  <2>4. PICK block \in Block : addBlock(block)
    BY <2>1, <2>2, NewBlocksTyped DEF MineTx, RevertTx
  <2> HIDE DEF Keeps
  <2>5. ChainTyped' /\ highest <= highest' /\ Keeps
    BY <2>3, <2>4, <1>2
  <2> QED BY <2>4, <2>5 DEF addBlock, Keeps
<1>6. CASE \E tx \in mempool : DropTx(tx)
  <2>1. /\ mempool' \subseteq Tx /\ chain' = chain /\ highest' = highest
        /\ receipts' = receipts
        /\ UNCHANGED <<processVars, scanVars, tasks, updater, counted, disclosed>>
    BY <1>6, <1>1 DEF DropTx
  <2>2. ChainTyped'
    BY <2>1 DEF ChainTyped, ChainLength
  <2> QED BY <1>1, <2>1, <2>2
<1>7. CASE \E length \in 0..Len(chain) : Reorg(length)
  <2>1. PICK length \in 0..Len(chain) : Reorg(length)
    BY <1>7
  <2>2. /\ ChainTyped' /\ highest' = highest
        /\ \A b \in 1..length : chain'[b] = chain[b]
    BY <2>1, ReorgTyped
  <2>3. length >= highest - ReorgDepth
    BY <2>1 DEF Reorg
  <2>4. Keeps
    BY <1>1, <2>2, <2>3
  <2>5. UNCHANGED <<processVars, scanVars, tasks, updater, counted, disclosed>>
    BY <2>1 DEF Reorg
  <2> QED BY <1>1, <2>2, <2>4, <2>5
<1> QED BY <1>3, <1>4, <1>5, <1>6, <1>7 DEF ChainNext

\* A range with its delayed copies: the range is the first, and no copy
\* reaches further.
LEMMA WithDelays ==
  ASSUME NEW range \in RangeRecord
  PROVE  /\ withDelays(range) \in Seq(RangeRecord)
         /\ range \in Range(withDelays(range))
         /\ \A r \in Range(withDelays(range)) : r.to <= range.to
<1> DEFINE delayed == [i \in 1..Len(block_delays) |->
                         BlockRange(saturating_sub(range.from, block_delays[i]),
                                    saturating_sub(range.to, block_delays[i]))]
<1>1. range.from \in Nat /\ range.to \in Nat
  BY DEF RangeRecord
<1>2. Len(block_delays) \in Nat /\ \A i \in 1..Len(block_delays) : block_delays[i] \in Nat
  BY KeeperAssumption
<1>3. ASSUME NEW i \in 1..Len(block_delays)
      PROVE  delayed[i] \in RangeRecord /\ delayed[i].to <= range.to
  <2>1. delayed[i] = [from |-> saturating_sub(range.from, block_delays[i]),
                      to |-> saturating_sub(range.to, block_delays[i])]
    BY DEF BlockRange
  <2>2. /\ saturating_sub(range.from, block_delays[i]) \in Nat
        /\ saturating_sub(range.to, block_delays[i]) \in Nat
        /\ saturating_sub(range.to, block_delays[i]) <= range.to
    BY <1>1, <1>2 DEF saturating_sub
  <2> QED BY <2>1, <2>2 DEF RangeRecord
<1>4. delayed \in Seq(RangeRecord) /\ DOMAIN delayed = 1..Len(block_delays)
  <2>1. delayed \in [1..Len(block_delays) -> RangeRecord]
    BY <1>3
  <2> HIDE DEF delayed
  <2> QED BY <2>1, <1>2
<1>5. <<range>> \in Seq(RangeRecord)
  OBVIOUS
<1>6. withDelays(range) = <<range>> \o delayed
  BY DEF withDelays
<1>7. Range(withDelays(range)) = {range} \cup Range(delayed)
  <2> HIDE DEF delayed
  <2> DEFINE first == <<range>>
  <2>1. first \in Seq(RangeRecord) /\ Range(first) = {range}
    BY <1>5, FewElements
  <2> HIDE DEF first
  <2>2. Range(first \o delayed) = Range(first) \cup Range(delayed)
    BY <1>4, <2>1, Elements
  <2> QED BY <2>1, <2>2, <1>6 DEF first
<1>8. withDelays(range) \in Seq(RangeRecord)
  <2> HIDE DEF delayed
  <2> QED BY <1>4, <1>5, <1>6, ConcatProperties
<1>9. \A r \in Range(delayed) : r.to <= range.to
  <2> SUFFICES ASSUME NEW i \in 1..Len(block_delays) PROVE delayed[i].to <= range.to
    BY <1>4 DEF Range
  <2> QED BY <1>3
<1> QED BY <1>1, <1>7, <1>8, <1>9

\* The workers when the process starts.
LEMMA IdleTyped == Idle \in WorkerRecord /\ Idle.ranges = << >> /\ Idle.events = << >>
  BY DEF Idle, WorkerRecord

\* The range of the backlog and the safe block, when the process starts.
LEMMA StartTyped ==
  ASSUME ChainTyped, ScanTyped, NEW view \in Views, Start(view)
  PROVE  ScanTyped'
<1> DEFINE safe == get_latest_safe_block(view)
           backlog == BlockRange(saturating_sub(safe, BACKLOG_RANGE), safe)
<1>1. safe \in Nat
  BY ViewSafe
<1>2. backlog \in RangeRecord /\ backlog.from \in Nat
  BY <1>1, KeeperAssumption DEF BlockRange, RangeRecord, saturating_sub
<1>3. withDelays(backlog) \in Seq(RangeRecord)
  BY <1>2, WithDelays
<1>4. /\ worker' = [new_blocks |-> Idle, backlog |-> [Idle EXCEPT !.ranges = withDelays(backlog)]]
      /\ backlogFrom' = backlog.from /\ last_safe_block_processed' = safe
      /\ running' = TRUE
      /\ UNCHANGED <<fulfilled_requests_cache, outgoing, channel, spawned>>
  BY DEF Start
<1> HIDE DEF safe, backlog
<1>5. worker' \in [Worker -> WorkerRecord]
  BY <1>3, <1>4, IdleTyped DEF Worker, WorkerRecord
<1> QED BY <1>1, <1>2, <1>4, <1>5 DEF ScanTyped

\* A crash empties everything the process holds.
LEMMA CrashTyped == ScanTyped /\ TasksTyped /\ Crash => ScanTyped' /\ TasksTyped'
<1> SUFFICES ASSUME ScanTyped, TasksTyped, Crash PROVE ScanTyped' /\ TasksTyped'
  OBVIOUS
<1>1. ScanTyped'
  <2>1. worker' \in [Worker -> WorkerRecord]
    BY IdleTyped DEF Crash
  <2>2. spawned' \in [Event -> Nat]
    BY DEF Crash
  <2>3. /\ running' = FALSE /\ fulfilled_requests_cache' = {}
        /\ last_safe_block_processed' = 0 /\ backlogFrom' = 0
        /\ outgoing' = << >> /\ channel' = << >>
    BY DEF Crash
  <2>4. outgoing' \in Seq(RangeRecord) /\ Len(outgoing') <= 1
    BY <2>3, EmptySeq
  <2>5. channel' \in Seq(RangeRecord) /\ Len(channel') <= ChannelCapacity
    BY <2>3, EmptySeq, KeeperAssumption
  <2> QED BY <2>1, <2>2, <2>3, <2>4, <2>5 DEF ScanTyped
<1>2. TasksTyped'
  BY KeeperAssumption DEF TasksTyped, Crash
<1> QED BY <1>1, <1>2

\* The range the watcher makes.
LEMMA WatchTyped ==
  ASSUME ChainTyped, ScanTyped, NEW view \in Views, watch_blocks(view)
  PROVE  /\ ScanTyped'
         /\ outgoing' = <<outgoing'[1]>> /\ outgoing'[1] \in RangeRecord
         /\ outgoing'[1].to = get_latest_safe_block(view)
         /\ outgoing'[1].from <= last_safe_block_processed
         /\ UNCHANGED <<chainVars, processVars, fulfilled_requests_cache,
                        last_safe_block_processed, channel, worker, tasks, updater,
                        spawned, counted, disclosed, backlogFrom>>
<1> DEFINE safe == get_latest_safe_block(view)
           retryFrom == saturating_sub(safe, RETRY_PREVIOUS_BLOCKS)
           from == Min({retryFrom, last_safe_block_processed})
           range == BlockRange(from, safe)
<1>1. safe \in Nat /\ last_safe_block_processed \in Nat
  BY ViewSafe DEF ScanTyped
<1>2. retryFrom \in Nat
  BY <1>1, KeeperAssumption DEF saturating_sub
<1>3. from \in Nat /\ from <= last_safe_block_processed
  <2> HIDE DEF safe, retryFrom
  <2>1. from = IF retryFrom <= last_safe_block_processed THEN retryFrom
               ELSE last_safe_block_processed
    BY <1>1, <1>2, TwoNumbers
  <2> QED BY <1>1, <1>2, <2>1
<1>4. range \in RangeRecord /\ range.from = from /\ range.to = safe
  <2> HIDE DEF from, safe
  <2> QED BY <1>1, <1>3 DEF BlockRange, RangeRecord
<1>5. outgoing' = <<range>>
  BY DEF watch_blocks
<1>6. UNCHANGED <<chainVars, processVars, fulfilled_requests_cache,
                  last_safe_block_processed, channel, worker, tasks, updater,
                  spawned, counted, disclosed, backlogFrom>>
  BY DEF watch_blocks
<1> HIDE DEF range, from
<1>7. outgoing' \in Seq(RangeRecord) /\ Len(outgoing') = 1 /\ outgoing'[1] = range
  BY <1>4, <1>5
<1>8. ScanTyped'
  BY <1>6, <1>7 DEF ScanTyped, processVars
<1> QED BY <1>3, <1>4, <1>5, <1>6, <1>7, <1>8

\* The channel after a range was sent.
LEMMA SendTyped ==
  ASSUME ScanTyped, sendRange
  PROVE  /\ ScanTyped'
         /\ outgoing = <<outgoing[1]>> /\ outgoing[1] \in RangeRecord
         /\ Range(channel') = Range(channel) \cup {outgoing[1]}
<1>1. /\ outgoing \in Seq(RangeRecord) /\ outgoing # << >> /\ Len(outgoing) <= 1
      /\ channel \in Seq(RangeRecord) /\ Len(channel) < ChannelCapacity
      /\ channel' = channel \o outgoing /\ outgoing' = << >>
      /\ last_safe_block_processed' = outgoing[1].to
      /\ UNCHANGED <<running, crashes, fulfilled_requests_cache, worker, spawned,
                     backlogFrom>>
  BY DEF ScanTyped, sendRange, processVars
<1>2. Len(outgoing) = 1 /\ outgoing[1] \in RangeRecord /\ outgoing = <<outgoing[1]>>
  <2>1. Len(outgoing) \in Nat \ {0} /\ outgoing \in [1..Len(outgoing) -> RangeRecord]
    BY <1>1, EmptySeq, LenProperties
  <2>2. Len(outgoing) = 1 /\ outgoing[1] \in RangeRecord
    BY <2>1, <1>1
  <2>3. <<outgoing[1]>> \in Seq(RangeRecord) /\ Len(<<outgoing[1]>>) = 1
    BY <2>2
  <2> QED BY <2>2, <2>3, <1>1, SeqEqual
<1>3. outgoing[1].to \in Nat
  BY <1>2 DEF RangeRecord
<1>4. channel' \in Seq(RangeRecord) /\ Len(channel') = Len(channel) + 1
  BY <1>1, <1>2, ConcatProperties
<1>5. ScanTyped'
  BY <1>1, <1>3, <1>4, KeeperAssumption DEF ScanTyped
<1>6. Range(channel') = Range(channel) \cup {outgoing[1]}
  BY <1>1, <1>2, Elements, FewElements
<1> QED BY <1>2, <1>5, <1>6

\* The ranges of the new-blocks worker after it received one.
LEMMA ReceiveTyped ==
  ASSUME ScanTyped, receiveRange
  PROVE  /\ ScanTyped'
         /\ Head(channel) \in RangeRecord
         /\ Range(channel) = {Head(channel)} \cup Range(channel')
         /\ worker' = [worker EXCEPT !["new_blocks"] =
                         [ranges |-> withDelays(Head(channel)), events |-> << >>]]
         /\ worker["new_blocks"].ranges = << >> /\ worker["new_blocks"].events = << >>
<1>1. /\ channel \in Seq(RangeRecord) /\ channel # << >> /\ channel' = Tail(channel)
      /\ Len(channel) <= ChannelCapacity
      /\ worker["new_blocks"] = Idle /\ worker \in [Worker -> WorkerRecord]
      /\ worker' = [worker EXCEPT !["new_blocks"].ranges = withDelays(Head(channel))]
      /\ UNCHANGED <<running, fulfilled_requests_cache, outgoing,
                     last_safe_block_processed, spawned, backlogFrom>>
  BY DEF ScanTyped, receiveRange, processVars
<1>2. /\ Head(channel) \in RangeRecord /\ channel' \in Seq(RangeRecord)
      /\ Len(channel') = Len(channel) - 1 /\ Len(channel) \in Nat
  BY <1>1, HeadTailProperties, LenProperties
<1>3. withDelays(Head(channel)) \in Seq(RangeRecord)
  BY <1>2, WithDelays
<1>4. worker' = [worker EXCEPT !["new_blocks"] =
                   [ranges |-> withDelays(Head(channel)), events |-> << >>]]
  <2> DEFINE r == withDelays(Head(channel))
  <2> HIDE DEF r
  <2>1. [Idle EXCEPT !.ranges = r] = [ranges |-> r, events |-> << >>]
    BY DEF Idle
  <2>2. worker' = [worker EXCEPT !["new_blocks"] =
                     [worker["new_blocks"] EXCEPT !.ranges = r]]
    BY <1>1 DEF r
  <2> QED BY <1>1, <2>1, <2>2 DEF r
<1>5. worker' \in [Worker -> WorkerRecord]
  BY <1>1, <1>3, <1>4, IdleTyped DEF WorkerRecord, Idle
<1>6. ScanTyped'
  <2>1. Len(channel') <= ChannelCapacity
    BY <1>1, <1>2, KeeperAssumption
  <2> QED BY <1>1, <1>2, <1>5, <2>1 DEF ScanTyped
<1>7. Range(channel) = {Head(channel)} \cup Range(channel')
  BY <1>1, Elements
<1> QED BY <1>1, <1>2, <1>4, <1>6, <1>7, IdleTyped

\* What is left of a range: nothing before the end of the batch, everything
\* after it.
LEMMA Rest ==
  ASSUME NEW range \in RangeRecord, NEW to \in Nat
  PROVE  /\ rest(range, to) \in Seq(RangeRecord)
         /\ \A r \in Range(rest(range, to)) : r.to = range.to
         /\ \A b \in Nat : to < b /\ b <= range.to =>
              \E r \in Range(rest(range, to)) : b \in blocksOf(r)
<1>1. range.from \in Nat /\ range.to \in Nat
  BY DEF RangeRecord
<1>2. CASE to + 1 > range.to
  <2>1. rest(range, to) = << >>
    BY <1>2 DEF rest
  <2>2. Range(rest(range, to)) = {}
    BY <2>1, FewElements
  <2> QED BY <1>1, <1>2, <2>1, <2>2
<1>3. CASE ~(to + 1 > range.to)
  <2> DEFINE r == BlockRange(to + 1, range.to)
  <2>1. r \in RangeRecord /\ r.from = to + 1 /\ r.to = range.to
    BY <1>1 DEF BlockRange, RangeRecord
  <2>2. rest(range, to) = <<r>>
    BY <1>3 DEF rest
  <2>3. blocksOf(r) = (to + 1)..range.to
    BY <2>1 DEF blocksOf
  <2> HIDE DEF r
  <2>4. Range(rest(range, to)) = {r} /\ rest(range, to) \in Seq(RangeRecord)
    BY <2>1, <2>2, FewElements
  <2> QED BY <1>1, <2>1, <2>3, <2>4
<1> QED BY <1>2, <1>3

firstRange(w) == Head(worker[w].ranges)
batchEnd(w) == Min({firstRange(w).from + BLOCK_BATCH_SIZE, firstRange(w).to})

\* A worker after it fetched a batch: the blocks of the batch are out of its
\* ranges and their events in its list.
LEMMA FetchTyped ==
  ASSUME ChainTyped, ScanTyped, NEW w \in Worker, NEW view \in Views,
         fetchBatch(w, view)
  PROVE  /\ ScanTyped'
         /\ firstRange(w) \in RangeRecord
         /\ batchEnd(w) \in Nat /\ batchEnd(w) <= firstRange(w).to
         /\ Range(worker[w].ranges) = {firstRange(w)} \cup Range(Tail(worker[w].ranges))
         /\ Range(worker'[w].ranges) =
              Range(rest(firstRange(w), batchEnd(w))) \cup Range(Tail(worker[w].ranges))
         /\ worker[w].events = << >>
         /\ Range(worker'[w].events) =
              {eventAt(b) : b \in {b \in 1..view : firstRange(w).from <= b
                                       /\ b <= batchEnd(w) /\ hasRequest(b)}}
         /\ \A v \in Worker \ {w} : worker'[v] = worker[v]
<1> DEFINE range == firstRange(w)
           to == batchEnd(w)
           ranges == worker[w].ranges
           newRanges == rest(range, to) \o Tail(ranges)
           newEvents == get_request_with_callback_events(range.from, to, view)
<1>1. /\ ranges # << >> /\ worker[w].events = << >>
      /\ worker' = [worker EXCEPT ![w] = [ranges |-> newRanges, events |-> newEvents]]
      /\ UNCHANGED <<running, fulfilled_requests_cache, outgoing, channel,
                     last_safe_block_processed, spawned, backlogFrom>>
  BY DEF fetchBatch, firstRange, batchEnd, processVars
<1>2. worker \in [Worker -> WorkerRecord] /\ ranges \in Seq(RangeRecord)
  BY DEF ScanTyped, WorkerRecord
<1>3. range \in RangeRecord /\ Tail(ranges) \in Seq(RangeRecord)
  BY <1>1, <1>2, HeadTailProperties DEF firstRange
<1>4. range.from \in Nat /\ range.to \in Nat /\ BLOCK_BATCH_SIZE \in Nat
  BY <1>3, KeeperAssumption DEF RangeRecord
<1>5. to \in Nat /\ to <= range.to
  <2>1. range.from + BLOCK_BATCH_SIZE \in Nat
    BY <1>4
  <2>2. to = IF range.from + BLOCK_BATCH_SIZE <= range.to
             THEN range.from + BLOCK_BATCH_SIZE ELSE range.to
    <3> DEFINE x == range.from + BLOCK_BATCH_SIZE
               y == range.to
    <3>1. x \in Int /\ y \in Int /\ to = Min({x, y})
      BY <1>4, <2>1 DEF batchEnd
    <3> HIDE DEF x, y, range, to
    <3>2. to = IF x <= y THEN x ELSE y
      BY <3>1, TwoNumbers
    <3> QED BY <3>2 DEF x, y
  <2> HIDE DEF range, to
  <2> QED BY <1>4, <2>1, <2>2
<1>6. rest(range, to) \in Seq(RangeRecord)
  BY <1>3, <1>5, Rest
<1>7. newRanges \in Seq(RangeRecord)
  BY <1>3, <1>6, ConcatProperties
<1>8. /\ newEvents \in Seq(EventRecord)
      /\ Range(newEvents) = {eventAt(b) : b \in {b \in 1..view :
                               range.from <= b /\ b <= to /\ hasRequest(b)}}
  <2>1. view \in 0..Len(chain)
    BY DEF Views
  <2> QED BY <1>4, <1>5, <2>1, FetchedEvents
<1>9. Range(ranges) = {range} \cup Range(Tail(ranges))
  BY <1>1, <1>2, Elements DEF firstRange
<1>10. Range(newRanges) = Range(rest(range, to)) \cup Range(Tail(ranges))
  <2> DEFINE s == rest(range, to)
             t == Tail(ranges)
  <2>1. s \in Seq(RangeRecord) /\ t \in Seq(RangeRecord)
    BY <1>3, <1>6
  <2> HIDE DEF s, t
  <2>2. Range(s \o t) = Range(s) \cup Range(t)
    BY <2>1, Elements
  <2> QED BY <2>2 DEF s, t
<1>11. [ranges |-> newRanges, events |-> newEvents] \in WorkerRecord
  BY <1>7, <1>8 DEF WorkerRecord
<1> HIDE DEF newRanges, newEvents
<1>12. /\ worker' \in [Worker -> WorkerRecord]
       /\ worker'[w].ranges = newRanges /\ worker'[w].events = newEvents
       /\ \A v \in Worker \ {w} : worker'[v] = worker[v]
  BY <1>1, <1>2, <1>11
<1>13. ScanTyped'
  BY <1>1, <1>12 DEF ScanTyped
<1> QED BY <1>1, <1>3, <1>5, <1>8, <1>9, <1>10, <1>12, <1>13

firstEvent(w) == Head(worker[w].events)

\* A worker after it handled an event.
LEMMA HandleTyped ==
  ASSUME ScanTyped, TasksTyped, NEW w \in Worker, handleEvent(w)
  PROVE  /\ ScanTyped' /\ tasks' \subseteq Task
         /\ firstEvent(w) \in EventRecord
         /\ tasks' \subseteq tasks \cup {newTask(firstEvent(w))}
         /\ Range(worker[w].events) = {firstEvent(w)} \cup Range(worker'[w].events)
         /\ worker'[w].ranges = worker[w].ranges
         /\ \A v \in Worker \ {w} : worker'[v] = worker[v]
<1> DEFINE event == firstEvent(w)
           events == worker[w].events
           n == event.sequence_number
<1>1. /\ events # << >>
      /\ worker' = [worker EXCEPT ![w].events = Tail(@)]
      /\ fulfilled_requests_cache' = fulfilled_requests_cache \cup {n}
      /\ tasks' \subseteq tasks \cup {newTask(event)}
      /\ spawned' = spawned \/ spawned' = [spawned EXCEPT ![<<event.provider, n>>] = @ + 1]
      /\ UNCHANGED <<running, outgoing, channel, last_safe_block_processed, backlogFrom>>
  BY DEF handleEvent, insert, firstEvent, processVars
<1>2. worker \in [Worker -> WorkerRecord] /\ events \in Seq(EventRecord)
  BY DEF ScanTyped, WorkerRecord
<1>3. event \in EventRecord /\ Tail(events) \in Seq(EventRecord)
  BY <1>1, <1>2, HeadTailProperties DEF firstEvent
<1>4. Range(events) = {event} \cup Range(Tail(events))
  BY <1>1, <1>2, Elements DEF firstEvent
<1>5. [worker[w] EXCEPT !.events = Tail(events)] \in WorkerRecord
  <2>1. worker[w] \in WorkerRecord
    BY <1>2
  <2> QED BY <1>3, <2>1 DEF WorkerRecord
<1>6. worker' = [worker EXCEPT ![w] = [worker[w] EXCEPT !.events = Tail(events)]]
  BY <1>1
<1>7. /\ worker' \in [Worker -> WorkerRecord]
      /\ worker'[w] = [worker[w] EXCEPT !.events = Tail(events)]
      /\ \A v \in Worker \ {w} : worker'[v] = worker[v]
  BY <1>2, <1>5, <1>6
<1>8. worker'[w].ranges = worker[w].ranges /\ worker'[w].events = Tail(events)
  <2>1. worker[w] \in WorkerRecord
    BY <1>2
  <2> QED BY <1>7, <2>1 DEF WorkerRecord
<1>9. n \in Nat
  BY <1>3 DEF EventRecord
<1>10. spawned' \in [Event -> Nat]
  <2>1. spawned \in [Event -> Nat]
    BY DEF ScanTyped
  <2> DEFINE k == <<event.provider, n>>
  <2>2. spawned' = spawned \/ spawned' = [spawned EXCEPT ![k] = @ + 1]
    BY <1>1
  <2> HIDE DEF k
  <2> QED BY <2>1, <2>2
<1>11. newTask(event) \in Task
  BY <1>3, KeeperAssumption DEF newTask, Task
<1>12. tasks' \subseteq Task
  BY <1>1, <1>11 DEF TasksTyped
<1>13. ScanTyped'
  BY <1>1, <1>7, <1>9, <1>10 DEF ScanTyped
<1> QED BY <1>1, <1>3, <1>4, <1>7, <1>8, <1>12, <1>13

\* A task that moves on is a task for the same event.
LEMMA TaskChanges ==
  ASSUME NEW t \in Task
  PROVE  /\ t.event \in EventRecord /\ t.attempt \in 0..MaxRetries
         /\ t.event.sequence_number \in Nat
         /\ \A st \in {"submitting", "waiting"} :
              /\ [t EXCEPT !.status = st] \in Task
              /\ [t EXCEPT !.status = st].event = t.event
         /\ t.attempt < MaxRetries =>
              /\ [t EXCEPT !.status = "submitting", !.attempt = @ + 1] \in Task
              /\ [t EXCEPT !.status = "submitting", !.attempt = @ + 1].event = t.event
         /\ crashes \in Nat => txOf(t) \in Tx
<1>1. t.event \in EventRecord /\ t.attempt \in 0..MaxRetries
  BY DEF Task
<1>2. t.event.sequence_number \in Nat
  BY <1>1 DEF EventRecord
<1>3. \A st \in {"submitting", "waiting"} :
        /\ [t EXCEPT !.status = st] \in Task
        /\ [t EXCEPT !.status = st].event = t.event
  BY DEF Task
<1>4. t.attempt < MaxRetries =>
        /\ [t EXCEPT !.status = "submitting", !.attempt = @ + 1] \in Task
        /\ [t EXCEPT !.status = "submitting", !.attempt = @ + 1].event = t.event
  <2> SUFFICES ASSUME t.attempt < MaxRetries
               PROVE  /\ [t EXCEPT !.status = "submitting", !.attempt = @ + 1] \in Task
                      /\ [t EXCEPT !.status = "submitting", !.attempt = @ + 1].event = t.event
    OBVIOUS
  <2>1. t.attempt + 1 \in 0..MaxRetries
    BY <1>1, KeeperAssumption
  <2> QED BY <2>1 DEF Task
<1>5. crashes \in Nat => txOf(t) \in Tx
  BY <1>1, <1>2 DEF txOf, Tx
<1> QED BY <1>1, <1>2, <1>3, <1>4, <1>5

\* The number of task t is disclosed.
disclosesFor(t) ==
  /\ t.event.provider = Us /\ canReveal(t.event.sequence_number)
  /\ disclose(t.event.sequence_number)

\* A step of a task leaves the scan and the chain alone; it may send a
\* transaction and disclose the number of its own event.
LEMMA TaskStep ==
  ASSUME ChainTyped, TasksTyped, TaskNext
  PROVE  /\ ChainTyped' /\ TasksTyped'
         /\ UNCHANGED <<chain, highest, processVars, scanVars>>
         /\ \A new \in tasks' : \E t \in tasks : new.event = t.event
         /\ disclosed' = disclosed \/ \E t \in tasks : disclosesFor(t)
<1>1. PICK t \in tasks :
        \/ startTask(t) \/ ignoreTask(t)
        \/ submitFails(t) \/ receiveReceipt(t) \/ receiptFails(t)
        \/ \E view \in Views : submitTx(t, view)
  BY DEF TaskNext
<1>2. t \in Task /\ tasks \subseteq Task
  BY DEF TasksTyped
<1> DEFINE restarted == [t EXCEPT !.status = "submitting", !.attempt = @ + 1]
<1>3. /\ t.event.sequence_number \in Nat /\ t.event \in EventRecord
      /\ [t EXCEPT !.status = "submitting"] \in Task
      /\ [t EXCEPT !.status = "submitting"].event = t.event
      /\ [t EXCEPT !.status = "waiting"] \in Task
      /\ [t EXCEPT !.status = "waiting"].event = t.event
      /\ t.attempt < MaxRetries => restarted \in Task /\ restarted.event = t.event
  BY <1>2, TaskChanges
<1>4. crashes \in Nat /\ txOf(t) \in Tx
  <2>1. crashes \in Nat
    BY KeeperAssumption DEF TasksTyped
  <2> QED BY <1>2, <2>1, TaskChanges
<1>5. UNCHANGED <<chain, highest, receipts, processVars, scanVars, updater>>
  BY <1>1 DEF startTask, ignoreTask, submitFails, receiveReceipt, receiptFails, submitTx,
              retryTask, finishTask, taskStep
<1>6. mempool' = mempool \/ mempool' = mempool \cup {txOf(t)}
  BY <1>1 DEF startTask, ignoreTask, submitFails, receiveReceipt, receiptFails, submitTx,
              retryTask, finishTask
<1>7. PICK new \in Task : tasks' \subseteq tasks \cup {new} /\ new.event = t.event
  <2> HIDE DEF restarted
  <2>1. CASE startTask(t)
    BY <2>1, <1>3 DEF startTask, replaceTask
  <2>2. CASE ignoreTask(t) \/ finishTask(t)
    BY <2>2, <1>2 DEF ignoreTask, finishTask
  <2>3. CASE submitFails(t) \/ receiptFails(t)
    BY <2>2, <2>3, <1>3 DEF submitFails, receiptFails, retryTask, replaceTask, restarted
  <2>4. CASE receiveReceipt(t)
    BY <2>2, <2>4 DEF receiveReceipt
  <2>5. CASE \E view \in Views : submitTx(t, view)
    BY <2>2, <2>5, <1>3 DEF submitTx, replaceTask
  <2> QED BY <1>1, <2>1, <2>2, <2>3, <2>4, <2>5
<1>8. counted' \subseteq counted \cup {t.event.sequence_number}
  BY <1>1 DEF startTask, ignoreTask, submitFails, receiveReceipt, receiptFails, submitTx,
              retryTask, finishTask
<1>9. disclosed' = disclosed \/ disclosesFor(t)
  BY <1>1 DEF startTask, ignoreTask, submitFails, receiveReceipt, receiptFails, submitTx,
              retryTask, finishTask, disclosesFor
<1>10. disclosed' \subseteq [number : Nat, holder : User \cup {NoUser}]
  <2>1. CASE disclosed' = disclosed
    BY <2>1 DEF TasksTyped
  <2>2. CASE disclosesFor(t)
    BY <2>2, <1>3, DiscloseTyped DEF disclosesFor
  <2> QED BY <1>9, <2>1, <2>2
<1>11. TasksTyped'
  BY <1>2, <1>3, <1>5, <1>7, <1>8, <1>10 DEF TasksTyped, processVars
<1>12. ChainTyped'
  BY <1>4, <1>5, <1>6 DEF ChainTyped, ChainLength
<1> QED BY <1>5, <1>7, <1>9, <1>11, <1>12

\* The numbers up to the last one at a safe block are disclosed.
disclosesSafe(view) ==
  LET last == sequence_number(get_latest_safe_block(view)) - 1
  IN  canReveal(last) /\ disclose(last)

\* A step of the updater likewise; it discloses what is numbered at a safe
\* block.
LEMMA UpdaterStep ==
  ASSUME ChainTyped, TasksTyped, UpdaterNext
  PROVE  /\ ChainTyped' /\ TasksTyped'
         /\ UNCHANGED <<chain, highest, processVars, scanVars, tasks>>
         /\ disclosed' = disclosed \/ \E view \in Views : disclosesSafe(view)
<1>1. CASE updateReturns
  BY <1>1 DEF updateReturns, chainVars, processVars, ChainTyped, ChainLength, TasksTyped
<1>2. CASE \E view \in Views : updateCommitments(view)
  <2>1. PICK view \in Views : updateCommitments(view)
    BY <1>2
  <2> DEFINE safe == get_latest_safe_block(view)
             last == sequence_number(safe) - 1
             tx == [kind |-> "advance", number |-> last, attempt |-> 0, process |-> crashes]
  <2>2. last \in Nat
    <3>1. safe \in Int
      BY ViewSafe
    <3>2. Cardinality(requestBlocks(Us, safe)) \in Nat
      BY <3>1, RequestsCounted
    <3> QED BY <3>2 DEF sequence_number
  <2>3. /\ canReveal(last) /\ disclose(last)
        /\ mempool' = mempool \cup {tx} /\ updater' = {tx}
        /\ UNCHANGED <<chain, highest, receipts, processVars, scanVars, tasks, counted>>
    BY <2>1 DEF updateCommitments, providerInfoBlock
  <2> HIDE DEF last
  <2>4. tx \in Tx
    BY <2>2, KeeperAssumption DEF Tx, TasksTyped
  <2>5. disclosed' \subseteq [number : Nat, holder : User \cup {NoUser}]
    BY <2>2, <2>3, DiscloseTyped
  <2> HIDE DEF tx
  <2>6. TasksTyped'
    BY <2>3, <2>4, <2>5 DEF TasksTyped, processVars
  <2>7. ChainTyped'
    BY <2>3, <2>4 DEF ChainTyped, ChainLength
  <2> QED BY <2>3, <2>6, <2>7 DEF disclosesSafe, last
<1> QED BY <1>1, <1>2 DEF UpdaterNext

\* The chain starts with empty blocks, the process is down.
LEMMA InitTyped == Init => Typed
<1> SUFFICES ASSUME Init PROVE Typed
  OBVIOUS
<1>1. ChainTyped
  <2>1. EmptyBlock \in Block /\ InitialHead \in Nat
    BY NewBlocksTyped, KeeperAssumption
  <2>2. chain \in [1..InitialHead -> Block] /\ highest = InitialHead
    BY <2>1 DEF Init
  <2>3. chain \in Seq(Block) /\ Len(chain) = InitialHead
    BY <2>1, <2>2
  <2> QED BY <2>1, <2>2, <2>3, KeeperAssumption DEF Init, ChainTyped, ChainLength
<1>2. ScanTyped
  <2>1. worker \in [Worker -> WorkerRecord]
    BY IdleTyped DEF Init
  <2>2. spawned \in [Event -> Nat]
    BY DEF Init
  <2>3. outgoing = << >> /\ channel = << >>
    BY DEF Init
  <2>4. /\ outgoing \in Seq(RangeRecord) /\ Len(outgoing) <= 1
        /\ channel \in Seq(RangeRecord) /\ Len(channel) <= ChannelCapacity
    BY <2>3, EmptySeq, KeeperAssumption
  <2>5. /\ running \in BOOLEAN /\ fulfilled_requests_cache \subseteq Nat
        /\ last_safe_block_processed \in Nat /\ backlogFrom \in Nat
    BY DEF Init
  <2> QED BY <2>1, <2>2, <2>4, <2>5 DEF ScanTyped
<1>3. TasksTyped
  BY KeeperAssumption DEF Init, TasksTyped
<1> QED BY <1>1, <1>2, <1>3 DEF Typed

\* Every step keeps the types.
LEMMA NextTyped == Typed /\ [Next]_vars => Typed'
<1> SUFFICES ASSUME ChainTyped, ScanTyped, TasksTyped, [Next]_vars PROVE Typed'
  BY DEF Typed
<1>1. CASE ChainNext
  BY <1>1, ChainStep DEF Typed, ScanTyped, TasksTyped, processVars, scanVars
<1>2. CASE StartNext
  <2>1. PICK view \in Views : Start(view)
    BY <1>2 DEF StartNext
  <2>2. ScanTyped'
    BY <2>1, StartTyped
  <2>3. UNCHANGED <<chainVars, crashes, tasks, updater, counted, disclosed>>
    BY <2>1 DEF Start
  <2> QED BY <2>2, <2>3 DEF Typed, ChainTyped, ChainLength, TasksTyped, chainVars
<1>3. CASE Crash
  <2>1. ScanTyped' /\ TasksTyped'
    BY <1>3, CrashTyped
  <2>2. UNCHANGED chainVars
    BY <1>3 DEF Crash
  <2> QED BY <2>1, <2>2 DEF Typed, ChainTyped, ChainLength, chainVars
<1>4. CASE WatcherNext
  <2>1. ScanTyped'
    BY <1>4, SendTyped, WatchTyped DEF WatcherNext
  <2>2. UNCHANGED <<chainVars, crashes, tasks, updater, counted, disclosed>>
    BY <1>4 DEF WatcherNext, sendRange, watch_blocks, processVars
  <2> QED BY <2>1, <2>2 DEF Typed, ChainTyped, ChainLength, TasksTyped, chainVars
<1>5. CASE receiveRange
  <2>1. ScanTyped'
    BY <1>5, ReceiveTyped
  <2>2. UNCHANGED <<chainVars, crashes, tasks, updater, counted, disclosed>>
    BY <1>5 DEF receiveRange, processVars
  <2> QED BY <2>1, <2>2 DEF Typed, ChainTyped, ChainLength, TasksTyped, chainVars
<1>6. CASE \E w \in Worker : \E view \in Views : fetchBatch(w, view)
  <2>1. ScanTyped'
    BY <1>6, FetchTyped
  <2>2. UNCHANGED <<chainVars, crashes, tasks, updater, counted, disclosed>>
    BY <1>6 DEF fetchBatch, processVars
  <2> QED BY <2>1, <2>2 DEF Typed, ChainTyped, ChainLength, TasksTyped, chainVars
<1>7. CASE \E w \in Worker : handleEvent(w)
  <2>1. ScanTyped' /\ tasks' \subseteq Task
    BY <1>7, HandleTyped
  <2>2. UNCHANGED <<chainVars, crashes, updater, counted, disclosed>>
    BY <1>7 DEF handleEvent, processVars
  <2> QED BY <2>1, <2>2 DEF Typed, ChainTyped, ChainLength, TasksTyped, chainVars
<1>8. CASE TaskNext
  BY <1>8, TaskStep DEF Typed, ScanTyped, processVars, scanVars
<1>9. CASE UpdaterNext
  BY <1>9, UpdaterStep DEF Typed, ScanTyped, processVars, scanVars
<1>10. CASE UNCHANGED vars
  BY <1>10 DEF vars, Typed, ChainTyped, ChainLength, ScanTyped, TasksTyped, chainVars,
               processVars, scanVars
<1> QED BY <1>1, <1>2, <1>3, <1>4, <1>5, <1>6, <1>7, <1>8, <1>9, <1>10
        DEF Next, WorkerNext

\* The types and the length of the chain are invariant.
LEMMA TypedInvariant == Spec => []Typed
  BY InitTyped, NextTyped, PTL DEF Spec

\* Every variable keeps its type, for any delays, lags, reorgs and crashes:
\* no block number that the keeper computes wraps below zero.
THEOREM KeeperTypeCorrect == Spec => []TypeOK
  BY TypedInvariant, TypedParts, PTL

-----------------------------------------------------------------------------
(* Elements of the hash chain                                               *)

\* With the element of a number, those of the smaller numbers of its chain
\* are disclosed; the local chain can reveal each of them.
LEMMA DiscloseExpected ==
  ASSUME DisclosedElementsExpected, NEW n \in Nat, canReveal(n), disclose(n)
  PROVE  DisclosedElementsExpected'
<1> SUFFICES ASSUME NEW d \in disclosed', d \notin disclosed
             PROVE  canReveal(d.number) /\ reveal(d.number) = expectedElement(d.number)
  BY DEF DisclosedElementsExpected
<1>1. PICK m \in 1..n : chain_index(m) = chain_index(n) /\ d.number = m
  BY DEF disclose
<1>2. canReveal(m)
  <2> DEFINE c == commitments[chain_index(n)]
  <2>1. chain_index(n) \in 1..Len(commitments)
    BY ChainStarts DEF canReveal
  <2>2. c.offset \in Nat /\ c.length \in Nat \ {0}
    BY <2>1, CommitmentType
  <2>3. n - c.offset < c.length /\ chain_index(n) > 0
    BY DEF canReveal
  <2>4. m - c.offset < c.length
    BY <2>2, <2>3
  <2> QED BY <1>1, <2>3, <2>4 DEF canReveal
<1>3. reveal(m) = expectedElement(m)
  BY <1>2, RevealCorrect
<1> QED BY <1>1, <1>2, <1>3

\* A step discloses nothing, or a number the local chain can reveal.
LEMMA DisclosingSteps ==
  ASSUME ChainTyped, TasksTyped, [Next]_vars
  PROVE  \/ disclosed' = disclosed
         \/ UNCHANGED <<chain, highest, processVars, scanVars>> /\ TaskNext
              /\ \E t \in tasks : disclosesFor(t)
         \/ UNCHANGED <<chain, highest, processVars, scanVars>>
              /\ \E view \in Views : disclosesSafe(view)
<1>1. CASE ChainNext
  BY <1>1, ChainStep
<1>2. CASE TaskNext
  BY <1>2, TaskStep
<1>3. CASE UpdaterNext
  BY <1>3, UpdaterStep
<1>4. CASE StartNext \/ Crash \/ WatcherNext \/ receiveRange
  BY <1>4 DEF StartNext, Start, Crash, WatcherNext, watch_blocks, sendRange, receiveRange
<1>5. CASE \E w \in Worker : WorkerNext(w)
  BY <1>5 DEF WorkerNext, handleEvent, fetchBatch
<1>6. CASE UNCHANGED vars
  BY <1>6 DEF vars
<1> QED BY <1>1, <1>2, <1>3, <1>4, <1>5, <1>6 DEF Next

\* A safe block counts requests.
LEMMA SafeLast ==
  ASSUME ChainTyped, NEW view \in Views
  PROVE  /\ get_latest_safe_block(view) \in Nat
         /\ sequence_number(get_latest_safe_block(view)) - 1 =
              Cardinality(requestBlocks(Us, get_latest_safe_block(view)))
         /\ Cardinality(requestBlocks(Us, get_latest_safe_block(view))) \in Nat
<1>1. get_latest_safe_block(view) \in Nat
  BY ViewSafe
<1>2. Cardinality(requestBlocks(Us, get_latest_safe_block(view))) \in Nat
  BY <1>1, RequestsCounted
<1> QED BY <1>1, <1>2 DEF sequence_number

\* Whatever part of a chain is kept, every element that a reveal or an advance
\* of the keeper publishes is the one the contract expects for its number.
THEOREM ElementsExpected == Spec => []DisclosedElementsExpected
<1>1. Init => DisclosedElementsExpected
  BY DEF Init, DisclosedElementsExpected
<1>2. Typed /\ DisclosedElementsExpected /\ [Next]_vars => DisclosedElementsExpected'
  <2> SUFFICES ASSUME ChainTyped, TasksTyped, DisclosedElementsExpected, [Next]_vars
               PROVE  DisclosedElementsExpected'
    BY DEF Typed
  <2>1. CASE disclosed' = disclosed
    BY <2>1 DEF DisclosedElementsExpected
  <2>2. ASSUME NEW t \in tasks, disclosesFor(t) PROVE DisclosedElementsExpected'
    <3>1. t.event.sequence_number \in Nat
      BY TaskChanges DEF TasksTyped
    <3> QED BY <2>2, <3>1, DiscloseExpected DEF disclosesFor
  <2>3. ASSUME NEW view \in Views, disclosesSafe(view) PROVE DisclosedElementsExpected'
    <3>1. sequence_number(get_latest_safe_block(view)) - 1 \in Nat
      BY SafeLast
    <3> QED BY <2>3, <3>1, DiscloseExpected DEF disclosesSafe
  <2> QED BY <2>1, <2>2, <2>3, DisclosingSteps
<1> QED BY <1>1, <1>2, TypedInvariant, PTL DEF Spec

-----------------------------------------------------------------------------
(* Disclosed numbers are final                                              *)

\* The reveal delay is configured to cover the reorgs of the chain.
DelayCoversReorgs == reveal_delay_blocks >= ReorgDepth

\* Blocks that get_latest_safe_block has returned or could return.
safeBlock(b) == b + reveal_delay_blocks <= highest

\* The watcher has passed, and the threads exchange, only safe blocks.
RangesSafe ==
  /\ safeBlock(last_safe_block_processed)
  /\ \A range \in Range(outgoing) \cup pendingRanges : safeBlock(range.to)

takenEvents == {t.event : t \in tasks} \cup UNION {Range(worker[w].events) : w \in Worker}

\* An event on its way to a reveal is that of a request in a safe block, still.
EventsSafe ==
  \A e \in takenEvents :
    \E b \in 1..Len(chain) : safeBlock(b) /\ hasRequest(b) /\ eventAt(b) = e

\* A disclosed number is that of a request in a safe block, still, and was
\* disclosed for the user who made the request.
DisclosedSafe ==
  \A d \in disclosed :
    \E b \in 1..Len(chain) :
      /\ safeBlock(b) /\ ours(b)
      /\ eventAt(b).sequence_number = d.number /\ chain[b].request.user = d.holder

\* What makes DisclosedNumbersFinal inductive.
FinalInv == DelayCoversReorgs /\ RangesSafe /\ EventsSafe /\ DisclosedSafe

\* The number of a request depends on the blocks up to its own.
LEMMA SamePrefix ==
  ASSUME NEW b \in Nat \ {0}, \A i \in 1..b : chain'[i] = chain[i]
  PROVE  /\ hasRequest(b)' <=> hasRequest(b)
         /\ ours(b)' <=> ours(b)
         /\ eventAt(b)' = eventAt(b)
         /\ chain'[b] = chain[b]
<1>1. chain'[b] = chain[b]
  OBVIOUS
<1>2. \A i \in 1..b : hasRequest(i)' <=> hasRequest(i)
  BY DEF hasRequest
<1>3. ASSUME NEW p PROVE requestBlocks(p, b)' = requestBlocks(p, b)
  BY <1>2 DEF requestBlocks
<1>4. eventAt(b)' = eventAt(b)
  BY <1>1, <1>3 DEF eventAt
<1> QED BY <1>1, <1>2, <1>4 DEF ours, hasRequest

\* Requests are numbered in the order of their blocks: the number of one is
\* the count of those up to it, later ones have larger numbers, and no number
\* up to the count at a block is left out.
LEMMA Numbering ==
  ASSUME NEW k \in Nat
  PROVE  /\ \A b \in 1..k : ours(b) =>
              /\ b \in requestBlocks(Us, k) /\ eventAt(b).provider = Us
              /\ eventAt(b).sequence_number = Cardinality(requestBlocks(Us, b))
              /\ eventAt(b).sequence_number \in 1..Cardinality(requestBlocks(Us, k))
         /\ \A b \in 1..k, c \in 1..k : ours(b) /\ ours(c) /\ b < c =>
              eventAt(b).sequence_number < eventAt(c).sequence_number
         /\ \A m \in 1..Cardinality(requestBlocks(Us, k)) :
              \E b \in 1..k : ours(b) /\ eventAt(b).sequence_number = m
<1> DEFINE B == requestBlocks(Us, k)
           upTo(b) == {c \in B : c <= b}
<1>1. IsFiniteSet(B) /\ B \in SUBSET Nat
  BY RequestsCounted
<1>2. \A b : b \in B <=> b \in 1..k /\ ours(b)
  BY DEF requestBlocks, ours
<1>3. ASSUME NEW b \in B
      PROVE  /\ eventAt(b).provider = Us
             /\ eventAt(b).sequence_number = Cardinality(requestBlocks(Us, b))
             /\ eventAt(b).sequence_number = Cardinality(upTo(b))
  <2>1. b \in 1..k /\ ours(b)
    BY <1>2
  <2>2. requestBlocks(Us, b) = upTo(b)
    BY <2>1 DEF requestBlocks
  <2>3. /\ eventAt(b).provider = Us
        /\ eventAt(b).sequence_number = Cardinality(requestBlocks(Us, b))
    BY <2>1 DEF eventAt, ours
  <2> QED BY <2>2, <2>3
<1> HIDE DEF B
<1>4. /\ \A b \in B : Cardinality(upTo(b)) \in 1..Cardinality(B)
      /\ \A b \in B, d \in B : b < d => Cardinality(upTo(b)) < Cardinality(upTo(d))
      /\ \A m \in 1..Cardinality(B) : \E b \in B : Cardinality(upTo(b)) = m
  BY <1>1, Ranks
<1> HIDE DEF upTo
<1>5. \A b \in 1..k : ours(b) =>
        /\ b \in B /\ eventAt(b).provider = Us
        /\ eventAt(b).sequence_number = Cardinality(requestBlocks(Us, b))
        /\ eventAt(b).sequence_number \in 1..Cardinality(B)
  BY <1>2, <1>3, <1>4
<1>6. \A b \in 1..k, c \in 1..k : ours(b) /\ ours(c) /\ b < c =>
        eventAt(b).sequence_number < eventAt(c).sequence_number
  <2> SUFFICES ASSUME NEW b \in 1..k, NEW c \in 1..k, ours(b), ours(c), b < c
               PROVE  eventAt(b).sequence_number < eventAt(c).sequence_number
    OBVIOUS
  <2>1. b \in B /\ c \in B
    BY <1>2
  <2>2. Cardinality(upTo(b)) < Cardinality(upTo(c))
    BY <2>1, <1>4
  <2>3. /\ eventAt(b).sequence_number = Cardinality(upTo(b))
        /\ eventAt(c).sequence_number = Cardinality(upTo(c))
    BY <2>1, <1>3
  <2> QED BY <2>2, <2>3
<1>7. \A m \in 1..Cardinality(B) :
        \E b \in 1..k : ours(b) /\ eventAt(b).sequence_number = m
  BY <1>2, <1>3, <1>4
<1> QED BY <1>5, <1>6, <1>7 DEF B

\* The holder of a number is the user of the one request that has it.
LEMMA HolderOf ==
  ASSUME ChainTyped, NEW b \in 1..Len(chain), ours(b)
  PROVE  holder(eventAt(b).sequence_number) = chain[b].request.user
<1> DEFINE n == eventAt(b).sequence_number
           blocks == {c \in 1..Len(chain) : /\ hasRequest(c) /\ eventAt(c).provider = Us
                                            /\ eventAt(c).sequence_number = n}
<1>1. Len(chain) \in Nat
  BY DEF ChainTyped
<1>2. ASSUME NEW c \in blocks PROVE c = b
  <2>1. c \in 1..Len(chain) /\ ours(c) /\ eventAt(c).sequence_number = n
    BY DEF ours, eventAt
  <2>2. n \in Nat
    BY <1>1, Numbering, RequestsCounted
  <2>3. c < b => eventAt(c).sequence_number < n
    BY <1>1, <2>1, Numbering
  <2>4. b < c => n < eventAt(c).sequence_number
    BY <1>1, <2>1, Numbering
  <2> HIDE DEF n
  <2> QED BY <2>1, <2>2, <2>3, <2>4
<1>3. b \in blocks
  <2>1. eventAt(b).provider = Us
    BY <1>1, Numbering
  <2> QED BY <2>1 DEF ours
<1>4. (CHOOSE c \in blocks : TRUE) = b
  <2> HIDE DEF blocks
  <2> QED BY <1>2, <1>3
<1>5. holder(n) = IF blocks = {} THEN NoUser
                  ELSE chain[CHOOSE c \in blocks : TRUE].request.user
  BY DEF holder
<1> HIDE DEF blocks
<1> QED BY <1>3, <1>4, <1>5

\* Numbers in safe blocks belong to whom they were disclosed for.
LEMMA FinalImplied == ChainTyped /\ DisclosedSafe => DisclosedNumbersFinal
<1> SUFFICES ASSUME ChainTyped, DisclosedSafe, NEW d \in disclosed
             PROVE  d.holder # NoUser /\ holder(d.number) = d.holder
  BY DEF DisclosedNumbersFinal
<1>1. PICK b \in 1..Len(chain) :
        /\ ours(b) /\ eventAt(b).sequence_number = d.number
        /\ chain[b].request.user = d.holder
  BY DEF DisclosedSafe
<1>2. holder(d.number) = d.holder
  BY <1>1, HolderOf
<1> QED BY <1>1, <1>2 DEF ours, hasRequest

\* Disclosing the numbers up to the count at a safe block.
LEMMA DiscloseSafe ==
  ASSUME ChainTyped, DisclosedSafe, NEW k \in 0..Len(chain), safeBlock(k),
         disclose(Cardinality(requestBlocks(Us, k))), UNCHANGED <<chain, highest>>
  PROVE  DisclosedSafe'
<1>1. Len(chain) \in Nat /\ k \in Nat /\ highest \in Nat /\ reveal_delay_blocks \in Nat
  BY KeeperAssumption DEF ChainTyped
<1> DEFINE Known(d) == \E b \in 1..Len(chain) :
             /\ safeBlock(b) /\ ours(b)
             /\ eventAt(b).sequence_number = d.number /\ chain[b].request.user = d.holder
<1>2. ASSUME NEW d \in disclosed' PROVE Known(d)
  <2>1. CASE d \in disclosed
    BY <2>1 DEF DisclosedSafe
  <2>2. CASE d \notin disclosed
    <3>1. PICK m \in 1..Cardinality(requestBlocks(Us, k)) :
            d = [number |-> m, holder |-> holder(m)]
      BY <2>2 DEF disclose
    <3>2. PICK b \in 1..k : ours(b) /\ eventAt(b).sequence_number = m
      BY <1>1, Numbering
    <3>3. b \in 1..Len(chain) /\ safeBlock(b)
      BY <1>1, <3>2 DEF safeBlock
    <3>4. holder(m) = chain[b].request.user
      BY <3>2, <3>3, HolderOf
    <3> QED BY <3>1, <3>2, <3>3, <3>4
  <2> QED BY <2>1, <2>2
<1>3. ASSUME NEW b
      PROVE  /\ safeBlock(b)' <=> safeBlock(b)
             /\ ours(b)' <=> ours(b)
             /\ eventAt(b)' = eventAt(b)
  BY DEF safeBlock, ours, hasRequest, eventAt, requestBlocks
<1>4. ASSUME NEW d \in disclosed'
      PROVE  \E b \in 1..Len(chain') :
               /\ safeBlock(b)' /\ ours(b)'
               /\ eventAt(b)'.sequence_number = d.number
               /\ chain'[b].request.user = d.holder
  BY <1>2, <1>3
<1> QED BY <1>4 DEF DisclosedSafe

\* The ranges of the scan, one by one.
LEMMA AllRanges ==
  \A r : r \in Range(outgoing) \cup pendingRanges <=>
           \/ r \in Range(outgoing) \/ r \in Range(channel)
           \/ \E w \in Worker : r \in Range(worker[w].ranges)
  BY DEF pendingRanges

\* The ranges of the scan after a step.
LEMMA AllRangesNext ==
  \A r : r \in (Range(outgoing) \cup pendingRanges)' <=>
           \/ r \in Range(outgoing') \/ r \in Range(channel')
           \/ \E w \in Worker : r \in Range(worker'[w].ranges)
  BY DEF pendingRanges

\* Every range has a block number for its end.
LEMMA RangesTyped ==
  ASSUME ScanTyped
  PROVE  /\ \A r \in Range(outgoing) \cup pendingRanges : r \in RangeRecord /\ r.to \in Nat
         /\ \A w \in Worker : worker[w].ranges \in Seq(RangeRecord)
                              /\ worker[w].events \in Seq(EventRecord)
<1>1. \A w \in Worker : worker[w].ranges \in Seq(RangeRecord)
                        /\ worker[w].events \in Seq(EventRecord)
  BY DEF ScanTyped, WorkerRecord
<1>2. Range(outgoing) \subseteq RangeRecord
  BY Elements DEF ScanTyped
<1>3. Range(channel) \subseteq RangeRecord
  BY Elements DEF ScanTyped
<1>4. \A w \in Worker : Range(worker[w].ranges) \subseteq RangeRecord
  BY <1>1, Elements
<1>5. \A r \in RangeRecord : r.to \in Nat
  BY DEF RangeRecord
<1> QED BY <1>1, <1>2, <1>3, <1>4, <1>5, AllRanges

\* The safe block of a node is a safe block.
LEMMA ViewIsSafe ==
  ASSUME ChainTyped, NEW view \in Views
  PROVE  /\ get_latest_safe_block(view) \in 0..Len(chain)
         /\ \A b \in Nat : b <= get_latest_safe_block(view) => safeBlock(b)
<1>1. /\ view \in Nat /\ view <= Len(chain) /\ Len(chain) \in Nat
      /\ get_latest_safe_block(view) \in Nat
      /\ get_latest_safe_block(view) + reveal_delay_blocks = view
  BY ViewSafe
<1>2. reveal_delay_blocks \in Nat /\ highest \in Nat /\ Len(chain) <= highest
  BY KeeperAssumption DEF ChainTyped, ChainLength
<1> QED BY <1>1, <1>2 DEF safeBlock

\* Safe blocks stay safe, and a block before a safe one is safe.
LEMMA SafeBlocks ==
  ASSUME ChainTyped, highest' \in Nat, highest <= highest'
  PROVE  \A b \in Nat, c \in Nat : safeBlock(c) /\ b <= c => safeBlock(b) /\ safeBlock(b)'
<1>1. reveal_delay_blocks \in Nat /\ highest \in Nat
  BY KeeperAssumption DEF ChainTyped
<1> QED BY <1>1 DEF safeBlock

\* The process starts with the backlog, up to a safe block.
LEMMA StartRanges ==
  ASSUME ChainTyped, ScanTyped, RangesSafe, NEW view \in Views, Start(view)
  PROVE  RangesSafe'
<1> DEFINE safe == get_latest_safe_block(view)
           backlog == BlockRange(saturating_sub(safe, BACKLOG_RANGE), safe)
<1>1. safe \in Nat /\ \A b \in Nat : b <= safe => safeBlock(b)
  BY ViewIsSafe, ViewSafe
<1>2. backlog \in RangeRecord /\ backlog.to = safe
  BY <1>1, KeeperAssumption DEF BlockRange, RangeRecord, saturating_sub
<1>3. /\ worker' = [new_blocks |-> Idle, backlog |-> [Idle EXCEPT !.ranges = withDelays(backlog)]]
      /\ last_safe_block_processed' = safe
      /\ UNCHANGED <<highest, outgoing, channel>>
  BY DEF Start, chainVars
<1>4. \A b : safeBlock(b)' <=> safeBlock(b)
  BY <1>3 DEF safeBlock
<1> HIDE DEF safe, backlog
<1>5. worker'["new_blocks"].ranges = << >> /\ worker'["backlog"].ranges = withDelays(backlog)
  BY <1>3 DEF Idle
<1>6. \A r \in Range(withDelays(backlog)) : r \in RangeRecord /\ r.to \in Nat /\ r.to <= safe
  <2>1. withDelays(backlog) \in Seq(RangeRecord)
    BY <1>2, WithDelays
  <2>2. Range(withDelays(backlog)) \subseteq RangeRecord
    BY <2>1, Elements
  <2>3. \A r \in Range(withDelays(backlog)) : r.to <= safe
    BY <1>2, WithDelays
  <2> QED BY <2>2, <2>3 DEF RangeRecord
<1>7. ASSUME NEW r \in (Range(outgoing) \cup pendingRanges)' PROVE safeBlock(r.to)
  <2>1. CASE r \in Range(outgoing') \/ r \in Range(channel')
    BY <2>1, <1>3, AllRanges DEF RangesSafe
  <2>2. CASE \E w \in Worker : r \in Range(worker'[w].ranges)
    <3>1. r \in Range(withDelays(backlog))
      BY <2>2, <1>5, FewElements DEF Worker
    <3> QED BY <3>1, <1>1, <1>6
  <2> QED BY <2>1, <2>2, AllRangesNext
<1> QED BY <1>1, <1>3, <1>4, <1>7 DEF RangesSafe

\* The watcher makes a range up to a safe block, and passes on what it made.
LEMMA WatcherRanges ==
  ASSUME ChainTyped, ScanTyped, RangesSafe, WatcherNext
  PROVE  RangesSafe'
<1>1. CASE sendRange
  <2>1. /\ outgoing = <<outgoing[1]>> /\ Range(channel') = Range(channel) \cup {outgoing[1]}
    BY <1>1, SendTyped
  <2>2. /\ last_safe_block_processed' = outgoing[1].to /\ outgoing' = << >>
        /\ UNCHANGED <<highest, worker>>
    BY <1>1 DEF sendRange, chainVars
  <2>3. outgoing[1] \in Range(outgoing) /\ Range(outgoing') = {}
    BY <2>1, <2>2, FewElements
  <2>4. \A b : safeBlock(b)' <=> safeBlock(b)
    BY <2>2 DEF safeBlock
  <2>5. ASSUME NEW r \in (Range(outgoing) \cup pendingRanges)' PROVE safeBlock(r.to)
    <3>1. r \in Range(outgoing) \cup pendingRanges
      BY <2>1, <2>2, <2>3, AllRanges, AllRangesNext
    <3> QED BY <3>1 DEF RangesSafe
  <2>6. safeBlock(outgoing[1].to)
    BY <2>3 DEF RangesSafe
  <2> QED BY <2>2, <2>4, <2>5, <2>6 DEF RangesSafe
<1>2. CASE \E view \in Views : watch_blocks(view)
  <2>1. PICK view \in Views : watch_blocks(view)
    BY <1>2
  <2>2. /\ outgoing' = <<outgoing'[1]>>
        /\ outgoing'[1].to = get_latest_safe_block(view)
        /\ UNCHANGED <<highest, last_safe_block_processed, channel, worker>>
    BY <2>1, WatchTyped DEF chainVars
  <2>3. Range(outgoing') = {outgoing'[1]}
    BY <2>2, FewElements
  <2>4. \A b : safeBlock(b)' <=> safeBlock(b)
    BY <2>2 DEF safeBlock
  <2>5. safeBlock(outgoing'[1].to)
    BY <2>2, ViewIsSafe, ViewSafe
  <2>6. ASSUME NEW r \in (Range(outgoing) \cup pendingRanges)' PROVE safeBlock(r.to)
    <3>1. r = outgoing'[1] \/ r \in Range(outgoing) \cup pendingRanges
      BY <2>2, <2>3, AllRanges, AllRangesNext
    <3> QED BY <3>1, <2>5 DEF RangesSafe
  <2> QED BY <2>2, <2>4, <2>6 DEF RangesSafe
<1> QED BY <1>1, <1>2 DEF WatcherNext

\* The workers scan what they were given, or earlier blocks.
LEMMA WorkerRanges ==
  ASSUME ChainTyped, ScanTyped, TasksTyped, RangesSafe,
         receiveRange \/ \E w \in Worker : WorkerNext(w)
  PROVE  RangesSafe'
<1>1. UNCHANGED <<highest, last_safe_block_processed, outgoing>>
  BY DEF receiveRange, WorkerNext, fetchBatch, handleEvent, chainVars
<1>2. \A b : safeBlock(b)' <=> safeBlock(b)
  BY <1>1 DEF safeBlock
<1>3. highest \in Nat /\ \A b \in Nat, c \in Nat : safeBlock(c) /\ b <= c => safeBlock(b)
  BY <1>1, SafeBlocks DEF ChainTyped
<1>4. CASE receiveRange
  <2>1. /\ Head(channel) \in RangeRecord
        /\ Range(channel) = {Head(channel)} \cup Range(channel')
        /\ worker' = [worker EXCEPT !["new_blocks"] =
                         [ranges |-> withDelays(Head(channel)), events |-> << >>]]
    BY <1>4, ReceiveTyped
  <2>2. /\ withDelays(Head(channel)) \in Seq(RangeRecord)
        /\ \A r \in Range(withDelays(Head(channel))) : r.to <= Head(channel).to
    BY <2>1, WithDelays
  <2>3. Range(withDelays(Head(channel))) \subseteq RangeRecord
    BY <2>2, Elements
  <2>4. Head(channel).to \in Nat /\ safeBlock(Head(channel).to)
    BY <2>1, AllRanges DEF RangeRecord, RangesSafe
  <2>5. ASSUME NEW r \in Range(withDelays(Head(channel))) PROVE safeBlock(r.to)
    <3>1. r.to \in Nat
      BY <2>3 DEF RangeRecord
    <3> QED BY <3>1, <2>2, <2>4, <1>3
  <2>6. worker \in [Worker -> WorkerRecord]
    BY DEF ScanTyped
  <2>7. ASSUME NEW w \in Worker, NEW r \in Range(worker'[w].ranges) PROVE safeBlock(r.to)
    <3>1. CASE w = "new_blocks"
      <4>1. worker'[w].ranges = withDelays(Head(channel))
        BY <3>1, <2>1, <2>6
      <4> QED BY <4>1, <2>5
    <3>2. CASE w # "new_blocks"
      <4>1. worker'[w] = worker[w]
        BY <3>2, <2>1, <2>6
      <4> QED BY <4>1, AllRanges DEF RangesSafe
    <3> QED BY <3>1, <3>2
  <2>8. ASSUME NEW r \in (Range(outgoing) \cup pendingRanges)' PROVE safeBlock(r.to)
    BY <2>1, <2>7, <1>1, AllRanges, AllRangesNext DEF RangesSafe
  <2> QED BY <1>1, <1>2, <2>8 DEF RangesSafe
<1>5. ASSUME NEW w \in Worker, NEW view \in Views, fetchBatch(w, view) PROVE RangesSafe'
  <2>1. /\ firstRange(w) \in RangeRecord /\ batchEnd(w) \in Nat
        /\ Range(worker[w].ranges) = {firstRange(w)} \cup Range(Tail(worker[w].ranges))
        /\ Range(worker'[w].ranges) =
             Range(rest(firstRange(w), batchEnd(w))) \cup Range(Tail(worker[w].ranges))
        /\ \A v \in Worker \ {w} : worker'[v] = worker[v]
    BY <1>5, FetchTyped
  <2>2. \A r \in Range(rest(firstRange(w), batchEnd(w))) : r.to = firstRange(w).to
    BY <2>1, Rest
  <2>3. safeBlock(firstRange(w).to)
    BY <2>1, AllRanges DEF RangesSafe
  <2>4. channel' = channel
    BY <1>5 DEF fetchBatch
  <2>5. ASSUME NEW v \in Worker, NEW r \in Range(worker'[v].ranges) PROVE safeBlock(r.to)
    <3>1. CASE v = w
      BY <3>1, <2>1, <2>2, <2>3, AllRanges DEF RangesSafe
    <3>2. CASE v # w
      BY <3>2, <2>1, AllRanges DEF RangesSafe
    <3> QED BY <3>1, <3>2
  <2>6. ASSUME NEW r \in (Range(outgoing) \cup pendingRanges)' PROVE safeBlock(r.to)
    BY <2>4, <2>5, <1>1, AllRanges, AllRangesNext DEF RangesSafe
  <2> QED BY <1>1, <1>2, <2>6 DEF RangesSafe
<1>6. ASSUME NEW w \in Worker, handleEvent(w) PROVE RangesSafe'
  <2>1. /\ worker'[w].ranges = worker[w].ranges
        /\ \A v \in Worker \ {w} : worker'[v] = worker[v]
    BY <1>6, HandleTyped
  <2>2. channel' = channel
    BY <1>6 DEF handleEvent
  <2>3. ASSUME NEW r \in (Range(outgoing) \cup pendingRanges)' PROVE safeBlock(r.to)
    <3>1. r \in Range(outgoing) \cup pendingRanges
      BY <2>1, <2>2, <1>1, AllRanges, AllRangesNext
    <3> QED BY <3>1 DEF RangesSafe
  <2> QED BY <1>1, <1>2, <2>3 DEF RangesSafe
<1> QED BY <1>4, <1>5, <1>6 DEF WorkerNext

\* A crash leaves no range.
LEMMA CrashRanges == ChainTyped /\ Crash => RangesSafe'
<1> SUFFICES ASSUME ChainTyped, Crash PROVE RangesSafe'
  OBVIOUS
<1>1. /\ last_safe_block_processed' = 0 /\ outgoing' = << >> /\ channel' = << >>
      /\ worker' = [w \in Worker |-> Idle] /\ highest' = highest
  BY DEF Crash, chainVars
<1>2. \A w \in Worker : worker'[w].ranges = << >>
  BY <1>1, IdleTyped
<1>3. (Range(outgoing) \cup pendingRanges)' = {}
  BY <1>1, <1>2, FewElements, AllRangesNext
<1>4. safeBlock(0)'
  <2>1. 0 + reveal_delay_blocks <= highest
    BY KeeperAssumption DEF ChainTyped, ChainLength
  <2> QED BY <1>1, <2>1 DEF safeBlock
<1> QED BY <1>1, <1>3, <1>4 DEF RangesSafe

\* Every step keeps the ranges within the safe blocks.
LEMMA RangesStep ==
  ASSUME ChainTyped, ScanTyped, TasksTyped, RangesSafe, [Next]_vars
  PROVE  RangesSafe'
<1>1. ASSUME UNCHANGED scanVars, highest <= highest', highest' \in Nat PROVE RangesSafe'
  <2>1. UNCHANGED <<last_safe_block_processed, outgoing, channel, worker>>
    BY <1>1 DEF scanVars
  <2>2. (Range(outgoing) \cup pendingRanges)' = Range(outgoing) \cup pendingRanges
    BY <2>1 DEF pendingRanges
  <2>3. ASSUME NEW r \in Range(outgoing) \cup pendingRanges PROVE safeBlock(r.to)'
    <3>1. r.to \in Nat /\ safeBlock(r.to)
      BY RangesTyped DEF RangesSafe
    <3> QED BY <1>1, <3>1, SafeBlocks
  <2>4. safeBlock(last_safe_block_processed)'
    <3>1. last_safe_block_processed \in Nat /\ safeBlock(last_safe_block_processed)
      BY DEF ScanTyped, RangesSafe
    <3>2. last_safe_block_processed <= last_safe_block_processed
      BY <3>1
    <3> QED BY <1>1, <2>1, <3>1, <3>2, SafeBlocks DEF safeBlock
  <2> QED BY <2>2, <2>3, <2>4 DEF RangesSafe
<1>2. highest \in Nat
  BY DEF ChainTyped
<1>3. CASE ChainNext
  BY <1>1, <1>3, ChainStep DEF ChainTyped
<1>4. CASE TaskNext
  BY <1>1, <1>2, <1>4, TaskStep
<1>5. CASE UpdaterNext
  BY <1>1, <1>2, <1>5, UpdaterStep
<1>6. CASE UNCHANGED vars
  <2>1. UNCHANGED scanVars /\ highest' = highest
    BY <1>6 DEF vars, chainVars
  <2> QED BY <1>1, <1>2, <2>1
<1>7. CASE StartNext
  BY <1>7, StartRanges DEF StartNext
<1>8. CASE Crash
  BY <1>8, CrashRanges
<1>9. CASE WatcherNext
  BY <1>9, WatcherRanges
<1>10. CASE receiveRange \/ \E w \in Worker : WorkerNext(w)
  BY <1>10, WorkerRanges
<1> QED BY <1>3, <1>4, <1>5, <1>6, <1>7, <1>8, <1>9, <1>10 DEF Next

\* An event of a request in a safe block.
safeEvent(e) == \E b \in 1..Len(chain) : safeBlock(b) /\ hasRequest(b) /\ eventAt(b) = e

\* The events on their way, one by one.
LEMMA AllEvents ==
  /\ \A e : e \in takenEvents <=>
       \/ \E w \in Worker : e \in Range(worker[w].events)
       \/ \E t \in tasks : e = t.event
  /\ \A e : e \in takenEvents' <=>
       \/ \E w \in Worker : e \in Range(worker'[w].events)
       \/ \E t \in tasks' : e = t.event
  BY DEF takenEvents

\* A step of the chain takes back no request in a safe block.
LEMMA SafeRequestsStay ==
  ASSUME ChainTyped, DelayCoversReorgs, ChainNext, NEW b \in 1..Len(chain), safeBlock(b)
  PROVE  /\ b \in 1..Len(chain') /\ safeBlock(b)'
         /\ hasRequest(b)' <=> hasRequest(b)
         /\ ours(b)' <=> ours(b)
         /\ eventAt(b)' = eventAt(b) /\ chain'[b] = chain[b]
<1>1. /\ ChainTyped' /\ highest <= highest'
      /\ \A c \in Nat : c + ReorgDepth <= highest =>
           c <= Len(chain) /\ \A i \in 1..c : chain'[i] = chain[i]
  BY ChainStep
<1>2. /\ b \in Nat \ {0} /\ highest \in Nat /\ highest' \in Nat
      /\ ReorgDepth \in Nat /\ reveal_delay_blocks \in Nat
  BY <1>1, KeeperAssumption DEF ChainTyped
<1>3. b + ReorgDepth <= highest
  BY <1>2 DEF safeBlock, DelayCoversReorgs
<1>4. b \in 1..Len(chain')
  <2>1. Len(chain') \in Nat /\ highest' <= Len(chain') + ReorgDepth
    BY <1>1 DEF ChainTyped, ChainLength
  <2> QED BY <1>1, <1>2, <1>3, <2>1
<1>5. safeBlock(b)'
  <2>1. b <= b
    BY <1>2
  <2> QED BY <1>1, <1>2, <2>1, SafeBlocks
<1>6. \A i \in 1..b : chain'[i] = chain[i]
  BY <1>1, <1>2, <1>3
<1> QED BY <1>2, <1>4, <1>5, <1>6, SamePrefix

\* Every step keeps the events those of requests in safe blocks.
LEMMA EventsStep ==
  ASSUME ChainTyped, ScanTyped, TasksTyped, RangesSafe, EventsSafe, DelayCoversReorgs,
         [Next]_vars
  PROVE  EventsSafe'
<1>1. \A e : (e \in takenEvents => safeEvent(e))
  BY DEF EventsSafe, safeEvent
<1>2. SUFFICES ASSUME NEW e \in takenEvents' PROVE safeEvent(e)'
  BY DEF EventsSafe, safeEvent
<1>3. ASSUME UNCHANGED <<chain, highest>>, safeEvent(e) PROVE safeEvent(e)'
  BY <1>3 DEF safeEvent, safeBlock, hasRequest, eventAt, requestBlocks
<1>4. CASE ChainNext
  <2>1. UNCHANGED <<worker, tasks>>
    BY <1>4, ChainStep DEF scanVars
  <2>2. safeEvent(e)
    BY <1>1, <1>2, <2>1 DEF takenEvents
  <2>3. PICK b \in 1..Len(chain) : safeBlock(b) /\ hasRequest(b) /\ eventAt(b) = e
    BY <2>2 DEF safeEvent
  <2>4. b \in 1..Len(chain') /\ safeBlock(b)' /\ hasRequest(b)' /\ eventAt(b)' = e
    BY <1>4, <2>3, SafeRequestsStay
  <2> QED BY <2>4 DEF safeEvent
<1>5. CASE TaskNext
  <2>1. /\ UNCHANGED <<chain, highest, worker>>
        /\ \A new \in tasks' : \E t \in tasks : new.event = t.event
    BY <1>5, TaskStep DEF scanVars
  <2>2. e \in takenEvents
    BY <2>1, <1>2, AllEvents
  <2> QED BY <2>1, <2>2, <1>1, <1>3
<1>6. CASE UpdaterNext \/ WatcherNext \/ UNCHANGED vars
  <2>1. UNCHANGED <<chain, highest, worker, tasks>>
    <3>1. CASE UpdaterNext
      BY <3>1, UpdaterStep DEF scanVars
    <3>2. CASE WatcherNext \/ UNCHANGED vars
      BY <3>2 DEF WatcherNext, sendRange, watch_blocks, vars, chainVars, scanVars
    <3> QED BY <1>6, <3>1, <3>2
  <2> QED BY <2>1, <1>1, <1>2, <1>3 DEF takenEvents
<1>7. CASE StartNext
  <2>1. PICK view \in Views : Start(view)
    BY <1>7 DEF StartNext
  <2>2. /\ UNCHANGED <<chain, highest, tasks>>
        /\ worker'["new_blocks"] = Idle /\ worker'["backlog"].events = Idle.events
    BY <2>1 DEF Start, chainVars, Idle
  <2>3. \A w \in Worker : Range(worker'[w].events) = {}
    BY <2>2, FewElements, IdleTyped DEF Worker
  <2> QED BY <2>2, <2>3, <1>1, <1>2, <1>3, AllEvents
<1>8. CASE Crash
  <2>1. tasks' = {} /\ worker' = [w \in Worker |-> Idle]
    BY <1>8 DEF Crash
  <2>2. \A w \in Worker : Range(worker'[w].events) = {}
    BY <2>1, FewElements, IdleTyped
  <2> QED BY <2>1, <2>2, <1>2, AllEvents
<1>9. CASE receiveRange
  <2>1. UNCHANGED <<chain, highest, tasks>>
    BY <1>9 DEF receiveRange, chainVars
  <2>2. worker' = [worker EXCEPT !["new_blocks"] =
                     [ranges |-> withDelays(Head(channel)), events |-> << >>]]
    BY <1>9, ReceiveTyped
  <2>3. worker \in [Worker -> WorkerRecord]
    BY DEF ScanTyped
  <2>4. ASSUME NEW w \in Worker PROVE Range(worker'[w].events) \subseteq Range(worker[w].events)
    <3>1. CASE w = "new_blocks"
      <4>1. worker'[w].events = << >>
        BY <3>1, <2>2, <2>3
      <4> QED BY <4>1, FewElements
    <3>2. CASE w # "new_blocks"
      BY <3>2, <2>2, <2>3
    <3> QED BY <3>1, <3>2
  <2>5. e \in takenEvents
    BY <2>1, <2>4, <1>2, AllEvents
  <2> QED BY <2>1, <2>5, <1>1, <1>3
<1>10. ASSUME NEW w \in Worker, NEW view \in Views, fetchBatch(w, view)
       PROVE  safeEvent(e)'
  <2>1. UNCHANGED <<chain, highest, tasks>>
    BY <1>10 DEF fetchBatch, chainVars
  <2>2. /\ firstRange(w) \in RangeRecord
        /\ batchEnd(w) \in Nat /\ batchEnd(w) <= firstRange(w).to
        /\ firstRange(w) \in Range(worker[w].ranges)
        /\ Range(worker'[w].events) =
             {eventAt(b) : b \in {b \in 1..view : firstRange(w).from <= b
                                      /\ b <= batchEnd(w) /\ hasRequest(b)}}
        /\ \A v \in Worker \ {w} : worker'[v] = worker[v]
    BY <1>10, FetchTyped
  <2>3. CASE e \in Range(worker'[w].events)
    <3>1. PICK b \in 1..view : b <= batchEnd(w) /\ hasRequest(b) /\ e = eventAt(b)
      BY <2>2, <2>3
    <3>2. view \in Nat /\ view <= Len(chain) /\ Len(chain) \in Nat
      BY ViewSafe
    <3>3. safeBlock(firstRange(w).to) /\ firstRange(w).to \in Nat
      BY <2>2, AllRanges DEF RangesSafe, RangeRecord
    <3>4. b \in 1..Len(chain) /\ b \in Nat /\ b <= firstRange(w).to
      BY <2>2, <3>1, <3>2, <3>3
    <3>5. safeBlock(b)
      BY <2>1, <3>3, <3>4, SafeBlocks DEF ChainTyped
    <3>6. safeEvent(e)
      BY <3>1, <3>4, <3>5 DEF safeEvent
    <3> QED BY <2>1, <3>6, <1>3
  <2>4. CASE e \notin Range(worker'[w].events)
    <3>1. e \in takenEvents
      BY <2>1, <2>2, <2>4, <1>2, AllEvents
    <3> QED BY <2>1, <3>1, <1>1, <1>3
  <2> QED BY <2>3, <2>4
<1>11. ASSUME NEW w \in Worker, handleEvent(w) PROVE safeEvent(e)'
  <2>1. UNCHANGED <<chain, highest>>
    BY <1>11 DEF handleEvent, chainVars
  <2>2. /\ tasks' \subseteq tasks \cup {newTask(firstEvent(w))}
        /\ Range(worker[w].events) = {firstEvent(w)} \cup Range(worker'[w].events)
        /\ \A v \in Worker \ {w} : worker'[v] = worker[v]
    BY <1>11, HandleTyped
  <2>3. newTask(firstEvent(w)).event = firstEvent(w)
    BY DEF newTask
  <2>4. e \in takenEvents
    <3>1. CASE \E v \in Worker : e \in Range(worker'[v].events)
      BY <3>1, <2>2, AllEvents
    <3>2. CASE \E t \in tasks' : e = t.event
      BY <3>2, <2>2, <2>3, AllEvents
    <3> QED BY <3>1, <3>2, <1>2, AllEvents
  <2> QED BY <2>1, <2>4, <1>1, <1>3
<1> QED BY <1>4, <1>5, <1>6, <1>7, <1>8, <1>9, <1>10, <1>11 DEF Next, WorkerNext

\* Every step keeps the disclosed numbers those of requests in safe blocks.
LEMMA DisclosedStep ==
  ASSUME ChainTyped, ScanTyped, TasksTyped, EventsSafe, DisclosedSafe, DelayCoversReorgs,
         [Next]_vars
  PROVE  DisclosedSafe'
<1>1. CASE ChainNext
  <2> SUFFICES ASSUME NEW d \in disclosed'
               PROVE  \E b \in 1..Len(chain') :
                        /\ safeBlock(b)' /\ ours(b)'
                        /\ eventAt(b)'.sequence_number = d.number
                        /\ chain'[b].request.user = d.holder
    BY DEF DisclosedSafe
  <2>1. d \in disclosed
    BY <1>1, ChainStep
  <2>2. PICK b \in 1..Len(chain) :
          /\ safeBlock(b) /\ ours(b)
          /\ eventAt(b).sequence_number = d.number /\ chain[b].request.user = d.holder
    BY <2>1 DEF DisclosedSafe
  <2>3. /\ b \in 1..Len(chain') /\ safeBlock(b)' /\ ours(b)'
        /\ eventAt(b)' = eventAt(b) /\ chain'[b] = chain[b]
    BY <1>1, <2>2, SafeRequestsStay
  <2> QED BY <2>2, <2>3
<1>2. CASE disclosed' = disclosed /\ UNCHANGED <<chain, highest>>
  BY <1>2 DEF DisclosedSafe, safeBlock, ours, hasRequest, eventAt, requestBlocks
<1>3. ASSUME NEW t \in tasks, disclosesFor(t), UNCHANGED <<chain, highest>>
      PROVE  DisclosedSafe'
  <2>1. t.event \in takenEvents
    BY AllEvents
  <2>2. PICK b \in 1..Len(chain) : safeBlock(b) /\ hasRequest(b) /\ eventAt(b) = t.event
    BY <2>1 DEF EventsSafe
  <2>3. eventAt(b).provider = Us
    BY <1>3, <2>2 DEF disclosesFor
  <2>4. eventAt(b).sequence_number = Cardinality(requestBlocks(Us, b))
    BY <2>3 DEF eventAt
  <2>5. disclose(Cardinality(requestBlocks(Us, b)))
    BY <1>3, <2>2, <2>4 DEF disclosesFor
  <2>6. b \in 0..Len(chain)
    BY DEF ChainTyped
  <2> QED BY <1>3, <2>2, <2>5, <2>6, DiscloseSafe
<1>4. ASSUME NEW view \in Views, disclosesSafe(view), UNCHANGED <<chain, highest>>
      PROVE  DisclosedSafe'
  <2> DEFINE k == get_latest_safe_block(view)
  <2>1. k \in 0..Len(chain) /\ safeBlock(k)
    BY ViewIsSafe, ViewSafe
  <2>2. disclose(Cardinality(requestBlocks(Us, k)))
    BY <1>4, SafeLast DEF disclosesSafe
  <2> QED BY <1>4, <2>1, <2>2, DiscloseSafe
<1>5. CASE ~ChainNext /\ disclosed' = disclosed
  <2>1. UNCHANGED <<chain, highest>>
    <3>1. CASE TaskNext
      BY <3>1, TaskStep
    <3>2. CASE UpdaterNext
      BY <3>2, UpdaterStep
    <3>3. CASE StartNext \/ Crash \/ WatcherNext \/ receiveRange
      BY <3>3 DEF StartNext, Start, Crash, WatcherNext, watch_blocks, sendRange,
                  receiveRange, chainVars
    <3>4. CASE \E w \in Worker : WorkerNext(w)
      BY <3>4 DEF WorkerNext, handleEvent, fetchBatch, chainVars
    <3>5. CASE UNCHANGED vars
      BY <3>5 DEF vars, chainVars
    <3> QED BY <1>5, <3>1, <3>2, <3>3, <3>4, <3>5 DEF Next
  <2> QED BY <1>2, <1>5, <2>1
<1> QED BY <1>1, <1>3, <1>4, <1>5, DisclosingSteps

\* The strengthening is inductive.
LEMMA FinalInvariant == DelayCoversReorgs /\ Spec => [](Typed /\ FinalInv)
<1>1. DelayCoversReorgs /\ Init => FinalInv
  <2> SUFFICES ASSUME DelayCoversReorgs, Init PROVE FinalInv
    OBVIOUS
  <2>1. /\ last_safe_block_processed = 0 /\ outgoing = << >> /\ channel = << >>
        /\ worker = [w \in Worker |-> Idle] /\ tasks = {} /\ disclosed = {}
        /\ highest = InitialHead
    BY DEF Init
  <2>2. \A w \in Worker : worker[w].ranges = << >> /\ worker[w].events = << >>
    BY <2>1, IdleTyped
  <2>3. Range(outgoing) \cup pendingRanges = {}
    BY <2>1, <2>2, FewElements, AllRanges
  <2>4. takenEvents = {}
    BY <2>1, <2>2, FewElements, AllEvents
  <2>5. safeBlock(last_safe_block_processed)
    BY <2>1, KeeperAssumption DEF safeBlock
  <2> QED BY <2>1, <2>3, <2>4, <2>5
          DEF FinalInv, RangesSafe, EventsSafe, DisclosedSafe
<1>2. Typed /\ FinalInv /\ [Next]_vars => FinalInv'
  <2> SUFFICES ASSUME ChainTyped, ScanTyped, TasksTyped, FinalInv, [Next]_vars
               PROVE  FinalInv'
    BY DEF Typed
  <2>1. DelayCoversReorgs /\ RangesSafe /\ EventsSafe /\ DisclosedSafe
    BY DEF FinalInv
  <2>2. RangesSafe' /\ EventsSafe' /\ DisclosedSafe'
    BY <2>1, RangesStep, EventsStep, DisclosedStep
  <2> QED BY <2>1, <2>2 DEF FinalInv, DelayCoversReorgs
<1> QED BY <1>1, <1>2, InitTyped, NextTyped, PTL DEF Spec

\* When the reveal delay is at least as deep as the reorgs of the chain, no
\* reorg takes back a request whose element, or that of a later number, the
\* keeper published: the number stays with the user it was disclosed for.
THEOREM NumbersFinal == DelayCoversReorgs /\ Spec => []DisclosedNumbersFinal
<1>1. Typed /\ FinalInv => DisclosedNumbersFinal
  BY FinalImplied DEF Typed, FinalInv
<1> QED BY <1>1, FinalInvariant, PTL

-----------------------------------------------------------------------------
(* No request is skipped                                                    *)

\* The provider is alone on its contract, and the delay covers the reorgs and
\* the lag of the RPC nodes together.
OneProvider == OtherProvider = {}
DelayCoversLag == reveal_delay_blocks >= ReorgDepth + MaxLag

requestsOf(b) == {i \in 1..b : hasRequest(i)}

RequestsBounded == Cardinality(requestsOf(Len(chain))) <= MaxRequest

\* A range that is being sent starts where the watcher is, or before.
OutgoingFollows ==
  outgoing # << >> => running /\ outgoing[1].from <= last_safe_block_processed

\* The converse of TakenIsCached: a number in the cache has a task.
CachedIsTaken ==
  \A n \in fulfilled_requests_cache : <<Us, n>> \in Event /\ spawned[<<Us, n>>] > 0

\* What makes NoRequestSkipped inductive, with FinalInv.
SkipInv ==
  /\ OneProvider /\ DelayCoversLag
  /\ RequestsBounded /\ OutgoingFollows /\ CachedIsTaken
  /\ NoRequestSkipped

\* Requests can be counted.
LEMMA RequestsOfCounted ==
  ASSUME NEW k \in Int
  PROVE  IsFiniteSet(requestsOf(k)) /\ Cardinality(requestsOf(k)) \in Nat
<1>1. IsFiniteSet(1..k)
  BY FS_Interval
<1>2. requestsOf(k) \in SUBSET (1..k)
  BY DEF requestsOf
<1> QED BY <1>1, <1>2, FS_Subset, FS_CardinalityType

\* The bound on the requests holds for every chain.
LEMMA BoundedStep ==
  ASSUME ChainTyped, RequestsBounded, ChainNext
  PROVE  RequestsBounded'
<1> DEFINE L == Len(chain)
           R == requestsOf(L)
<1>1. L \in Nat /\ IsFiniteSet(R) /\ Cardinality(R) \in Nat /\ Cardinality(R) <= MaxRequest
  BY RequestsOfCounted DEF ChainTyped, RequestsBounded
<1>2. ASSUME NEW block \in Block, addBlock(block),
             mempool' \subseteq Tx, receipts' \subseteq Tx,
             block.request.user = NoUser \/ Cardinality(R) < MaxRequest
      PROVE  RequestsBounded'
  <2>1. /\ Len(chain') = L + 1 /\ \A b \in 1..L : chain'[b] = chain[b]
        /\ chain'[L + 1] = block
    BY <1>2, AddBlockTyped
  <2>2. requestsOf(Len(chain))' = R \cup (IF block.request.user = NoUser THEN {} ELSE {L + 1})
    BY <1>1, <2>1 DEF requestsOf, hasRequest
  <2> HIDE DEF R, L
  <2>3. CASE block.request.user = NoUser
    BY <1>1, <2>2, <2>3 DEF RequestsBounded
  <2>4. CASE block.request.user # NoUser
    <3>1. requestsOf(Len(chain))' = R \cup {L + 1} /\ Cardinality(R) < MaxRequest
      BY <1>2, <2>2, <2>4
    <3>2. Cardinality(R \cup {L + 1}) <= Cardinality(R) + 1
      <4>1. Cardinality(R \cup {L + 1}) =
              IF L + 1 \in R THEN Cardinality(R) ELSE Cardinality(R) + 1
        BY <1>1, FS_AddElement
      <4> QED BY <1>1, <4>1
    <3>3. Cardinality(R \cup {L + 1}) <= MaxRequest
      <4>1. Cardinality(R \cup {L + 1}) \in Nat
        BY <1>1, FS_AddElement, FS_CardinalityType
      <4> QED BY <1>1, <3>1, <3>2, <4>1, KeeperAssumption
    <3> QED BY <3>1, <3>3 DEF RequestsBounded
  <2> QED BY <2>3, <2>4
<1>3. mempool \subseteq Tx /\ receipts \subseteq Tx
  BY DEF ChainTyped
<1>4. CASE \E p \in Provider, user \in User : NewRequest(p, user)
  <2>1. PICK p \in Provider, user \in User : NewRequest(p, user)
    BY <1>4
  <2> DEFINE block == [EmptyBlock EXCEPT !.request = [provider |-> p, user |-> user]]
  <2>2. /\ block \in Block /\ addBlock(block) /\ mempool' = mempool /\ receipts' = receipts
        /\ Cardinality(R) < MaxRequest
    BY <2>1, NewBlocksTyped DEF NewRequest, requestsOf
  <2> HIDE DEF block, R
  <2> QED BY <2>2, <1>2, <1>3
<1>5. EmptyBlock \in Block /\ EmptyBlock.request.user = NoUser
  BY NewBlocksTyped DEF EmptyBlock, NoRequest
<1>6. CASE NewEmptyBlock
  <2>1. addBlock(EmptyBlock) /\ mempool' = mempool /\ receipts' = receipts
    BY <1>6 DEF NewEmptyBlock
  <2> HIDE DEF R
  <2> QED BY <2>1, <1>2, <1>3, <1>5
<1>7. CASE \E tx \in mempool : MineTx(tx) \/ RevertTx(tx)
  <2>1. PICK tx \in mempool : MineTx(tx) \/ RevertTx(tx)
    BY <1>7
  <2>2. tx \in Tx /\ mempool' \subseteq Tx /\ receipts' \subseteq Tx
    BY <1>3, <2>1 DEF MineTx, RevertTx, mine
  <2>3. effect(EmptyBlock, tx) \in Block /\ effect(EmptyBlock, tx).request.user = NoUser
    BY <2>2, NewBlocksTyped DEF effect, EmptyBlock, NoRequest
  <2> HIDE DEF R
  <2>4. CASE MineTx(tx)
    BY <2>2, <2>3, <2>4, <1>2 DEF MineTx
  <2>5. CASE RevertTx(tx)
    BY <2>2, <2>5, <1>2, <1>5 DEF RevertTx
  <2> QED BY <2>1, <2>4, <2>5
<1>8. CASE \E tx \in mempool : DropTx(tx)
  BY <1>8 DEF DropTx, RequestsBounded, requestsOf, hasRequest
<1>9. CASE \E length \in 0..Len(chain) : Reorg(length)
  <2>1. PICK length \in 0..Len(chain) : Reorg(length)
    BY <1>9
  <2>2. Len(chain') = length /\ \A b \in 1..length : chain'[b] = chain[b]
    BY <2>1, ReorgTyped
  <2>3. requestsOf(Len(chain))' \in SUBSET R
    BY <1>1, <2>2 DEF requestsOf, hasRequest
  <2> HIDE DEF R, L
  <2>4. /\ Cardinality(requestsOf(Len(chain))') <= Cardinality(R)
        /\ Cardinality(requestsOf(Len(chain))') \in Nat
    BY <1>1, <2>3, FS_Subset, FS_CardinalityType
  <2> QED BY <1>1, <2>4, KeeperAssumption DEF RequestsBounded
<1> QED BY <1>4, <1>6, <1>7, <1>8, <1>9 DEF ChainNext

\* A request of ours has a number that spawned counts.
LEMMA NumberInBounds ==
  ASSUME ChainTyped, RequestsBounded, NEW b \in 1..Len(chain), ours(b)
  PROVE  <<Us, eventAt(b).sequence_number>> \in Event
<1> DEFINE L == Len(chain)
<1>1. L \in Nat /\ IsFiniteSet(requestsOf(L)) /\ Cardinality(requestsOf(L)) \in Nat
      /\ Cardinality(requestsOf(L)) <= MaxRequest
  BY RequestsOfCounted DEF ChainTyped, RequestsBounded
<1>2. requestBlocks(Us, L) \in SUBSET requestsOf(L)
  BY DEF requestBlocks, requestsOf
<1>3. Cardinality(requestBlocks(Us, L)) <= Cardinality(requestsOf(L))
  BY <1>1, <1>2, FS_Subset
<1>4. Cardinality(requestBlocks(Us, L)) \in Nat
  BY <1>1, RequestsCounted
<1>5. eventAt(b).sequence_number \in 1..Cardinality(requestBlocks(Us, L))
  BY <1>1, Numbering
<1>6. eventAt(b).sequence_number \in 1..MaxRequest
  <2> HIDE DEF L
  <2> QED BY <1>1, <1>3, <1>4, <1>5, KeeperAssumption
<1> QED BY <1>6 DEF Event, Provider

\* An event of the only provider is that of one of our requests.
LEMMA TakenEventOurs ==
  ASSUME ChainTyped, OneProvider, RequestsBounded, EventsSafe, NEW e \in takenEvents
  PROVE  e.provider = Us /\ <<Us, e.sequence_number>> \in Event
<1>1. PICK b \in 1..Len(chain) : hasRequest(b) /\ eventAt(b) = e
  BY DEF EventsSafe
<1>2. chain[b].request.provider = Us
  BY BlockTyped DEF Provider, OneProvider
<1>3. ours(b)
  BY <1>1, <1>2 DEF ours
<1>4. e.provider = Us
  BY <1>1, <1>2 DEF eventAt
<1> QED BY <1>1, <1>3, <1>4, NumberInBounds

\* A number enters the cache together with its task.
LEMMA CachedStep ==
  ASSUME ChainTyped, ScanTyped, TasksTyped, OneProvider, RequestsBounded, EventsSafe,
         CachedIsTaken, [Next]_vars
  PROVE  /\ CachedIsTaken'
         /\ ~Crash => \A k \in Event : spawned[k] > 0 => spawned'[k] > 0
<1>1. CASE Crash
  BY <1>1 DEF Crash, CachedIsTaken
<1>2. ASSUME NEW w \in Worker, handleEvent(w)
      PROVE  CachedIsTaken' /\ \A k \in Event : spawned[k] > 0 => spawned'[k] > 0
  <2> DEFINE event == firstEvent(w)
             n == event.sequence_number
             key == <<Us, n>>
  <2>1. event \in takenEvents
    BY <1>2, HandleTyped, AllEvents
  <2>2. event.provider = Us /\ key \in Event
    BY <2>1, TakenEventOurs
  <2>3. spawned \in [Event -> Nat] /\ fulfilled_requests_cache' = fulfilled_requests_cache \cup {n}
    BY <1>2 DEF ScanTyped, handleEvent, insert, firstEvent
  <2>4. CASE n \in fulfilled_requests_cache
    <3>1. spawned' = spawned
      BY <1>2, <2>4 DEF handleEvent, firstEvent
    <3> QED BY <2>3, <2>4, <3>1 DEF CachedIsTaken
  <2>5. CASE n \notin fulfilled_requests_cache
    <3>1. spawned' = [spawned EXCEPT ![key] = @ + 1]
      BY <1>2, <2>2, <2>5 DEF handleEvent, firstEvent
    <3> HIDE DEF n, event
    <3>2. \A m : <<Us, m>> # key => m # n
      OBVIOUS
    <3> HIDE DEF key
    <3>3. spawned'[key] > 0 /\ \A k \in Event : spawned[k] > 0 => spawned'[k] > 0
      BY <2>2, <2>3, <3>1
    <3>4. ASSUME NEW m \in fulfilled_requests_cache'
          PROVE  <<Us, m>> \in Event /\ spawned'[<<Us, m>>] > 0
      <4>1. CASE m = n
        BY <4>1, <2>2, <3>3 DEF key
      <4>2. CASE m # n
        <5>1. <<Us, m>> \in Event /\ spawned[<<Us, m>>] > 0
          BY <4>2, <2>3, <3>4 DEF CachedIsTaken
        <5>2. <<Us, m>> # key
          BY <4>2 DEF key
        <5>3. spawned'[<<Us, m>>] = spawned[<<Us, m>>]
          BY <2>2, <2>3, <3>1, <5>1, <5>2
        <5> QED BY <5>1, <5>3
      <4> QED BY <4>1, <4>2
    <3> QED BY <3>3, <3>4 DEF CachedIsTaken
  <2> QED BY <2>4, <2>5
<1>3. CASE ~Crash /\ ~(\E w \in Worker : handleEvent(w))
  BY <1>3, OthersTaken DEF CachedIsTaken
<1> QED BY <1>1, <1>2, <1>3

\* The request in block b has its task, or is on its way to one.
onItsWay(b) ==
  \/ spawned[<<Us, eventAt(b).sequence_number>>] > 0
  \/ \E range \in pendingRanges : b \in blocksOf(range)
  \/ \E w \in Worker : eventAt(b) \in Range(worker[w].events)

\* The pending ranges, one by one.
LEMMA AllPending ==
  /\ \A r : r \in pendingRanges <=>
       r \in Range(channel) \/ \E w \in Worker : r \in Range(worker[w].ranges)
  /\ \A r : r \in pendingRanges' <=>
       r \in Range(channel') \/ \E w \in Worker : r \in Range(worker'[w].ranges)
  BY DEF pendingRanges

\* A fetched batch has the events of all its blocks: the reorgs and the lag
\* together leave every node a view that reaches the safe blocks.
LEMMA SafeInView ==
  ASSUME ChainTyped, DelayCoversLag, NEW view \in Views, NEW b \in Nat, safeBlock(b)
  PROVE  b <= view
<1>1. view \in Nat /\ Len(chain) \in Nat /\ view + MaxLag >= Len(chain)
  BY ViewSafe
<1>2. /\ highest \in Nat /\ highest <= Len(chain) + ReorgDepth
      /\ reveal_delay_blocks \in Nat /\ ReorgDepth \in Nat /\ MaxLag \in Nat
  BY KeeperAssumption DEF ChainTyped, ChainLength
<1> QED BY <1>1, <1>2 DEF safeBlock, DelayCoversLag

\* A request that is on its way stays there while the chain keeps its block,
\* whatever thread moves; only a crash forgets it.
LEMMA StaysOnItsWay ==
  ASSUME ChainTyped, ScanTyped, TasksTyped, FinalInv, OneProvider, DelayCoversLag,
         RequestsBounded, CachedIsTaken, [Next]_vars, ~Crash, ~StartNext, ~ChainNext,
         NEW b \in 1..Len(chain), safeBlock(b), ours(b), onItsWay(b)
  PROVE  onItsWay(b)'
<1> DEFINE e == eventAt(b)
           k == <<Us, e.sequence_number>>
<1>1. RangesSafe /\ EventsSafe /\ k \in Event
  BY NumberInBounds DEF FinalInv
<1>2. /\ CachedIsTaken'
      /\ spawned[k] > 0 => spawned'[k] > 0
  BY <1>1, CachedStep
<1>3. chain' = chain
  <2>1. CASE TaskNext
    BY <2>1, TaskStep
  <2>2. CASE UpdaterNext
    BY <2>2, UpdaterStep
  <2>3. CASE WatcherNext \/ receiveRange
    BY <2>3 DEF WatcherNext, sendRange, watch_blocks, receiveRange, chainVars
  <2>4. CASE \E w \in Worker : WorkerNext(w)
    BY <2>4 DEF WorkerNext, fetchBatch, handleEvent, chainVars
  <2>5. CASE UNCHANGED vars
    BY <2>5 DEF vars, chainVars
  <2> QED BY <2>1, <2>2, <2>3, <2>4, <2>5 DEF Next
<1>4. eventAt(b)' = e
  BY <1>3 DEF eventAt, requestBlocks, hasRequest
<1>5. onItsWay(b)' <=> \/ spawned'[k] > 0
                       \/ \E range \in pendingRanges' : b \in blocksOf(range)
                       \/ \E w \in Worker : e \in Range(worker'[w].events)
  BY <1>4 DEF onItsWay, blocksOf
<1>6. \/ spawned[k] > 0
      \/ \E range \in pendingRanges : b \in blocksOf(range)
      \/ \E w \in Worker : e \in Range(worker[w].events)
  BY DEF onItsWay
<1> HIDE DEF e, k
<1>7. CASE UNCHANGED <<channel, worker>>
  <2>1. pendingRanges' = pendingRanges
    BY <1>7, AllPending
  <2> QED BY <1>2, <1>5, <1>6, <1>7, <2>1
<1>8. CASE TaskNext \/ UpdaterNext \/ UNCHANGED vars \/ \E view \in Views : watch_blocks(view)
  <2>1. UNCHANGED <<channel, worker>>
    <3>1. CASE TaskNext
      BY <3>1, TaskStep DEF scanVars
    <3>2. CASE UpdaterNext
      BY <3>2, UpdaterStep DEF scanVars
    <3>3. CASE UNCHANGED vars \/ \E view \in Views : watch_blocks(view)
      BY <3>3 DEF vars, scanVars, watch_blocks
    <3> QED BY <1>8, <3>1, <3>2, <3>3
  <2> QED BY <1>7, <2>1
<1>9. CASE sendRange
  <2>1. worker' = worker /\ Range(channel) \subseteq Range(channel')
    BY <1>9, SendTyped DEF sendRange
  <2>2. pendingRanges \subseteq pendingRanges'
    BY <2>1, AllPending
  <2> QED BY <1>2, <1>5, <1>6, <2>1, <2>2
<1>10. CASE receiveRange
  <2>1. /\ Head(channel) \in RangeRecord
        /\ Range(channel) = {Head(channel)} \cup Range(channel')
        /\ worker' = [worker EXCEPT !["new_blocks"] =
                        [ranges |-> withDelays(Head(channel)), events |-> << >>]]
        /\ worker["new_blocks"].ranges = << >> /\ worker["new_blocks"].events = << >>
    BY <1>10, ReceiveTyped
  <2>2. worker \in [Worker -> WorkerRecord] /\ "new_blocks" \in Worker
    BY DEF ScanTyped, Worker
  <2>3. /\ worker'["new_blocks"].ranges = withDelays(Head(channel))
        /\ \A v \in Worker \ {"new_blocks"} : worker'[v] = worker[v]
    BY <2>1, <2>2
  <2>4. Head(channel) \in Range(worker'["new_blocks"].ranges)
    BY <2>1, <2>3, WithDelays
  <2>5. /\ \A r : r \notin Range(worker["new_blocks"].ranges)
        /\ \A x : x \notin Range(worker["new_blocks"].events)
    BY <2>1, FewElements
  <2>6. pendingRanges \subseteq pendingRanges'
    BY <2>1, <2>2, <2>3, <2>4, <2>5, AllPending
  <2>7. \A v \in Worker : Range(worker[v].events) \subseteq Range(worker'[v].events)
    BY <2>3, <2>5
  <2> QED BY <1>2, <1>5, <1>6, <2>6, <2>7
<1>11. ASSUME NEW w \in Worker, NEW view \in Views, fetchBatch(w, view)
       PROVE  onItsWay(b)'
  <2>1. /\ firstRange(w) \in RangeRecord /\ batchEnd(w) \in Nat
        /\ Range(worker[w].ranges) = {firstRange(w)} \cup Range(Tail(worker[w].ranges))
        /\ Range(worker'[w].ranges) =
             Range(rest(firstRange(w), batchEnd(w))) \cup Range(Tail(worker[w].ranges))
        /\ worker[w].events = << >>
        /\ Range(worker'[w].events) =
             {eventAt(c) : c \in {c \in 1..view : firstRange(w).from <= c
                                      /\ c <= batchEnd(w) /\ hasRequest(c)}}
        /\ \A v \in Worker \ {w} : worker'[v] = worker[v]
    BY <1>11, FetchTyped
  <2>2. channel' = channel
    BY <1>11 DEF fetchBatch
  <2>3. b \in Nat /\ b \in 1..view
    <3>1. b \in Nat /\ view \in Nat
      BY ViewSafe DEF ChainTyped
    <3> QED BY <3>1, SafeInView
  <2>4. CASE \E v \in Worker : e \in Range(worker[v].events)
    <3>1. \A x : x \notin Range(worker[w].events)
      BY <2>1, FewElements
    <3> QED BY <2>1, <2>4, <3>1, <1>5
  <2>5. ASSUME NEW range \in pendingRanges, b \in blocksOf(range)
        PROVE  onItsWay(b)'
    <3>1. CASE range = firstRange(w)
      <4>1. firstRange(w).from \in Nat /\ firstRange(w).to \in Nat
        BY <2>1 DEF RangeRecord
      <4>2. firstRange(w).from <= b /\ b <= firstRange(w).to
        BY <2>5, <3>1, <4>1 DEF blocksOf
      <4>3. CASE b <= batchEnd(w)
        <5>1. e \in Range(worker'[w].events)
          BY <2>1, <2>3, <4>2, <4>3 DEF ours, e
        <5> QED BY <5>1, <1>5
      <4>4. CASE batchEnd(w) < b
        <5>1. PICK r \in Range(rest(firstRange(w), batchEnd(w))) : b \in blocksOf(r)
          BY <2>1, <2>3, <4>2, <4>4, Rest
        <5>2. r \in pendingRanges'
          BY <2>1, <5>1, AllPending
        <5> QED BY <5>1, <5>2, <1>5
      <4> QED BY <2>1, <2>3, <4>3, <4>4
    <3>2. CASE range # firstRange(w)
      <4>1. range \in pendingRanges'
        BY <2>1, <2>2, <3>2, AllPending
      <4> QED BY <2>5, <4>1, <1>5
    <3> QED BY <3>1, <3>2
  <2> QED BY <1>2, <1>5, <1>6, <2>4, <2>5
<1>12. ASSUME NEW w \in Worker, handleEvent(w) PROVE onItsWay(b)'
  <2>1. /\ Range(worker[w].events) = {firstEvent(w)} \cup Range(worker'[w].events)
        /\ worker'[w].ranges = worker[w].ranges
        /\ \A v \in Worker \ {w} : worker'[v] = worker[v]
    BY <1>12, HandleTyped
  <2>2. channel' = channel /\ firstEvent(w).sequence_number \in fulfilled_requests_cache'
    BY <1>12 DEF handleEvent, insert, firstEvent
  <2>3. pendingRanges' = pendingRanges
    <3>1. \A v \in Worker : worker'[v].ranges = worker[v].ranges
      BY <2>1
    <3> QED BY <2>2, <3>1, AllPending
  <2>4. CASE e = firstEvent(w)
    <3>1. spawned'[k] > 0
      BY <2>2, <2>4, <1>2 DEF CachedIsTaken, k
    <3> QED BY <3>1, <1>5
  <2>5. CASE e # firstEvent(w)
    BY <1>2, <1>5, <1>6, <2>1, <2>3, <2>5
  <2> QED BY <2>4, <2>5
<1> QED BY <1>8, <1>9, <1>10, <1>11, <1>12 DEF Next, WatcherNext, WorkerNext

\* A range is made by a running watcher, and sent before it makes another.
LEMMA OutgoingStep ==
  ASSUME ChainTyped, ScanTyped, TasksTyped, OutgoingFollows, [Next]_vars
  PROVE  OutgoingFollows'
<1>1. CASE \E view \in Views : watch_blocks(view)
  <2>1. running' = running /\ running
    BY <1>1 DEF watch_blocks, processVars
  <2>2. /\ outgoing'[1].from <= last_safe_block_processed
        /\ last_safe_block_processed' = last_safe_block_processed
    BY <1>1, WatchTyped
  <2> QED BY <2>1, <2>2 DEF OutgoingFollows
<1>2. CASE sendRange \/ Crash
  BY <1>2 DEF sendRange, Crash, OutgoingFollows
<1>3. CASE StartNext
  BY <1>3 DEF StartNext, Start, OutgoingFollows
<1>4. ASSUME UNCHANGED <<outgoing, running, last_safe_block_processed>> PROVE OutgoingFollows'
  BY <1>4 DEF OutgoingFollows
<1>5. CASE ChainNext
  BY <1>4, <1>5, ChainStep DEF scanVars, processVars
<1>6. CASE TaskNext
  BY <1>4, <1>6, TaskStep DEF scanVars, processVars
<1>7. CASE UpdaterNext
  BY <1>4, <1>7, UpdaterStep DEF scanVars, processVars
<1>8. CASE receiveRange \/ \E w \in Worker : WorkerNext(w)
  BY <1>4, <1>8 DEF receiveRange, WorkerNext, fetchBatch, handleEvent, processVars
<1>9. CASE UNCHANGED vars
  BY <1>4, <1>9 DEF vars, scanVars, processVars
<1> QED BY <1>1, <1>2, <1>3, <1>5, <1>6, <1>7, <1>8, <1>9 DEF Next, WatcherNext

\* Every step but the start of a process keeps all requests on their way that
\* the watcher had passed; the one that moves the watcher on hands over the
\* blocks in between.
LEMMA SkippedStep ==
  ASSUME ChainTyped, ScanTyped, TasksTyped, FinalInv, SkipInv, [Next]_vars
  PROVE  NoRequestSkipped'
<1>1. /\ DelayCoversReorgs /\ RangesSafe /\ OneProvider /\ DelayCoversLag
      /\ RequestsBounded /\ OutgoingFollows /\ CachedIsTaken
  BY DEF FinalInv, SkipInv
<1>2. running => \A b \in backlogFrom..last_safe_block_processed :
        b \in 1..Len(chain) /\ ours(b) => onItsWay(b)
  BY DEF SkipInv, NoRequestSkipped, onItsWay
<1>3. last_safe_block_processed \in Nat /\ backlogFrom \in Nat /\ Len(chain) \in Nat
      /\ safeBlock(last_safe_block_processed) /\ highest \in Nat
  BY <1>1 DEF ScanTyped, ChainTyped, RangesSafe
<1>4. \A b \in Nat : b <= last_safe_block_processed => safeBlock(b)
  <2>1. reveal_delay_blocks \in Nat
    BY KeeperAssumption
  <2> QED BY <1>3, <2>1 DEF safeBlock
<1>5. SUFFICES ASSUME running', NEW b \in backlogFrom'..last_safe_block_processed',
                      b \in 1..Len(chain'), ours(b)'
               PROVE  onItsWay(b)'
  BY DEF NoRequestSkipped, onItsWay
<1>6. ~Crash
  BY <1>5 DEF Crash
<1>7. CASE StartNext
  <2>1. PICK view \in Views : Start(view)
    BY <1>7 DEF StartNext
  <2> DEFINE safe == get_latest_safe_block(view)
             backlog == BlockRange(saturating_sub(safe, BACKLOG_RANGE), safe)
  <2>2. safe \in Nat
    BY ViewSafe
  <2>3. /\ backlog \in RangeRecord /\ backlog.to = safe
        /\ blocksOf(backlog) = backlog.from..safe
    BY <2>2, KeeperAssumption DEF BlockRange, RangeRecord, saturating_sub, blocksOf
  <2>4. /\ worker' = [new_blocks |-> Idle,
                      backlog |-> [Idle EXCEPT !.ranges = withDelays(backlog)]]
        /\ last_safe_block_processed' = safe /\ backlogFrom' = backlog.from
    BY <2>1 DEF Start
  <2> HIDE DEF safe, backlog
  <2>5. worker'["backlog"].ranges = withDelays(backlog) /\ "backlog" \in Worker
    BY <2>4 DEF Idle, Worker
  <2>6. backlog \in pendingRanges'
    <3>1. backlog \in Range(withDelays(backlog))
      BY <2>3, WithDelays
    <3> QED BY <3>1, <2>5, AllPending
  <2>7. b \in blocksOf(backlog)
    BY <2>3, <2>4, <1>5
  <2> QED BY <2>6, <2>7 DEF onItsWay, blocksOf
<1>8. CASE ChainNext
  <2>1. UNCHANGED <<running, backlogFrom, last_safe_block_processed, spawned, channel,
                    worker>>
    BY <1>8, ChainStep DEF scanVars, processVars
  <2>2. b \in Nat /\ b \in 1..Len(chain) /\ safeBlock(b)
    <3>1. b \in Nat \ {0} /\ b <= last_safe_block_processed
      BY <1>3, <1>5, <2>1
    <3>2. safeBlock(b)
      BY <3>1, <1>4
    <3>3. b <= Len(chain)
      <4>1. /\ highest <= Len(chain) + ReorgDepth /\ ReorgDepth \in Nat
            /\ reveal_delay_blocks \in Nat
        BY KeeperAssumption DEF ChainTyped, ChainLength
      <4> QED BY <1>1, <1>3, <3>1, <3>2, <4>1 DEF safeBlock, DelayCoversReorgs
    <3> QED BY <1>3, <3>1, <3>2, <3>3
  <2>3. ours(b) /\ eventAt(b)' = eventAt(b)
    BY <1>1, <1>5, <1>8, <2>2, SafeRequestsStay
  <2>4. onItsWay(b)
    BY <1>2, <1>5, <2>1, <2>2, <2>3
  <2> QED BY <2>1, <2>3, <2>4 DEF onItsWay, pendingRanges, blocksOf
<1>9. CASE ~StartNext /\ ~ChainNext
  <2>1. UNCHANGED <<chain, highest, running, backlogFrom>>
    <3>1. CASE TaskNext
      BY <3>1, TaskStep DEF scanVars, processVars
    <3>2. CASE UpdaterNext
      BY <3>2, UpdaterStep DEF scanVars, processVars
    <3>3. CASE WatcherNext \/ receiveRange
      BY <3>3 DEF WatcherNext, sendRange, watch_blocks, receiveRange, chainVars, processVars
    <3>4. CASE \E w \in Worker : WorkerNext(w)
      BY <3>4 DEF WorkerNext, fetchBatch, handleEvent, chainVars, processVars
    <3>5. CASE UNCHANGED vars
      BY <3>5 DEF vars, chainVars, scanVars, processVars
    <3> QED BY <1>6, <1>9, <3>1, <3>2, <3>3, <3>4, <3>5 DEF Next
  <2>2. b \in 1..Len(chain) /\ b \in Nat /\ ours(b) /\ backlogFrom <= b
    BY <1>3, <1>5, <2>1 DEF ours, hasRequest
  <2>3. CASE b <= last_safe_block_processed
    <3>1. onItsWay(b) /\ safeBlock(b)
      BY <1>2, <1>3, <1>4, <1>5, <2>1, <2>2, <2>3
    <3> QED BY <1>1, <1>6, <1>9, <2>2, <3>1, StaysOnItsWay
  <2>4. CASE ~(b <= last_safe_block_processed)
    <3>1. last_safe_block_processed' # last_safe_block_processed
      BY <1>3, <1>5, <2>1, <2>2, <2>4
    <3>2. sendRange
      <4>1. CASE TaskNext
        BY <3>1, <4>1, TaskStep DEF scanVars
      <4>2. CASE UpdaterNext
        BY <3>1, <4>2, UpdaterStep DEF scanVars
      <4>3. CASE WatcherNext \/ receiveRange
        BY <3>1, <4>3 DEF WatcherNext, watch_blocks, receiveRange
      <4>4. CASE \E w \in Worker : WorkerNext(w)
        BY <3>1, <4>4 DEF WorkerNext, fetchBatch, handleEvent
      <4>5. CASE UNCHANGED vars
        BY <3>1, <4>5 DEF vars, scanVars
      <4> QED BY <1>6, <1>9, <4>1, <4>2, <4>3, <4>4, <4>5 DEF Next
    <3>3. /\ outgoing[1] \in RangeRecord /\ outgoing[1] \in Range(channel')
          /\ outgoing # << >> /\ last_safe_block_processed' = outgoing[1].to
      BY <3>2, SendTyped DEF sendRange
    <3>4. outgoing[1].from <= last_safe_block_processed
      BY <1>1, <3>3 DEF OutgoingFollows
    <3>5. b \in blocksOf(outgoing[1])
      <4>1. outgoing[1].from \in Nat /\ outgoing[1].to \in Nat
        BY <3>3 DEF RangeRecord
      <4> QED BY <1>3, <1>5, <2>1, <2>2, <2>4, <3>3, <3>4, <4>1 DEF blocksOf
    <3>6. outgoing[1] \in pendingRanges'
      BY <3>3, AllPending
    <3> QED BY <3>5, <3>6 DEF onItsWay, blocksOf
  <2> QED BY <2>3, <2>4
<1> QED BY <1>7, <1>8, <1>9

\* When our provider is alone on its contract and the delay covers reorgs and
\* lag, no request in the blocks the watcher has passed is lost between the
\* threads, for any ranges, batches, delays, channel and crashes.
THEOREM NothingSkipped == OneProvider /\ DelayCoversLag /\ Spec => []NoRequestSkipped
<1>1. DelayCoversLag => DelayCoversReorgs
  BY KeeperAssumption DEF DelayCoversLag, DelayCoversReorgs
<1>2. OneProvider /\ DelayCoversLag /\ Init => SkipInv
  <2> SUFFICES ASSUME OneProvider, DelayCoversLag, Init PROVE SkipInv
    OBVIOUS
  <2>1. RequestsBounded
    <3>1. InitialHead \in Nat /\ chain = [b \in 1..InitialHead |-> EmptyBlock]
      BY KeeperAssumption DEF Init
    <3>2. Len(chain) = InitialHead
      BY <3>1
    <3>3. requestsOf(Len(chain)) = {}
      BY <3>1, <3>2 DEF requestsOf, hasRequest, EmptyBlock, NoRequest
    <3> QED BY <3>3, FS_EmptySet, KeeperAssumption DEF RequestsBounded
  <2>2. OutgoingFollows /\ CachedIsTaken /\ NoRequestSkipped
    BY DEF Init, OutgoingFollows, CachedIsTaken, NoRequestSkipped
  <2> QED BY <2>1, <2>2 DEF SkipInv
<1>3. Typed /\ FinalInv /\ SkipInv /\ [Next]_vars => SkipInv'
  <2> SUFFICES ASSUME ChainTyped, ScanTyped, TasksTyped, FinalInv, SkipInv, [Next]_vars
               PROVE  SkipInv'
    BY DEF Typed
  <2>1. /\ OneProvider /\ DelayCoversLag /\ EventsSafe
        /\ RequestsBounded /\ OutgoingFollows /\ CachedIsTaken
    BY DEF FinalInv, SkipInv
  <2>2. RequestsBounded'
    <3>1. CASE ChainNext
      BY <2>1, <3>1, BoundedStep
    <3>2. CASE ~ChainNext
      <4>1. chain' = chain
        <5>1. CASE TaskNext
          BY <5>1, TaskStep
        <5>2. CASE UpdaterNext
          BY <5>2, UpdaterStep
        <5>3. CASE StartNext \/ Crash \/ WatcherNext \/ receiveRange
          BY <5>3 DEF StartNext, Start, Crash, WatcherNext, sendRange, watch_blocks,
                      receiveRange, chainVars
        <5>4. CASE \E w \in Worker : WorkerNext(w)
          BY <5>4 DEF WorkerNext, fetchBatch, handleEvent, chainVars
        <5>5. CASE UNCHANGED vars
          BY <5>5 DEF vars, chainVars
        <5> QED BY <3>2, <5>1, <5>2, <5>3, <5>4, <5>5 DEF Next
      <4> QED BY <2>1, <4>1 DEF RequestsBounded, requestsOf, hasRequest
    <3> QED BY <3>1, <3>2
  <2>3. OutgoingFollows' /\ CachedIsTaken' /\ NoRequestSkipped'
    BY <2>1, OutgoingStep, CachedStep, SkippedStep
  <2> QED BY <2>1, <2>2, <2>3 DEF SkipInv, OneProvider, DelayCoversLag
<1>4. SkipInv => NoRequestSkipped
  BY DEF SkipInv
<1> QED BY <1>1, <1>2, <1>3, <1>4, FinalInvariant, PTL DEF Spec
=============================================================================
