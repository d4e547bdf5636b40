--------------------------- MODULE SendersProofs ---------------------------
(***************************************************************************)
(* Proofs about the Aptos and the Sui pusher: for any number of concurrent *)
(* pushes, coins, chunks and failures, the lock of the sequence number is  *)
(* held by exactly one fetch, no gas coin is lost or used twice, and the   *)
(* gas pool is made from every coin that can be used.                      *)
(***************************************************************************)
EXTENDS MCSenders, FiniteSetTheorems, TLAPS

\* The cardinality that an instance counts with is the library's.
LEMMA SameCardinality ==
  ASSUME NEW S
  PROVE  Aptos!Cardinality(S) = Cardinality(S) /\ Sui!Cardinality(S) = Cardinality(S)
  BY DEF Aptos!Cardinality, Sui!Cardinality, Cardinality

-----------------------------------------------------------------------------
(* AptosPricePusher: the lock of the sequence number *)

fetching == {p \in Push : pushes[p].pc = "fetch"}

\* The push that holds the lock is the only one that fetches.  A lock that
\* nobody holds would stop the numbering for good.
AptosInv ==
  /\ pushes = [p \in Push |-> pushes[p]]
  /\ sequenceNumberLocked \in BOOLEAN
  /\ sequenceNumberLocked => \E p \in Push : fetching = {p}
  /\ ~sequenceNumberLocked => fetching = {}

\* No push fetches at the start.
LEMMA AptosInit == Aptos!Init => AptosInv
<1> SUFFICES ASSUME Aptos!Init PROVE AptosInv
  OBVIOUS
<1>1. pushes = [p \in Push |-> Aptos!Idle] /\ sequenceNumberLocked = FALSE
  BY DEF Aptos!Init
<1>2. Aptos!Idle.pc = "idle"
  BY DEF Aptos!Idle
<1>3. fetching = {}
  BY <1>1, <1>2 DEF fetching
<1> QED BY <1>1, <1>3 DEF AptosInv

\* A step of a push that neither starts nor ends a fetch.
LEMMA AptosOtherStep ==
  ASSUME AptosInv, NEW p \in Push, NEW pc, NEW seq,
         pushes[p].pc # "fetch", pc # "fetch", Aptos!moveTo(p, pc, seq),
         UNCHANGED sequenceNumberLocked
  PROVE  AptosInv'
<1>1. pushes' = [pushes EXCEPT ![p] = [pc |-> pc, seq |-> seq]]
  BY DEF Aptos!moveTo
<1>2. fetching' = fetching
  BY <1>1 DEF AptosInv, fetching
<1> QED BY <1>1, <1>2 DEF AptosInv

\* The end of the process releases the lock and drops the pushes.
LEMMA AptosExit == Aptos!exit => AptosInv'
<1> SUFFICES ASSUME Aptos!exit PROVE AptosInv'
  OBVIOUS
<1>1. pushes' = [p \in Push |-> Aptos!Idle] /\ sequenceNumberLocked' = FALSE
  BY DEF Aptos!exit
<1>2. Aptos!Idle.pc = "idle"
  BY DEF Aptos!Idle
<1>3. fetching' = {}
  BY <1>1, <1>2 DEF fetching
<1> QED BY <1>1, <1>3 DEF AptosInv

\* Every step of the pusher and of its chain keeps the lock in step with
\* the fetch.
LEMMA AptosStep == AptosInv /\ Aptos!Next => AptosInv'
<1> SUFFICES ASSUME AptosInv, Aptos!Next PROVE AptosInv'
  OBVIOUS
<1>1. CASE UNCHANGED <<pushes, sequenceNumberLocked>>
  BY <1>1 DEF AptosInv, fetching
<1>2. ASSUME NEW p \in Push, Aptos!fetchSequenceNumber(p) PROVE AptosInv'
  <2>1. /\ pushes' = [pushes EXCEPT ![p] = [pc |-> "fetch", seq |-> sequence]]
        /\ sequenceNumberLocked' = TRUE /\ ~sequenceNumberLocked
    BY <1>2 DEF Aptos!fetchSequenceNumber, Aptos!moveTo
  <2>2. fetching' = {p}
    BY <2>1 DEF AptosInv, fetching
  <2> QED BY <2>1, <2>2 DEF AptosInv
<1>3. ASSUME NEW p \in Push, Aptos!cacheSequenceNumber(p) PROVE AptosInv'
  <2>1. /\ pushes' = [pushes EXCEPT ![p] =
                        [pc |-> "submit", seq |-> pushes[p].seq]]
        /\ sequenceNumberLocked' = FALSE /\ p \in fetching
    BY <1>3 DEF Aptos!cacheSequenceNumber, Aptos!moveTo, fetching
  <2>2. fetching = {p}
    BY <2>1 DEF AptosInv
  <2>3. fetching' = {}
    BY <2>1, <2>2 DEF AptosInv, fetching
  <2> QED BY <2>1, <2>3 DEF AptosInv
<1>4. ASSUME NEW p \in Push, Aptos!PushStep(p) PROVE AptosInv'
  BY <1>2, <1>3, <1>4, AptosOtherStep
     DEF Aptos!PushStep, Aptos!predictSequenceNumber, Aptos!submitTransaction,
         Aptos!confirm, Aptos!confirmationTimeout
<1>5. ASSUME NEW p \in Push, Aptos!PushFault(p) PROVE AptosInv'
  BY <1>5, AptosExit, AptosOtherStep
     DEF Aptos!PushFault, Aptos!rejectDuringFetch, Aptos!fetchFails,
         Aptos!submitFails, Aptos!executionFails
<1> QED BY <1>1, <1>4, <1>5 DEF Aptos!Next, Aptos!execute, Aptos!lose

\* The lock of AptosPricePusher is held exactly while one push fetches.
THEOREM AptosLockIsOneFetch == Spec => []AptosOneFetch
<1>1. Init => AptosInv
  BY AptosInit DEF Init
<1>2. AptosInv /\ [Next]_vars => AptosInv'
  <2> SUFFICES ASSUME AptosInv, [Next]_vars PROVE AptosInv'
    OBVIOUS
  <2>1. CASE Aptos!Next
    BY <2>1, AptosStep
  <2>2. CASE UNCHANGED aptosVars
    BY <2>2 DEF aptosVars, AptosInv, fetching
  <2> QED BY <2>1, <2>2 DEF Next, InAptos, InInjective, InSui, InFortuna, vars
<1>3. AptosInv => AptosOneFetch
  <2> SUFFICES ASSUME AptosInv PROVE AptosOneFetch
    OBVIOUS
  <2>1. Cardinality(fetching) = IF sequenceNumberLocked THEN 1 ELSE 0
    BY FS_Singleton, FS_EmptySet DEF AptosInv
  <2> QED BY <2>1, SameCardinality DEF AptosOneFetch, Aptos!OneFetch, fetching
<1> QED BY <1>1, <1>2, <1>3, PTL DEF Spec

-----------------------------------------------------------------------------
(* SuiPricePusher: the merge of the wallet's coins *)

Coins == {Wallet[k] : k \in DOMAIN Wallet}
ChunkCount == (Len(Wallet) + ChunkSize - 1) \div ChunkSize
chunk(k) == Sui!ToSet(Sui!gasCoinsChunks[k])

\* A division rounded up bounds its numerator from both sides.
LEMMA RoundedUp ==
  ASSUME NEW n \in Nat, NEW d \in Nat \ {0}
  PROVE  /\ (n + d - 1) \div d \in Nat
         /\ n <= d * ((n + d - 1) \div d)
         /\ d * ((n + d - 1) \div d) < n + d
<1> DEFINE a == n + d - 1
<1>1. a \in Nat /\ d \in Nat /\ d > 0
  OBVIOUS
<1> HIDE DEF a
<1>2. a \div d \in Nat
  BY <1>1
<1>3. d * (a \div d) <= a
  BY <1>1
<1>4. a - d < d * (a \div d)
  BY <1>1
<1>5. d * (a \div d) \in Int
  BY <1>1, <1>2
<1>6. n <= d * (a \div d) /\ d * (a \div d) < n + d
  BY <1>1, <1>3, <1>4, <1>5 DEF a
<1> QED BY <1>2, <1>6 DEF a

\* Every position is in one of the chunks.
LEMMA PositionInChunk ==
  ASSUME NEW n \in Nat, NEW d \in Nat \ {0}, NEW j \in 1..n
  PROVE  \E k \in 1..(n + d - 1) \div d : (k - 1) * d + 1 <= j /\ j <= k * d
<1> DEFINE k == (j + d - 1) \div d
<1>0. j \in Nat
  OBVIOUS
<1>1. k \in Nat /\ j <= d * k /\ d * k < j + d
  BY <1>0, RoundedUp, Zenon
<1> DEFINE m == (n + d - 1) \div d
<1>2. m \in Nat /\ n <= d * m
  BY RoundedUp
<1> HIDE DEF k, m
<1>3. k # 0
  BY <1>1
<1>4. d * (k - 1) = d * k - d
  BY <1>1
<1>5. k <= m
  <2> SUFFICES ASSUME m <= k - 1 PROVE FALSE
    BY <1>1, <1>2
  <2>1. d * m <= d * (k - 1)
    BY <1>1, <1>2
  <2> QED BY <1>1, <1>2, <1>4, <2>1
<1>6. (k - 1) * d = d * (k - 1) /\ k * d = d * k
  BY <1>1
<1>7. (k - 1) * d + 1 <= j /\ j <= k * d
  BY <1>1, <1>4, <1>6
<1>8. k \in 1..m
  BY <1>1, <1>2, <1>3, <1>5
<1> QED BY <1>7, <1>8 DEF m

\* The chunks together hold the coins of the wallet.
LEMMA ChunksCover ==
  /\ Len(Sui!gasCoinsChunks) = ChunkCount /\ ChunkCount \in Nat
  /\ UNION {chunk(k) : k \in 1..ChunkCount} = Coins
<1> DEFINE n == Len(Wallet)
           last(k) == IF k * ChunkSize < n THEN k * ChunkSize ELSE n
<1>w. Wallet \in Seq(Coins) /\ n \in Nat /\ ChunkSize \in Nat \ {0}
  BY SuiAssumption DEF Coins
<1>1. ChunkCount \in Nat
  BY <1>w, RoundedUp DEF ChunkCount
<1>2. Sui!gasCoinsChunks =
        [k \in 1..ChunkCount |->
           SubSeq(Wallet, (k - 1) * ChunkSize + 1, last(k))]
  BY DEF Sui!gasCoinsChunks, Sui!chunkArray, ChunkCount
<1>3. Len(Sui!gasCoinsChunks) = ChunkCount
  BY <1>1, <1>2
<1>4. ASSUME NEW k \in 1..ChunkCount
      PROVE  chunk(k) = {Wallet[j] : j \in (k - 1) * ChunkSize + 1 .. last(k)}
  <2> DEFINE from == (k - 1) * ChunkSize + 1
             c == SubSeq(Wallet, from, last(k))
  <2>1. from \in Nat \ {0} /\ last(k) \in Nat /\ last(k) <= n
    <3>1. k - 1 \in Nat /\ k \in Nat
      BY <1>1
    <3>2. (k - 1) * ChunkSize \in Nat /\ k * ChunkSize \in Nat
      BY <3>1, <1>w
    <3> QED BY <3>2, <1>w
  <2>2. chunk(k) = {c[j] : j \in DOMAIN c}
    BY <1>2 DEF chunk, Sui!ToSet
  <2> HIDE DEF from, last, n
  <2>3. c = [j \in 1..(last(k) - from + 1) |-> Wallet[from + j - 1]]
    BY <1>w, <2>1
  <2> HIDE DEF c
  <2>4. DOMAIN c = 1..(last(k) - from + 1)
        /\ \A j \in 1..(last(k) - from + 1) : c[j] = Wallet[from + j - 1]
    BY <2>3
  <2>5. ASSUME NEW x \in chunk(k) PROVE x \in {Wallet[j] : j \in from..last(k)}
    <3>1. PICK j \in 1..(last(k) - from + 1) : x = Wallet[from + j - 1]
      BY <2>2, <2>4
    <3>2. from + j - 1 \in from..last(k)
      BY <2>1
    <3> QED BY <3>1, <3>2
  <2>6. ASSUME NEW j \in from..last(k) PROVE Wallet[j] \in chunk(k)
    <3>1. j - from + 1 \in 1..(last(k) - from + 1) /\ from + (j - from + 1) - 1 = j
      BY <2>1
    <3> QED BY <2>2, <2>4, <3>1
  <2> QED BY <2>5, <2>6 DEF from
<1>5. ASSUME NEW k \in 1..ChunkCount PROVE chunk(k) \subseteq Coins
  <2>1. k - 1 \in Nat /\ k \in Nat
    BY <1>1
  <2>2. (k - 1) * ChunkSize \in Nat /\ k * ChunkSize \in Nat
    BY <2>1, <1>w
  <2>3. \A j \in (k - 1) * ChunkSize + 1 .. last(k) : j \in 1..n
    BY <2>2, <1>w
  <2> QED BY <1>4, <2>3, <1>w DEF Coins
<1>6. ASSUME NEW j \in DOMAIN Wallet PROVE \E k \in 1..ChunkCount : Wallet[j] \in chunk(k)
  <2>1. j \in 1..n
    BY <1>w
  <2>2. PICK k \in 1..ChunkCount : (k - 1) * ChunkSize + 1 <= j /\ j <= k * ChunkSize
    BY <2>1, <1>w, PositionInChunk DEF ChunkCount
  <2>3. k - 1 \in Nat /\ k \in Nat
    BY <1>1
  <2>4. (k - 1) * ChunkSize \in Nat /\ k * ChunkSize \in Nat
    BY <2>3, <1>w
  <2>5. j \in (k - 1) * ChunkSize + 1 .. last(k)
    BY <2>1, <2>2, <2>4
  <2> QED BY <1>4, <2>5
<1> QED BY <1>1, <1>3, <1>5, <1>6 DEF Coins

covered(j) == UNION {chunk(k) : k \in 1..(j - 1)}

\* The coins of the chunks before the current one are merged, those found
\* locked or ignored aside.  No merged coin is locked: a coin that an error
\* names later was not merged before.
SuiMergeInv ==
  /\ i \in 1..(ChunkCount + 1)
  /\ phase = "run" => i = ChunkCount + 1
  /\ merged = covered(i) \ lockedAddresses
  /\ merged \cap locked = {}

\* Nothing is merged at the start, and nothing after a restart.
LEMMA SuiMergeInit ==
  ASSUME phase = "merge", i = 1, merged = {}
  PROVE  SuiMergeInv
<1>1. covered(i) = {}
  BY DEF covered
<1> QED BY <1>1, ChunksCover DEF SuiMergeInv

\* A merged chunk holds no locked coin, and a retry excludes only coins that
\* are locked: the chunk is complete when the next one starts.
LEMMA SuiMergeStep == SuiMergeInv /\ Sui!Next => SuiMergeInv'
<1> SUFFICES ASSUME SuiMergeInv, Sui!Next PROVE SuiMergeInv'
  OBVIOUS
<1>c. Len(Sui!gasCoinsChunks) = ChunkCount /\ ChunkCount \in Nat
  BY ChunksCover
<1>m. Sui!coinsToMerge = chunk(i) \ lockedAddresses
  BY DEF Sui!coinsToMerge, chunk
<1>1. CASE UNCHANGED Sui!initVars
  BY <1>1 DEF Sui!initVars, SuiMergeInv, covered
<1>2. CASE Sui!startOver
  <2>1. covered(1) = {}
    BY DEF covered
  <2>2. covered(i') = {}
    BY <1>2, <2>1 DEF Sui!startOver
  <2> QED BY <1>2, <1>c, <2>2 DEF Sui!startOver, SuiMergeInv, covered
<1>3. CASE Sui!mergeChunk
  <2>1. /\ i \in 1..ChunkCount /\ i' = i + 1 /\ phase = "merge"
        /\ Sui!coinsToMerge \cap locked = {}
        /\ merged' = merged \cup Sui!coinsToMerge
        /\ UNCHANGED <<phase, locked, lockedAddresses>>
    BY <1>3, <1>c DEF Sui!mergeChunk, SuiMergeInv
  <2>2. covered(i + 1) = covered(i) \cup chunk(i)
    <3>1. 1..(i + 1 - 1) = 1..(i - 1) \cup {i}
      BY <2>1, <1>c
    <3> QED BY <3>1 DEF covered
  <2>3. merged' = covered(i + 1) \ lockedAddresses
    BY <2>1, <2>2, <1>m DEF SuiMergeInv
  <2>4. merged' \cap locked' = {}
    BY <2>1 DEF SuiMergeInv
  <2>5. covered(i)' = covered(i + 1)
    BY <2>1 DEF covered
  <2> QED BY <2>1, <2>3, <2>4, <2>5, <1>c DEF SuiMergeInv
<1>4. CASE Sui!retryWithoutLocked
  <2>1. /\ lockedAddresses' =
             lockedAddresses \cup (Sui!coinsToMerge \cap locked)
        /\ UNCHANGED <<phase, locked, i, merged>>
    BY <1>4 DEF Sui!retryWithoutLocked
  <2>2. merged = covered(i) \ lockedAddresses'
    BY <2>1 DEF SuiMergeInv
  <2> QED BY <2>1, <2>2 DEF SuiMergeInv, covered
<1>5. CASE Sui!splitGasCoinEqually
  BY <1>5, <1>c DEF Sui!splitGasCoinEqually, SuiMergeInv, covered
<1>6. CASE Sui!mergeFails \/ Sui!mergeNothing
  BY <1>2, <1>6 DEF Sui!mergeFails, Sui!mergeNothing, Sui!exit
<1>7. CASE Sui!executeLate
  BY <1>1, <1>7 DEF Sui!executeLate
<1>8. ASSUME NEW t \in Task, Sui!TaskStep(t) \/ Sui!callFails(t) \/ Sui!throwError(t)
      PROVE  SuiMergeInv'
  BY <1>1, <1>2, <1>8
     DEF Sui!TaskStep, Sui!takeGasObject, Sui!execute, Sui!effects,
         Sui!versionMismatch, Sui!tryRefreshObjectReference, Sui!callFails,
         Sui!throwError, Sui!exit
<1> QED BY <1>3, <1>4, <1>5, <1>6, <1>7, <1>8 DEF Sui!Next, Sui!InitStep

\* When the gas pool of SuiPricePusher is filled, every coin of the wallet
\* that was not ignored or found locked is part of it, whatever the chunk
\* size and whichever coins are locked.
THEOREM SuiMergesAllUnlocked == Spec => []SuiMergedAllUnlocked
<1>1. Init => SuiMergeInv
  BY SuiMergeInit DEF Init, Sui!Init
<1>2. SuiMergeInv /\ [Next]_vars => SuiMergeInv'
  <2> SUFFICES ASSUME SuiMergeInv, [Next]_vars PROVE SuiMergeInv'
    OBVIOUS
  <2>1. CASE Sui!Next
    BY <2>1, SuiMergeStep
  <2>2. CASE UNCHANGED suiVars
    BY <2>2 DEF suiVars, SuiMergeInv, covered
  <2> QED BY <2>1, <2>2 DEF Next, InAptos, InInjective, InSui, InFortuna, vars
<1>3. SuiMergeInv => SuiMergedAllUnlocked
  <2> SUFFICES ASSUME SuiMergeInv, phase = "run"
               PROVE  merged = Sui!ToSet(Wallet) \ lockedAddresses
    BY DEF SuiMergedAllUnlocked, Sui!MergedAllUnlocked
  <2>1. covered(i) = Coins
    <3>1. i - 1 = ChunkCount
      BY ChunksCover DEF SuiMergeInv
    <3> QED BY <3>1, ChunksCover DEF covered
  <2> QED BY <2>1 DEF SuiMergeInv, Coins, Sui!ToSet
<1> QED BY <1>1, <1>2, <1>3, PTL DEF Spec

-----------------------------------------------------------------------------
(* SuiPricePusher: the coins of the gas pool *)

Ref == [coin : Sui!Coin, version : Nat]
TaskState == [pc : {"idle", "execute", "executed", "refresh"},
              coin : Sui!Coin \cup {0}, version : Nat]

\* The pool and the tasks name coins; an idle task names none.
SuiTyped ==
  /\ phase \in {"merge", "run"}
  /\ version \in [Sui!Coin -> Nat]
  /\ gasPool \in Seq(Ref) /\ tasks \in [Task -> TaskState]
  /\ \A t \in Task : tasks[t].pc = "idle" => tasks[t].coin = 0
  /\ \A t \in Task : tasks[t].pc # "idle" => tasks[t].coin # 0
  /\ phase = "merge" => gasPool = << >> /\ \A t \in Task : tasks[t].coin = 0

\* No coin is in two places.
SuiDistinct ==
  /\ \A k, l \in DOMAIN gasPool : gasPool[k].coin = gasPool[l].coin => k = l
  /\ \A t, u \in Task :
       tasks[t].coin # 0 /\ tasks[t].coin = tasks[u].coin => t = u
  /\ \A k \in DOMAIN gasPool, t \in Task : gasPool[k].coin # tasks[t].coin

\* Every coin is somewhere.
SuiComplete ==
  phase = "run" =>
    \A c \in Sui!Coin : \/ \E k \in DOMAIN gasPool : gasPool[k].coin = c
                        \/ \E t \in Task : tasks[t].coin = c

SuiPoolInv == SuiTyped /\ SuiDistinct /\ SuiComplete

\* The coins are numbered from one.
LEMMA CoinTyped == Sui!Coin \subseteq Nat \ {0} /\ Sui!Coin = 1..numGasObjects
  BY SuiAssumption DEF Sui!Coin

\* Without a pool and with idle tasks no coin is anywhere.
LEMMA SuiEmpty ==
  ASSUME phase = "merge", gasPool = << >>, tasks = [t \in Task |-> Sui!Idle],
         version \in [Sui!Coin -> Nat]
  PROVE  SuiPoolInv
<1>1. Sui!Idle \in TaskState /\ Sui!Idle.pc = "idle" /\ Sui!Idle.coin = 0
  BY DEF Sui!Idle, TaskState
<1>2. gasPool \in Seq(Ref) /\ DOMAIN gasPool = {}
  OBVIOUS
<1>3. \A t \in Task : tasks[t] = Sui!Idle
  OBVIOUS
<1>4. tasks \in [Task -> TaskState]
  BY <1>1
<1> QED BY <1>1, <1>2, <1>3, <1>4 DEF SuiPoolInv, SuiTyped, SuiDistinct, SuiComplete

\* A task that moves on with its coin leaves every coin where it is.
LEMMA SuiMoveOn ==
  ASSUME SuiPoolInv, NEW t \in Task, tasks[t].pc # "idle",
         NEW pc \in {"execute", "executed", "refresh"},
         tasks' = [tasks EXCEPT ![t] = [tasks[t] EXCEPT !.pc = pc]],
         UNCHANGED <<phase, gasPool>>, version' \in [Sui!Coin -> Nat]
  PROVE  SuiPoolInv'
<1>1. tasks \in [Task -> TaskState] /\ phase # "merge"
  <2>1. tasks[t].coin # 0
    BY DEF SuiPoolInv, SuiTyped
  <2> QED BY <2>1 DEF SuiPoolInv, SuiTyped
<1> DEFINE to == [tasks[t] EXCEPT !.pc = pc]
<1>2. to \in TaskState /\ to.pc = pc /\ to.coin = tasks[t].coin
  BY <1>1 DEF TaskState
<1>3. tasks' = [tasks EXCEPT ![t] = to]
  OBVIOUS
<1> HIDE DEF to
<1>4. tasks' \in [Task -> TaskState] /\ \A u \in Task : tasks'[u].coin = tasks[u].coin
  BY <1>1, <1>2, <1>3
<1>5. SuiTyped'
  BY <1>1, <1>2, <1>3, <1>4 DEF SuiPoolInv, SuiTyped
<1>6. SuiDistinct' /\ SuiComplete'
  BY <1>4 DEF SuiPoolInv, SuiDistinct, SuiComplete
<1> QED BY <1>5, <1>6 DEF SuiPoolInv

\* A coin that a task gives back leaves the task and is the last of the
\* pool.
LEMMA SuiGiveBack ==
  ASSUME SuiPoolInv, NEW t \in Task, tasks[t].pc # "idle",
         NEW v \in Nat, Sui!giveBack(t, [coin |-> tasks[t].coin, version |-> v]),
         UNCHANGED <<phase, version>>
  PROVE  SuiPoolInv'
<1> DEFINE c == tasks[t].coin
           ref == [coin |-> c, version |-> v]
           n == Len(gasPool)
<1>1. /\ tasks \in [Task -> TaskState] /\ gasPool \in Seq(Ref)
      /\ c \in Sui!Coin /\ c # 0 /\ phase = "run"
  BY DEF SuiPoolInv, SuiTyped, TaskState
<1>2. ref \in Ref /\ ref.coin = c
  BY <1>1 DEF Ref
<1>3. gasPool' = Append(gasPool, ref) /\ tasks' = [tasks EXCEPT ![t] = Sui!Idle]
  BY DEF Sui!giveBack, Sui!moveTo
<1>4. Sui!Idle \in TaskState /\ Sui!Idle.pc = "idle" /\ Sui!Idle.coin = 0
  BY DEF Sui!Idle, TaskState
<1> HIDE DEF c, ref
<1>5. /\ gasPool' \in Seq(Ref) /\ DOMAIN gasPool' = 1..(n + 1) /\ n \in Nat
      /\ DOMAIN gasPool = 1..n
      /\ \A k \in 1..n : gasPool'[k] = gasPool[k]
      /\ gasPool'[n + 1] = ref
  BY <1>1, <1>2, <1>3
<1> HIDE DEF n
<1>6. /\ tasks' \in [Task -> TaskState]
      /\ tasks'[t].coin = 0 /\ tasks'[t].pc = "idle"
      /\ \A u \in Task : u # t => tasks'[u] = tasks[u]
  BY <1>1, <1>3, <1>4
<1>7. SuiTyped'
  <2>1. \A u \in Task : /\ tasks'[u].pc = "idle" => tasks'[u].coin = 0
                        /\ tasks'[u].pc # "idle" => tasks'[u].coin # 0
    BY <1>6 DEF SuiPoolInv, SuiTyped
  <2>2. phase' = "run" /\ version' \in [Sui!Coin -> Nat]
    BY <1>1 DEF SuiPoolInv, SuiTyped
  <2> QED BY <1>5, <1>6, <2>1, <2>2 DEF SuiTyped
<1>8. \A k \in 1..n : gasPool[k].coin # c
  BY <1>5 DEF SuiPoolInv, SuiDistinct, c
<1>9. \A u \in Task : u # t => tasks[u].coin # c
  BY <1>1 DEF SuiPoolInv, SuiDistinct, c
<1>10. \A k \in 1..n : gasPool[k].coin # 0
  <2>1. \A k \in 1..n : gasPool[k] \in Ref
    BY <1>1, <1>5
  <2>2. \A x \in Ref : x.coin # 0
    BY CoinTyped DEF Ref
  <2> QED BY <2>1, <2>2
<1>11. SuiDistinct'
  <2>1. \A k, l \in 1..(n + 1) : gasPool'[k].coin = gasPool'[l].coin => k = l
    <3>1. \A k \in 1..(n + 1) : k \in 1..n \/ k = n + 1
      BY <1>5
    <3> QED BY <3>1, <1>2, <1>5, <1>8 DEF SuiPoolInv, SuiDistinct
  <2>2. \A u, w \in Task :
          tasks'[u].coin # 0 /\ tasks'[u].coin = tasks'[w].coin => u = w
    BY <1>6 DEF SuiPoolInv, SuiDistinct
  <2>3. \A k \in 1..(n + 1), u \in Task : gasPool'[k].coin # tasks'[u].coin
    <3>1. \A k \in 1..(n + 1) : k \in 1..n \/ k = n + 1
      BY <1>5
    <3> QED BY <3>1, <1>1, <1>2, <1>5, <1>6, <1>9, <1>10
            DEF SuiPoolInv, SuiDistinct
  <2> QED BY <1>5, <2>1, <2>2, <2>3 DEF SuiDistinct
<1>12. SuiComplete'
  <2> SUFFICES ASSUME NEW d \in Sui!Coin
               PROVE  \/ \E k \in 1..(n + 1) : gasPool'[k].coin = d
                      \/ \E u \in Task : tasks'[u].coin = d
    BY <1>5 DEF SuiComplete
  <2>1. CASE d = c
    BY <2>1, <1>2, <1>5
  <2>2. CASE d # c
    <3>1. \/ \E k \in 1..n : gasPool[k].coin = d
          \/ \E u \in Task : tasks[u].coin = d
      BY <1>1, <1>5 DEF SuiPoolInv, SuiComplete
    <3> QED BY <2>2, <3>1, <1>5, <1>6 DEF c
  <2> QED BY <2>1, <2>2
<1> QED BY <1>7, <1>11, <1>12 DEF SuiPoolInv

\* A task takes the first coin out of the pool.
LEMMA SuiTake ==
  ASSUME SuiPoolInv, NEW t \in Task, Sui!takeGasObject(t)
  PROVE  SuiPoolInv'
<1> DEFINE ref == gasPool[1]
           n == Len(gasPool) - 1
           to == [pc |-> "execute", coin |-> ref.coin, version |-> ref.version]
<1>1. /\ tasks \in [Task -> TaskState] /\ gasPool \in Seq(Ref)
      /\ phase = "run" /\ tasks[t].pc = "idle" /\ tasks[t].coin = 0
      /\ gasPool # << >> /\ UNCHANGED <<phase, version>>
  BY DEF SuiPoolInv, SuiTyped, Sui!takeGasObject, Sui!initVars
<1>2. /\ gasPool' = Tail(gasPool)
      /\ tasks' = [tasks EXCEPT ![t] = to]
  <2>1. Head(gasPool) = ref
    BY <1>1
  <2> QED BY <2>1 DEF Sui!takeGasObject, Sui!moveTo
<1>3. /\ n \in Nat /\ DOMAIN gasPool = 1..(n + 1)
      /\ gasPool' \in Seq(Ref) /\ DOMAIN gasPool' = 1..n
      /\ \A k \in 1..n : gasPool'[k] = gasPool[k + 1] /\ k + 1 \in 1..(n + 1)
      /\ \A k \in 1..(n + 1) : gasPool[k] \in Ref
  BY <1>1, <1>2
<1>4. 1 \in 1..(n + 1)
  BY <1>3
<1>5. ref \in Ref
  BY <1>3, <1>4
<1>6. to \in TaskState /\ to.pc = "execute" /\ to.coin = ref.coin /\ to.coin # 0
  BY <1>5, CoinTyped DEF Ref, TaskState
<1> HIDE DEF to, n
<1>7. /\ tasks' \in [Task -> TaskState] /\ tasks'[t] = to
      /\ \A u \in Task : u # t => tasks'[u] = tasks[u]
  BY <1>1, <1>2, <1>6
<1>8. SuiTyped'
  <2>1. \A u \in Task : /\ tasks'[u].pc = "idle" => tasks'[u].coin = 0
                        /\ tasks'[u].pc # "idle" => tasks'[u].coin # 0
    BY <1>6, <1>7 DEF SuiPoolInv, SuiTyped
  <2>2. phase' = "run" /\ version' \in [Sui!Coin -> Nat]
    BY <1>1 DEF SuiPoolInv, SuiTyped
  <2> QED BY <1>3, <1>7, <2>1, <2>2 DEF SuiTyped
<1>9. SuiDistinct'
  <2>1. \A k, l \in 1..n : gasPool'[k].coin = gasPool'[l].coin => k = l
    <3>1. \A k, l \in 1..n : k + 1 = l + 1 => k = l
      BY <1>3
    <3> QED BY <3>1, <1>3 DEF SuiPoolInv, SuiDistinct
  <2>2. \A u \in Task : tasks[u].coin # ref.coin
    BY <1>3, <1>4 DEF SuiPoolInv, SuiDistinct
  <2>3. \A u, w \in Task :
          tasks'[u].coin # 0 /\ tasks'[u].coin = tasks'[w].coin => u = w
    BY <1>6, <1>7, <2>2 DEF SuiPoolInv, SuiDistinct
  <2>4. \A k \in 1..n : gasPool'[k].coin # ref.coin
    <3>1. \A k \in 1..n : k + 1 # 1
      BY <1>3
    <3> QED BY <3>1, <1>3, <1>4 DEF SuiPoolInv, SuiDistinct
  <2>5. \A k \in 1..n, u \in Task : gasPool'[k].coin # tasks'[u].coin
    BY <1>3, <1>6, <1>7, <2>4 DEF SuiPoolInv, SuiDistinct
  <2> QED BY <1>3, <2>1, <2>3, <2>5 DEF SuiDistinct
<1>10. SuiComplete'
  <2> SUFFICES ASSUME NEW d \in Sui!Coin
               PROVE  \/ \E k \in 1..n : gasPool'[k].coin = d
                      \/ \E u \in Task : tasks'[u].coin = d
    BY <1>3 DEF SuiComplete
  <2>1. \/ \E k \in 1..(n + 1) : gasPool[k].coin = d
        \/ \E u \in Task : tasks[u].coin = d
    BY <1>1, <1>3 DEF SuiPoolInv, SuiComplete
  <2>2. CASE \E u \in Task : tasks[u].coin = d
    <3>1. d # 0
      BY CoinTyped
    <3> QED BY <2>2, <3>1, <1>1, <1>7
  <2>3. ASSUME NEW k \in 1..(n + 1), gasPool[k].coin = d
        PROVE  \/ \E l \in 1..n : gasPool'[l].coin = d
               \/ \E u \in Task : tasks'[u].coin = d
    <3>1. CASE k = 1
      BY <2>3, <3>1, <1>6, <1>7
    <3>2. CASE k # 1
      <4>1. k - 1 \in 1..n /\ (k - 1) + 1 = k
        BY <3>2, <1>3
      <4> QED BY <2>3, <4>1, <1>3
    <3> QED BY <3>1, <3>2
  <2> QED BY <2>1, <2>2, <2>3
<1> QED BY <1>8, <1>9, <1>10 DEF SuiPoolInv

\* The pool is filled with every coin once, while no task has a coin.
LEMMA SuiSplit ==
  ASSUME SuiPoolInv, Sui!splitGasCoinEqually
  PROVE  SuiPoolInv'
<1>1. /\ phase = "merge" /\ phase' = "run" /\ version \in [Sui!Coin -> Nat]
      /\ tasks \in [Task -> TaskState]
      /\ gasPool' = [k \in Sui!Coin |-> [coin |-> k, version |-> version[k]]]
      /\ UNCHANGED <<version, tasks>>
      /\ \A t \in Task : tasks[t].coin = 0
  BY CoinTyped DEF SuiPoolInv, SuiTyped, Sui!splitGasCoinEqually
<1>2. \A k \in Sui!Coin : [coin |-> k, version |-> version[k]] \in Ref
  BY <1>1 DEF Ref
<1>3. gasPool' \in Seq(Ref) /\ DOMAIN gasPool' = Sui!Coin
      /\ \A k \in Sui!Coin : gasPool'[k].coin = k
  BY <1>1, <1>2, CoinTyped, SuiAssumption
<1>4. SuiTyped'
  BY <1>1, <1>3 DEF SuiPoolInv, SuiTyped
<1>5. SuiDistinct'
  BY <1>1, <1>3, CoinTyped DEF SuiDistinct
<1>6. SuiComplete'
  BY <1>3 DEF SuiComplete
<1> QED BY <1>4, <1>5, <1>6 DEF SuiPoolInv

\* Every step keeps each coin in one place.
LEMMA SuiPoolStep == SuiPoolInv /\ Sui!Next => SuiPoolInv'
<1> SUFFICES ASSUME SuiPoolInv, Sui!Next PROVE SuiPoolInv'
  OBVIOUS
<1>t. /\ version \in [Sui!Coin -> Nat] /\ tasks \in [Task -> TaskState]
      /\ \A t \in Task : tasks[t].version \in Nat
      /\ \A t \in Task : tasks[t].pc # "idle" => tasks[t].coin \in Sui!Coin
  BY DEF SuiPoolInv, SuiTyped, TaskState
<1>1. CASE UNCHANGED <<phase, gasPool, tasks>> /\ version' \in [Sui!Coin -> Nat]
  BY <1>1 DEF SuiPoolInv, SuiTyped, SuiDistinct, SuiComplete
<1>2. CASE Sui!startOver
  <2>1. /\ phase' = "merge" /\ gasPool' = << >>
        /\ tasks' = [t \in Task |-> Sui!Idle] /\ version' = version
    BY <1>2 DEF Sui!startOver
  <2>2. Sui!Idle \in TaskState /\ Sui!Idle.pc = "idle" /\ Sui!Idle.coin = 0
    BY DEF Sui!Idle, TaskState
  <2>3. gasPool' \in Seq(Ref) /\ DOMAIN gasPool' = {}
    BY <2>1
  <2>4. tasks' \in [Task -> TaskState] /\ \A t \in Task : tasks'[t] = Sui!Idle
    BY <2>1, <2>2
  <2> QED BY <1>t, <2>1, <2>2, <2>3, <2>4
          DEF SuiPoolInv, SuiTyped, SuiDistinct, SuiComplete
<1>3. CASE Sui!InitStep
  BY <1>1, <1>2, <1>3, <1>t, SuiSplit
     DEF Sui!InitStep, Sui!mergeChunk, Sui!mergeNothing, Sui!retryWithoutLocked, Sui!poolVars
<1>4. CASE Sui!executeLate
  <2>1. PICK tx \in late :
          \/ version' = [version EXCEPT ![tx.coin] = @ + 1]
          \/ version' = version
    BY <1>4 DEF Sui!executeLate
  <2>2. \A c \in Sui!Coin : version[c] + 1 \in Nat
    BY <1>t
  <2>3. version' \in [Sui!Coin -> Nat]
    BY <1>t, <2>1, <2>2
  <2> QED BY <1>1, <1>4, <2>3 DEF Sui!executeLate, Sui!initVars
<1>5. ASSUME NEW t \in Task, Sui!execute(t) PROVE SuiPoolInv'
  <2>1. version' \in [Sui!Coin -> Nat]
    BY <1>5, <1>t DEF Sui!execute
  <2> QED BY <1>5, <2>1, SuiMoveOn DEF Sui!execute, Sui!moveTo, Sui!initVars
<1>6. ASSUME NEW t \in Task, Sui!effects(t) PROVE SuiPoolInv'
  <2>1. tasks[t].version + 1 \in Nat
    BY <1>t
  <2> QED BY <1>6, <2>1, SuiGiveBack DEF Sui!effects, Sui!initVars
<1>7. ASSUME NEW t \in Task, Sui!versionMismatch(t) PROVE SuiPoolInv'
  BY <1>7, <1>t, SuiMoveOn DEF Sui!versionMismatch, Sui!moveTo, Sui!initVars
<1>8. ASSUME NEW t \in Task, Sui!tryRefreshObjectReference(t) PROVE SuiPoolInv'
  <2>1. version[tasks[t].coin] \in Nat
    BY <1>8, <1>t DEF Sui!tryRefreshObjectReference
  <2> QED BY <1>8, <2>1, SuiGiveBack
          DEF Sui!tryRefreshObjectReference, Sui!initVars
<1>9. ASSUME NEW t \in Task, Sui!callFails(t) PROVE SuiPoolInv'
  BY <1>9, <1>t, SuiMoveOn DEF Sui!callFails, Sui!moveTo, Sui!initVars
<1> QED BY <1>2, <1>3, <1>4, <1>5, <1>6, <1>7, <1>8, <1>9, SuiTake
        DEF Sui!Next, Sui!TaskStep, Sui!mergeFails, Sui!throwError, Sui!exit

\* A coin of SuiPricePusher is in the pool once or with one transaction, for
\* any number of coins and parallel transactions and through every error.
THEOREM SuiCoinsInOnePlace == Spec => []SuiCoinsPartitioned
<1>1. Init => SuiPoolInv
  BY SuiEmpty DEF Init, Sui!Init
<1>2. SuiPoolInv /\ [Next]_vars => SuiPoolInv'
  <2> SUFFICES ASSUME SuiPoolInv, [Next]_vars PROVE SuiPoolInv'
    OBVIOUS
  <2>1. CASE Sui!Next
    BY <2>1, SuiPoolStep
  <2>2. CASE UNCHANGED suiVars
    BY <2>2 DEF suiVars, SuiPoolInv, SuiTyped, SuiDistinct, SuiComplete
  <2> QED BY <2>1, <2>2 DEF Next, InAptos, InInjective, InSui, InFortuna, vars
<1>3. SuiPoolInv => SuiCoinsPartitioned
  <2> SUFFICES ASSUME SuiPoolInv, phase = "run", NEW c \in Sui!Coin
               PROVE  Cardinality({k \in DOMAIN gasPool : gasPool[k].coin = c})
                        + Cardinality({t \in Task : tasks[t].coin = c}) = 1
    BY SameCardinality DEF SuiCoinsPartitioned, Sui!CoinsPartitioned
  <2> DEFINE inPool == {k \in DOMAIN gasPool : gasPool[k].coin = c}
             inTasks == {t \in Task : tasks[t].coin = c}
  <2>0. c # 0
    BY CoinTyped
  <2>1. CASE \E k \in DOMAIN gasPool : gasPool[k].coin = c
    <3>1. PICK k \in DOMAIN gasPool : gasPool[k].coin = c
      BY <2>1
    <3>2. inPool = {k} /\ inTasks = {}
      BY <3>1 DEF SuiPoolInv, SuiDistinct
    <3>3. Cardinality(inPool) = 1 /\ Cardinality(inTasks) = 0
      BY <3>2, FS_Singleton, FS_EmptySet, Zenon
    <3> QED BY <3>3
  <2>2. CASE \A k \in DOMAIN gasPool : gasPool[k].coin # c
    <3>1. PICK t \in Task : tasks[t].coin = c
      BY <2>2 DEF SuiPoolInv, SuiComplete
    <3>2. inPool = {} /\ inTasks = {t}
      BY <2>0, <2>2, <3>1 DEF SuiPoolInv, SuiDistinct
    <3>3. Cardinality(inPool) = 0 /\ Cardinality(inTasks) = 1
      BY <3>2, FS_Singleton, FS_EmptySet, Zenon
    <3> QED BY <3>3
  <2> QED BY <2>1, <2>2
<1> QED BY <1>1, <1>2, <1>3, PTL DEF Spec
=============================================================================
