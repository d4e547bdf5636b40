----------------------------- MODULE SuiPusher -----------------------------
(***************************************************************************)
(* The gas coins of SuiPricePusher (apps/price_pusher/src/sui).  At the    *)
(* start the coins of the wallet are merged, chunk by chunk, into one, and *)
(* that one is split into a pool of numGasObjects coins.  A transaction    *)
(* takes a coin out of the pool, and puts it back at its new version when  *)
(* it has ended.                                                           *)
(*                                                                         *)
(* Transactions run in parallel.  A call may fail although its transaction *)
(* still executes later.                                                   *)
(***************************************************************************)
EXTENDS Integers, Sequences, FiniteSets, SequencesExt

CONSTANTS
  Wallet,            \* the coins of the wallet, in the order of getAllGasCoins:
                     \* two or more, as a single one is not merged
  ignoreGasObjects,  \* coins the operator excludes from merging
  ChunkSize,         \* MAX_NUM_GAS_OBJECTS_IN_PTB - 2
  numGasObjects,
  Task,              \* slots for transactions in progress
  MaxVersion,        \* bound on the versions of a coin
  MaxFault           \* bound on the failures

Coin == 1..numGasObjects     \* the coins of the pool

VARIABLES
  phase,        \* "merge", "run"
  locked,       \* coins of the wallet that validators hold locked
  i,            \* the chunk that is merged next
  lockedAddresses,
  merged,       \* coins that have become part of finalCoin
  version,      \* current version of each coin of the pool
  gasPool,
  tasks,
  late,         \* transactions whose call failed and that may still execute
  faults

initVars == <<phase, locked, i, lockedAddresses, merged>>
poolVars == <<version, gasPool, tasks, late>>
vars == <<initVars, poolVars, faults>>

Idle == [pc |-> "idle", coin |-> 0, version |-> 0]

chunkArray(array, size) ==
  [k \in 1..(Len(array) + size - 1) \div size |->
     SubSeq(array, (k - 1) * size + 1,
            IF k * size < Len(array) THEN k * size ELSE Len(array))]

gasCoinsChunks == chunkArray(Wallet, ChunkSize)

Init ==
  /\ phase = "merge" /\ i = 1 /\ merged = {}
  /\ locked \in SUBSET ToSet(Wallet)
  /\ lockedAddresses = ignoreGasObjects
  /\ version = [c \in Coin |-> 0] /\ gasPool = << >>
  /\ tasks = [t \in Task |-> Idle] /\ late = {}
  /\ faults = 0

-----------------------------------------------------------------------------
(* initializeGasPool *)

\* The inputs of the merge transaction besides finalCoin.
coinsToMerge == ToSet(gasCoinsChunks[i]) \ lockedAddresses

\* finalCoin is defined once a chunk was merged.
mergeChunk ==
  /\ phase = "merge" /\ i <= Len(gasCoinsChunks)
  /\ merged \cup coinsToMerge # {}
  /\ coinsToMerge \cap locked = {}
  /\ merged' = merged \cup coinsToMerge
  /\ i' = i + 1
  /\ UNCHANGED <<phase, locked, lockedAddresses, poolVars, faults>>

\* Mutant: the retry goes on with the next chunk.
retrySkipsChunk ==
  /\ phase = "merge" /\ i <= Len(gasCoinsChunks)
  /\ coinsToMerge \cap locked # {}
  /\ lockedAddresses' = lockedAddresses \cup (coinsToMerge \cap locked)
  /\ i' = i + 1
  /\ UNCHANGED <<phase, locked, merged, poolVars, faults>>

\* The error names the locked coins; the same chunk is tried without them.
retryWithoutLocked ==
  /\ phase = "merge" /\ i <= Len(gasCoinsChunks)
  /\ coinsToMerge \cap locked # {}
  /\ lockedAddresses' = lockedAddresses \cup (coinsToMerge \cap locked)
  /\ UNCHANGED <<phase, locked, i, merged, poolVars, faults>>

splitGasCoinEqually ==
  /\ phase = "merge" /\ i > Len(gasCoinsChunks)
  /\ phase' = "run"
  /\ gasPool' = [k \in 1..numGasObjects |-> [coin |-> k, version |-> version[k]]]
  /\ UNCHANGED <<locked, i, lockedAddresses, merged, version, tasks, late,
                 faults>>

\* An error nobody catches ends the process; it starts over.
startOver ==
  /\ phase' = "merge" /\ i' = 1 /\ merged' = {}
  /\ lockedAddresses' = ignoreGasObjects
  /\ gasPool' = << >> /\ late' = {}
  /\ tasks' = [t \in Task |-> Idle]
  /\ UNCHANGED <<locked, version>>

exit == faults < MaxFault /\ faults' = faults + 1 /\ startOver

\* A transaction with no coin to pay for its gas is refused.
mergeNothing ==
  /\ phase = "merge" /\ i <= Len(gasCoinsChunks)
  /\ merged \cup coinsToMerge = {}
  /\ startOver /\ UNCHANGED faults

mergeFails == phase = "merge" /\ exit

-----------------------------------------------------------------------------
(* sendTransactionBlock *)

moveTo(t, task) == tasks' = [tasks EXCEPT ![t] = task]

giveBack(t, ref) ==
  /\ gasPool' = Append(gasPool, ref)
  /\ moveTo(t, Idle)

takeGasObject(t) ==
  /\ phase = "run" /\ tasks[t].pc = "idle" /\ gasPool # << >>
  /\ gasPool' = Tail(gasPool)
  /\ moveTo(t, [pc |-> "execute", coin |-> Head(gasPool).coin,
                version |-> Head(gasPool).version])
  /\ UNCHANGED <<initVars, version, late, faults>>

\* The chain executes the transaction if it names the current version.
execute(t) ==
  /\ tasks[t].pc = "execute" /\ tasks[t].version = version[tasks[t].coin]
  /\ version[tasks[t].coin] < MaxVersion
  /\ version' = [version EXCEPT ![tasks[t].coin] = @ + 1]
  /\ moveTo(t, [tasks[t] EXCEPT !.pc = "executed"])
  /\ UNCHANGED <<initVars, gasPool, late, faults>>

\* The effects of a transaction name its gas coin, which it has changed.
effects(t) ==
  /\ tasks[t].pc = "executed"
  /\ giveBack(t, [coin |-> tasks[t].coin, version |-> tasks[t].version + 1])
  /\ UNCHANGED <<initVars, version, late, faults>>

\* Mutant: the coin of a transaction that failed is not put back.
dropsCoin(t) ==
  /\ tasks[t].pc = "execute" /\ tasks[t].version # version[tasks[t].coin]
  /\ moveTo(t, Idle)
  /\ UNCHANGED <<initVars, version, gasPool, late, faults>>

versionMismatch(t) ==
  /\ tasks[t].pc = "execute" /\ tasks[t].version # version[tasks[t].coin]
  /\ moveTo(t, [tasks[t] EXCEPT !.pc = "refresh"])
  /\ UNCHANGED <<initVars, version, gasPool, late, faults>>

\* The call ends with an error while the fate of the transaction is open.
callFails(t) ==
  /\ tasks[t].pc \in {"execute", "executed"}
  /\ faults < MaxFault /\ faults' = faults + 1
  /\ late' = IF tasks[t].pc = "execute"
             THEN late \cup {[coin |-> tasks[t].coin,
                              version |-> tasks[t].version]}
             ELSE late
  /\ moveTo(t, [tasks[t] EXCEPT !.pc = "refresh"])
  /\ UNCHANGED <<initVars, version, gasPool>>

executeLate ==
  /\ \E tx \in late :
       /\ late' = late \ {tx}
       /\ version' = IF tx.version = version[tx.coin] /\ tx.version < MaxVersion
                     THEN [version EXCEPT ![tx.coin] = @ + 1] ELSE version
  /\ UNCHANGED <<initVars, gasPool, tasks, faults>>

\* Mutant: the reference is put back as it was.
keepsReference(t) ==
  /\ tasks[t].pc = "refresh"
  /\ giveBack(t, [coin |-> tasks[t].coin, version |-> tasks[t].version])
  /\ UNCHANGED <<initVars, version, late, faults>>

tryRefreshObjectReference(t) ==
  /\ tasks[t].pc = "refresh"
  /\ giveBack(t, [coin |-> tasks[t].coin, version |-> version[tasks[t].coin]])
  /\ UNCHANGED <<initVars, version, late, faults>>

\* The balance of the coin is too low, or it cannot be refreshed.
throwError(t) == tasks[t].pc \in {"execute", "refresh"} /\ exit

-----------------------------------------------------------------------------
InitStep ==
  mergeChunk \/ mergeNothing \/ retryWithoutLocked \/ splitGasCoinEqually

TaskStep(t) ==
  \/ takeGasObject(t) \/ execute(t) \/ effects(t) \/ versionMismatch(t)
  \/ tryRefreshObjectReference(t)

Next ==
  \/ InitStep \/ mergeFails \/ executeLate
  \/ \E t \in Task : TaskStep(t) \/ callFails(t) \/ throwError(t)

-----------------------------------------------------------------------------
\* A coin is in the pool once or in the hands of one transaction, never in
\* both and never nowhere: two transactions of the process never name the
\* same coin, and an error path neither drops a coin nor returns it twice.
CoinsPartitioned ==
  phase = "run" =>
    \A c \in Coin :
      Cardinality({k \in DOMAIN gasPool : gasPool[k].coin = c})
        + Cardinality({t \in Task : tasks[t].coin = c}) = 1

\* When the pool is filled every coin of the wallet that was not found
\* locked, or ignored, has been merged: a retry skips no chunk.
MergedAllUnlocked ==
  phase = "run" => merged = ToSet(Wallet) \ lockedAddresses

\* A reference that a late transaction made stale is found out and renewed:
\* while the process runs each coin is again and again in the pool at its
\* current version, until the bound on versions is reached.
ReferencesRecover ==
  \A c \in Coin :
    []<>(\/ phase = "merge"
         \/ \E k \in DOMAIN gasPool :
              gasPool[k] = [coin |-> c, version |-> version[c]]
         \/ version[c] = MaxVersion)
=============================================================================
