---------------------------- MODULE AptosPusher ----------------------------
(***************************************************************************)
(* How AptosPricePusher (apps/price_pusher/src/aptos) numbers its          *)
(* transactions.  The number is predicted from a local cache so that a     *)
(* push need not wait for the one before it.  When the cache may be wrong  *)
(* it is dropped, and the next push fetches the number from the chain.     *)
(*                                                                         *)
(* Pushes are not awaited: several are in progress, and the wait for a     *)
(* confirmation goes on after updatePriceFeed has returned.                *)
(***************************************************************************)
EXTENDS Integers, FiniteSets

CONSTANTS
  Push,          \* slots for pushes in progress
  MaxSequence,   \* bound on the transactions executed
  MaxFault       \* bound on the failures

VARIABLES
  sequence,      \* sequence number of the account on the chain
  mempool,       \* sequence numbers of the transactions that wait
  lastSequenceNumber,
  sequenceNumberLocked,
  pushes,
  faults

vars == <<sequence, mempool, lastSequenceNumber, sequenceNumberLocked, pushes,
          faults>>

Undefined == -1
Idle == [pc |-> "idle", seq |-> 0]

Init ==
  /\ sequence = 0 /\ mempool = {}
  /\ lastSequenceNumber = Undefined /\ sequenceNumberLocked = FALSE
  /\ pushes = [p \in Push |-> Idle]
  /\ faults = 0

fail == faults < MaxFault /\ faults' = faults + 1

moveTo(p, pc, seq) == pushes' = [pushes EXCEPT ![p] = [pc |-> pc, seq |-> seq]]

\* The process ends, by an error nobody catches, and is restarted.
exit ==
  /\ lastSequenceNumber' = Undefined /\ sequenceNumberLocked' = FALSE
  /\ pushes' = [p \in Push |-> Idle]

\* updatePriceFeed up to its first answer of tryGetNextSequenceNumber.
predictSequenceNumber(p) ==
  /\ pushes[p].pc = "idle" /\ lastSequenceNumber # Undefined
  /\ lastSequenceNumber' = lastSequenceNumber + 1
  /\ moveTo(p, "submit", lastSequenceNumber + 1)
  /\ UNCHANGED <<sequence, mempool, sequenceNumberLocked, faults>>

\* The answer is read from the chain here and used by a later step.
fetchSequenceNumber(p) ==
  /\ pushes[p].pc = "idle" /\ lastSequenceNumber = Undefined
  /\ ~sequenceNumberLocked
  /\ sequenceNumberLocked' = TRUE
  /\ moveTo(p, "fetch", sequence)
  /\ UNCHANGED <<sequence, mempool, lastSequenceNumber, faults>>

\* A push that arrives during the fetch throws.
rejectDuringFetch(p) ==
  /\ pushes[p].pc = "idle" /\ lastSequenceNumber = Undefined
  /\ sequenceNumberLocked
  /\ fail /\ exit
  /\ UNCHANGED <<sequence, mempool>>

\* Mutant: the lock is not released.
keepsLock(p) ==
  /\ pushes[p].pc = "fetch"
  /\ lastSequenceNumber' = pushes[p].seq
  /\ moveTo(p, "submit", pushes[p].seq)
  /\ UNCHANGED <<sequence, mempool, sequenceNumberLocked, faults>>

cacheSequenceNumber(p) ==
  /\ pushes[p].pc = "fetch"
  /\ lastSequenceNumber' = pushes[p].seq /\ sequenceNumberLocked' = FALSE
  /\ moveTo(p, "submit", pushes[p].seq)
  /\ UNCHANGED <<sequence, mempool, faults>>

\* getAccount or generateTransaction throws.
fetchFails(p) ==
  /\ pushes[p].pc \in {"fetch", "submit"}
  /\ fail /\ exit
  /\ UNCHANGED <<sequence, mempool>>

\* A node takes future numbers, but one transaction for each number.
submitTransaction(p) ==
  /\ pushes[p].pc = "submit"
  /\ \/ /\ pushes[p].seq >= sequence /\ pushes[p].seq \notin mempool
        /\ pushes[p].seq < MaxSequence
        /\ mempool' = mempool \cup {pushes[p].seq}
        /\ moveTo(p, "wait", pushes[p].seq)
        /\ UNCHANGED lastSequenceNumber
     \/ /\ pushes[p].seq < sequence \/ pushes[p].seq \in mempool
        /\ moveTo(p, "idle", 0)
        /\ lastSequenceNumber' = Undefined
        /\ UNCHANGED mempool
  /\ UNCHANGED <<sequence, sequenceNumberLocked, faults>>

submitFails(p) ==
  /\ pushes[p].pc = "submit"
  /\ fail
  /\ moveTo(p, "idle", 0)
  /\ lastSequenceNumber' = Undefined
  /\ UNCHANGED <<sequence, mempool, sequenceNumberLocked>>

\* waitForTransactionConfirmation: the transaction was executed, or ten
\* seconds have passed.
confirm(p) ==
  /\ pushes[p].pc = "wait" /\ pushes[p].seq < sequence
  /\ moveTo(p, "idle", 0)
  /\ UNCHANGED <<sequence, mempool, lastSequenceNumber, sequenceNumberLocked,
                 faults>>

\* Mutant: the cache is kept after a timeout.
timeoutKeepsCache(p) ==
  /\ pushes[p].pc = "wait" /\ pushes[p].seq >= sequence
  /\ moveTo(p, "idle", 0)
  /\ UNCHANGED <<sequence, mempool, lastSequenceNumber, sequenceNumberLocked, faults>>

confirmationTimeout(p) ==
  /\ pushes[p].pc = "wait" /\ pushes[p].seq >= sequence
  /\ moveTo(p, "idle", 0)
  /\ lastSequenceNumber' = Undefined
  /\ UNCHANGED <<sequence, mempool, sequenceNumberLocked, faults>>

\* The transaction was executed and failed, or waitForTransaction throws.
executionFails(p) ==
  /\ pushes[p].pc = "wait" /\ pushes[p].seq < sequence
  /\ fail
  /\ moveTo(p, "idle", 0)
  /\ lastSequenceNumber' = Undefined
  /\ UNCHANGED <<sequence, mempool, sequenceNumberLocked>>

execute ==
  /\ sequence \in mempool
  /\ mempool' = mempool \ {sequence} /\ sequence' = sequence + 1
  /\ UNCHANGED <<lastSequenceNumber, sequenceNumberLocked, pushes, faults>>

\* Broadcast transactions sometimes do not make it into the chain.
lose ==
  /\ fail
  /\ \E seq \in mempool : mempool' = mempool \ {seq}
  /\ UNCHANGED <<sequence, lastSequenceNumber, sequenceNumberLocked, pushes>>

PushStep(p) ==
  \/ predictSequenceNumber(p) \/ fetchSequenceNumber(p)
  \/ cacheSequenceNumber(p) \/ submitTransaction(p)
  \/ confirm(p) \/ confirmationTimeout(p)

PushFault(p) ==
  rejectDuringFetch(p) \/ fetchFails(p) \/ submitFails(p) \/ executionFails(p)

Next == execute \/ lose \/ \E p \in Push : PushStep(p) \/ PushFault(p)

-----------------------------------------------------------------------------
\* The lock is held exactly while one push fetches, whichever way the fetch
\* ends: it never admits a second fetch and is never left behind.
OneFetch ==
  Cardinality({p \in Push : pushes[p].pc = "fetch"})
    = IF sequenceNumberLocked THEN 1 ELSE 0

\* A number that is skipped, lost or used twice never stops the account for
\* good: the cache gets back in step with the chain.
SequenceRecovers == <>(sequence = MaxSequence)
=============================================================================
