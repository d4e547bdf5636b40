---------------------------- MODULE NonceManager ----------------------------
(***************************************************************************)
(* The nonce manager of Fortuna (apps/fortuna/src/eth_utils), used by all  *)
(* the tasks that submit reveals.  A nonce is counted locally once it has  *)
(* been initialised from the chain; submit_tx resets the manager when a    *)
(* transaction gets no receipt, and tries again.  A task may also give up, *)
(* and leave behind a nonce it took or a transaction that still waits.     *)
(*                                                                         *)
(* The tasks run concurrently and the steps between two awaits of          *)
(* different tasks interleave; the counter itself is atomic.               *)
(***************************************************************************)
EXTENDS Integers

CONSTANTS
  Task,         \* tasks that each submit one transaction
  MaxNonce,     \* bound on the nonces handed out
  MaxFault      \* bound on the failures

VARIABLES
  count,        \* transaction count of the account on the chain
  mempool,      \* nonce -> task of the transactions that wait
  fulfilled,    \* tasks whose transaction was executed
  initialized, nonce,
  tasks,
  faults

vars == <<count, mempool, fulfilled, initialized, nonce, tasks, faults>>
chainVars == <<count, mempool, fulfilled>>
managerVars == <<initialized, nonce>>

Init ==
  /\ count = 0 /\ mempool = {} /\ fulfilled = {}
  /\ initialized = FALSE /\ nonce = 0
  /\ tasks = [t \in Task |-> [pc |-> "fill", nonce |-> 0]]
  /\ faults = 0

moveTo(t, pc, n) == tasks' = [tasks EXCEPT ![t] = [pc |-> pc, nonce |-> n]]

\* fill_transaction: an initialised manager hands out its next nonce.
next(t) ==
  /\ tasks[t].pc = "fill" /\ t \notin fulfilled /\ initialized
  /\ nonce < MaxNonce
  /\ nonce' = nonce + 1
  /\ moveTo(t, "send", nonce)
  /\ UNCHANGED <<chainVars, initialized, faults>>

\* get_transaction_count_with_manager takes no lock: two tasks may be here.
get_transaction_count(t) ==
  /\ tasks[t].pc = "fill" /\ t \notin fulfilled /\ ~initialized
  /\ moveTo(t, "store", count)
  /\ UNCHANGED <<chainVars, managerVars, faults>>

storeAndNext(t) ==
  /\ tasks[t].pc = "store"
  /\ initialized' = TRUE /\ nonce' = tasks[t].nonce + 1
  /\ moveTo(t, "send", tasks[t].nonce)
  /\ UNCHANGED <<chainVars, faults>>

\* A node takes a nonce that is too high, and one transaction per nonce.
accepts(n) == n >= count /\ \A tx \in mempool : tx.nonce # n

submit(t, n) == mempool' = mempool \cup {[nonce |-> n, task |-> t]}

send_transaction(t) ==
  /\ tasks[t].pc = "send"
  /\ IF accepts(tasks[t].nonce)
     THEN submit(t, tasks[t].nonce) /\ moveTo(t, "wait", tasks[t].nonce)
     ELSE moveTo(t, "error", 0) /\ UNCHANGED mempool
  /\ UNCHANGED <<count, fulfilled, managerVars, faults>>

sendFails(t) ==
  /\ tasks[t].pc = "send"
  /\ faults < MaxFault /\ faults' = faults + 1
  /\ moveTo(t, "error", 0)
  /\ UNCHANGED <<chainVars, managerVars>>

\* Filling the transaction fails after its nonce was taken, or the wait for
\* the receipt ends with an error: the task tries again, without a reset.
callFails(t) ==
  /\ tasks[t].pc \in {"send", "wait"}
  /\ faults < MaxFault /\ faults' = faults + 1
  /\ moveTo(t, "fill", 0)
  /\ UNCHANGED <<chainVars, managerVars>>

\* After an error the nonce is compared with the chain's; on a mismatch it
\* is stored, not counted, and the transaction is sent with it.
resend(t) ==
  /\ tasks[t].pc = "error"
  /\ \/ /\ count # nonce
        /\ nonce' = count
        /\ IF accepts(count)
           THEN submit(t, count) /\ moveTo(t, "wait", count)
           ELSE moveTo(t, "fill", 0) /\ UNCHANGED mempool
     \/ /\ count = nonce
        /\ moveTo(t, "fill", 0)
        /\ UNCHANGED <<nonce, mempool>>
  /\ UNCHANGED <<count, fulfilled, initialized, faults>>

receipt(t) ==
  /\ tasks[t].pc = "wait" /\ t \in fulfilled
  /\ moveTo(t, "fill", 0)
  /\ UNCHANGED <<chainVars, managerVars, faults>>

\* Mutant: the manager is not reset.
retryWithoutReset(t) ==
  /\ tasks[t].pc = "wait" /\ t \notin fulfilled
  /\ moveTo(t, "fill", 0)
  /\ UNCHANGED <<chainVars, managerVars, faults>>

\* No receipt in time: the manager is reset and the task tries again.
reset(t) ==
  /\ tasks[t].pc = "wait" /\ t \notin fulfilled
  /\ initialized' = FALSE
  /\ moveTo(t, "fill", 0)
  /\ UNCHANGED <<chainVars, nonce, faults>>

\* submit_tx_with_backoff returns when the five minutes after a failed attempt
\* are over, or when the gas estimate of an attempt exceeds the limit.
giveUp(t) ==
  /\ tasks[t].pc = "fill"
  /\ moveTo(t, "gaveUp", 0)
  /\ UNCHANGED <<chainVars, managerVars, faults>>

\* A retry of a task whose earlier transaction executes has no effect.
execute ==
  /\ \E tx \in mempool :
       /\ tx.nonce = count
       /\ count' = count + 1
       /\ mempool' = mempool \ {tx}
       /\ fulfilled' = fulfilled \cup {tx.task}
  /\ UNCHANGED <<managerVars, tasks, faults>>

drop ==
  /\ faults < MaxFault /\ faults' = faults + 1
  /\ \E tx \in mempool : mempool' = mempool \ {tx}
  /\ UNCHANGED <<count, fulfilled, managerVars, tasks>>

TaskStep(t) ==
  \/ next(t) \/ get_transaction_count(t) \/ storeAndNext(t)
  \/ send_transaction(t) \/ resend(t) \/ receipt(t) \/ reset(t)

Next ==
  \/ execute \/ drop
  \/ \E t \in Task : TaskStep(t) \/ sendFails(t) \/ callFails(t) \/ giveUp(t)

-----------------------------------------------------------------------------
\* A nonce that was handed out twice, skipped, lost, or left behind by a task
\* that gave up delays the other tasks but never blocks them: a task that goes
\* on trying gets its transaction executed.  Nothing makes a task give up, so
\* a task that could only fail would have to try for ever.
NoTaskBlocked == \A t \in Task : <>(t \in fulfilled \/ tasks[t].pc = "gaveUp")
=============================================================================
