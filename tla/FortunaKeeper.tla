--------------------------- MODULE FortunaKeeper ---------------------------
(***************************************************************************)
(* The keeper of Fortuna, the service of an Entropy provider               *)
(* (apps/fortuna/src/keeper).  It watches a chain for                      *)
(* RequestedWithCallback events and answers each one of its provider with  *)
(* a revealWithCallback transaction.                                       *)
(*                                                                         *)
(* The threads that run_keeper_threads spawns are actors here: the watcher *)
(* sends ranges of safe blocks over a bounded channel, two workers (new    *)
(* blocks and backlog) scan ranges for events, every new event gets a task *)
(* that submits the reveal, and an updater advances the provider's         *)
(* commitment.  They share the set of sequence numbers already taken.      *)
(*                                                                         *)
(* The chain is external: it grows, it may drop its last blocks (a reorg), *)
(* and each RPC call is answered by a node that may lag behind.            *)
(***************************************************************************)
EXTENDS HashChain, FiniteSetsExt

CONSTANTS
  Us,                      \* chain_state.provider_address
  OtherProvider,           \* other providers of the same Entropy contract
  User,                    \* consumers that request random numbers
  NoUser,                  \* nobody
  HeavyUser,               \* users whose callback needs more than gas_limit
  reveal_delay_blocks,
  max_num_hashes,          \* limit of the provider, 0 for none
  RETRY_PREVIOUS_BLOCKS,
  BACKLOG_RANGE,
  BLOCK_BATCH_SIZE,
  block_delays,            \* sequence of delays in blocks
  ChannelCapacity,         \* capacity of the mpsc channel
  MaxRetries,              \* retries within the 5 minutes of the backoff
  MaxLag,                  \* blocks an RPC node may lag behind the chain
  ReorgDepth,              \* blocks a reorg may drop
  InitialHead,             \* blocks of the chain when the model starts
  MaxBlock,                \* bound on the length of the chain
  MaxRequest,              \* bound on the requests made
  MaxCrash                 \* bound on the crashes of the process

ASSUME KeeperAssumption ==
  /\ Us \notin OtherProvider /\ NoUser \notin User /\ HeavyUser \subseteq User
  /\ reveal_delay_blocks \in Nat /\ max_num_hashes \in Nat
  /\ RETRY_PREVIOUS_BLOCKS \in Nat /\ BACKLOG_RANGE \in Nat
  /\ BLOCK_BATCH_SIZE \in Nat /\ block_delays \in Seq(Nat)
  /\ ChannelCapacity \in Nat \ {0} /\ MaxRetries \in Nat
  /\ MaxLag \in Nat /\ ReorgDepth \in Nat /\ InitialHead \in Nat
  /\ MaxBlock \in Nat /\ MaxRequest \in Nat /\ MaxCrash \in Nat
  /\ InitialHead >= reveal_delay_blocks + MaxLag

VARIABLES
  chain,      \* the canonical chain, a sequence of blocks
  highest,    \* the longest the chain has been
  mempool,    \* keeper transactions that are not in a block
  receipts,   \* keeper transactions that were put in a block
  running,    \* the keeper process is up
  crashes,    \* how often it has crashed
  fulfilled_requests_cache,   \* sequence numbers already taken by a task
  last_safe_block_processed,  \* of watch_blocks
  outgoing,   \* the range watch_blocks is sending: a sequence of at most one
  channel,    \* ranges between watch_blocks and process_new_blocks
  worker,     \* the two scanning threads: ranges to scan, events to handle
  tasks,      \* process_event_with_backoff tasks in progress
  updater,    \* transactions update_commitments is waiting for
  spawned,    \* history: tasks spawned by this process for each event
  counted,    \* history: requests_processed_success of this process
  disclosed,  \* history: numbers whose hash chain element was published
  backlogFrom \* history: first block this process is to scan

chainVars   == <<chain, highest, mempool, receipts>>
scanVars    == <<fulfilled_requests_cache, last_safe_block_processed, outgoing,
                 channel, worker, spawned, backlogFrom>>
processVars == <<running, crashes>>
vars == <<chainVars, processVars, scanVars, tasks, updater, counted, disclosed>>

----------------------------------------------------------------------------
(* The chain and what can be read from it                                   *)

Provider == {Us} \cup OtherProvider
Worker == {"new_blocks", "backlog"}
NoRequest == [provider |-> Us, user |-> NoUser]

\* Block b holds at most one request and one keeper transaction that took
\* effect: it revealed the number `revealed` or moved the commitment to
\* `advanced` (0 for none).
EmptyBlock == [request |-> NoRequest, revealed |-> 0, advanced |-> 0]

hasRequest(b) == chain[b].request.user # NoUser

\* Blocks up to b with a request to p.  Entropy numbers them in this order,
\* from 1: the sequence number of a registration itself is 0.
requestBlocks(p, b) == {i \in 1..b : hasRequest(i) /\ chain[i].request.provider = p}

eventAt(b) ==
  [provider |-> chain[b].request.provider,
   sequence_number |-> Cardinality(requestBlocks(chain[b].request.provider, b)),
   user |-> chain[b].request.user]

fulfilledBy(b) == {chain[i].revealed : i \in 1..b} \ {0}

\* get_provider_info at block b: the next number, and the number the current
\* commitment has reached (by a reveal or by advanceProviderCommitment).
sequence_number(b) == 1 + Cardinality(requestBlocks(Us, b))

current_commitment_sequence_number(b) ==
  Max({0} \cup {chain[i].revealed : i \in 1..b} \cup {chain[i].advanced : i \in 1..b})

\* The user who holds number n of our provider on the canonical chain.
holder(n) ==
  LET blocks == {b \in 1..Len(chain) :
                   /\ hasRequest(b) /\ eventAt(b).provider = Us
                   /\ eventAt(b).sequence_number = n}
  IN  IF blocks = {} THEN NoUser ELSE chain[CHOOSE b \in blocks : TRUE].request.user

\* Heads an RPC node may answer from.
Views == {v \in 0..Len(chain) : v + MaxLag >= Len(chain)}

\* requestHelper reverts when the commitment is too far behind.
acceptsRequest(p) ==
  p = Us /\ max_num_hashes # 0 =>
    sequence_number(Len(chain)) - current_commitment_sequence_number(Len(chain))
      <= max_num_hashes

\* A keeper transaction in a block: a reveal fails when the number was already
\* revealed or when the consumer reverts, an advance when it does not advance.
takesEffect(tx) ==
  IF tx.kind = "reveal"
  THEN tx.number \notin fulfilledBy(Len(chain)) /\ holder(tx.number) # NoUser
  ELSE tx.number > current_commitment_sequence_number(Len(chain))

effect(block, tx) ==
  IF tx.kind = "reveal" THEN [block EXCEPT !.revealed = tx.number]
                        ELSE [block EXCEPT !.advanced = tx.number]

addBlock(block) ==
  /\ Len(chain) < MaxBlock
  /\ chain' = Append(chain, block)
  /\ highest' = Max({highest, Len(chain) + 1})
  /\ UNCHANGED <<processVars, scanVars, tasks, updater, counted, disclosed>>

NewRequest(p, user) ==
  /\ Cardinality({b \in 1..Len(chain) : hasRequest(b)}) < MaxRequest
  /\ acceptsRequest(p)
  /\ addBlock([EmptyBlock EXCEPT !.request = [provider |-> p, user |-> user]])
  /\ UNCHANGED <<mempool, receipts>>

NewEmptyBlock == addBlock(EmptyBlock) /\ UNCHANGED <<mempool, receipts>>

mine(tx) ==
  /\ tx \in mempool
  /\ mempool' = mempool \ {tx}
  /\ receipts' = receipts \cup {tx}

MineTx(tx) ==
  mine(tx) /\ takesEffect(tx) /\ addBlock(effect(EmptyBlock, tx))

RevertTx(tx) == mine(tx) /\ addBlock(EmptyBlock)

DropTx(tx) ==
  /\ tx \in mempool
  /\ mempool' = mempool \ {tx}
  /\ UNCHANGED <<chain, highest, receipts, processVars, scanVars, tasks, updater,
                 counted, disclosed>>

\* The chain switches to another branch: its last blocks are gone.
Reorg(length) ==
  /\ length < Len(chain) /\ length >= highest - ReorgDepth
  /\ length >= InitialHead
  /\ chain' = SubSeq(chain, 1, length)
  /\ UNCHANGED <<highest, mempool, receipts, processVars, scanVars, tasks, updater,
                 counted, disclosed>>

----------------------------------------------------------------------------
(* Blocks and ranges                                                        *)

BlockRange(from, to) == [from |-> from, to |-> to]

\* Mutant: plain subtraction.
plain_sub(a, b) == a - b

saturating_sub(a, b) == IF a >= b THEN a - b ELSE 0

\* The chain is longer than reveal_delay_blocks, so the subtraction of the
\* code does not wrap.
get_latest_safe_block(view) == view - reveal_delay_blocks

\* A range now, then once more for each configured delay.
withDelays(range) ==
  <<range>> \o [i \in 1..Len(block_delays) |->
                  BlockRange(saturating_sub(range.from, block_delays[i]),
                             saturating_sub(range.to, block_delays[i]))]

blocksOf(range) == range.from..range.to

----------------------------------------------------------------------------
(* run_keeper_threads, and the loss of the process                          *)

Idle == [ranges |-> << >>, events |-> << >>]

Start(view) ==
  LET latest_safe_block == get_latest_safe_block(view)
      backlog == BlockRange(saturating_sub(latest_safe_block, BACKLOG_RANGE),
                            latest_safe_block)
  IN  /\ ~running
      /\ running' = TRUE
      /\ last_safe_block_processed' = latest_safe_block
      /\ worker' = [new_blocks |-> Idle,
                    backlog |-> [Idle EXCEPT !.ranges = withDelays(backlog)]]
      /\ backlogFrom' = backlog.from
      /\ UNCHANGED <<chainVars, crashes, fulfilled_requests_cache, outgoing, channel,
                     tasks, updater, spawned, counted, disclosed>>

Event == Provider \X (1..MaxRequest)

Crash ==
  /\ running /\ crashes < MaxCrash
  /\ running' = FALSE /\ crashes' = crashes + 1
  /\ fulfilled_requests_cache' = {} /\ last_safe_block_processed' = 0
  /\ outgoing' = << >> /\ channel' = << >>
  /\ worker' = [w \in Worker |-> Idle]
  /\ tasks' = {} /\ updater' = {} /\ counted' = {} /\ backlogFrom' = 0
  /\ spawned' = [e \in Event |-> 0]
  /\ UNCHANGED <<chainVars, disclosed>>

----------------------------------------------------------------------------
(* watch_blocks                                                             *)

watch_blocks(view) ==
  LET latest_safe_block == get_latest_safe_block(view)
      retryFrom == saturating_sub(latest_safe_block, RETRY_PREVIOUS_BLOCKS)
      from == Min({retryFrom, last_safe_block_processed})
  IN  /\ running /\ outgoing = << >>
      /\ latest_safe_block > last_safe_block_processed
      /\ outgoing' = <<BlockRange(from, latest_safe_block)>>
      /\ UNCHANGED <<chainVars, processVars, fulfilled_requests_cache,
                     last_safe_block_processed, channel, worker, tasks, updater,
                     spawned, counted, disclosed, backlogFrom>>

\* Mutant: a range that finds the channel full is dropped.
sendRangeOrDrop ==
  /\ outgoing # << >>
  /\ channel' = IF Len(channel) < ChannelCapacity THEN channel \o outgoing ELSE channel
  /\ last_safe_block_processed' = outgoing[1].to
  /\ outgoing' = << >>
  /\ UNCHANGED <<chainVars, processVars, fulfilled_requests_cache, worker, tasks,
                 updater, spawned, counted, disclosed, backlogFrom>>

\* tx.send waits for room in the channel; last_safe_block_processed moves only
\* once the range is sent.
sendRange ==
  /\ outgoing # << >>
  /\ Len(channel) < ChannelCapacity
  /\ channel' = channel \o outgoing
  /\ last_safe_block_processed' = outgoing[1].to
  /\ outgoing' = << >>
  /\ UNCHANGED <<chainVars, processVars, fulfilled_requests_cache, worker, tasks,
                 updater, spawned, counted, disclosed, backlogFrom>>

----------------------------------------------------------------------------
(* process_new_blocks, process_backlog and process_block_range              *)

receiveRange ==
  /\ worker["new_blocks"] = Idle
  /\ channel # << >>
  /\ worker' = [worker EXCEPT !["new_blocks"].ranges = withDelays(Head(channel))]
  /\ channel' = Tail(channel)
  /\ UNCHANGED <<chainVars, processVars, fulfilled_requests_cache, outgoing,
                 last_safe_block_processed, tasks, updater, spawned, counted,
                 disclosed, backlogFrom>>

\* Mutant: the next batch starts one block too late.
skipsBlock(range, to) == IF to + 2 > range.to THEN << >>
                         ELSE <<BlockRange(to + 2, range.to)>>

\* What is left of a range after a batch that ended at `to`.
rest(range, to) == IF to + 1 > range.to THEN << >>
                   ELSE <<BlockRange(to + 1, range.to)>>

\* get_request_with_callback_events: the events in blocks from..to that the
\* node knows, in chain order, of every provider.
get_request_with_callback_events(from, to, view) ==
  LET blocks == {b \in from..to : b \in 1..view /\ hasRequest(b)}
      nth(i) == CHOOSE b \in blocks : Cardinality({c \in blocks : c <= b}) = i
  IN  [i \in 1..Cardinality(blocks) |-> eventAt(nth(i))]

\* One RPC call of process_single_block_batch; an error is retried and changes
\* nothing.  The range is never empty: from <= to by construction.
fetchBatch(w, view) ==
  LET range == Head(worker[w].ranges)
      to == Min({range.from + BLOCK_BATCH_SIZE, range.to})
  IN  /\ worker[w].ranges # << >> /\ worker[w].events = << >>
      /\ worker' = [worker EXCEPT ![w] =
           [ranges |-> rest(range, to) \o Tail(worker[w].ranges),
            events |-> get_request_with_callback_events(range.from, to, view)]]
      /\ UNCHANGED <<chainVars, processVars, fulfilled_requests_cache, outgoing,
                     channel, last_safe_block_processed, tasks, updater, spawned,
                     counted, disclosed, backlogFrom>>

newTask(event) == [event |-> event, attempt |-> 0, status |-> "spawned"]

\* Mutant: the sequence number is looked up in the cache but not inserted.
insertNothing(n) == UNCHANGED fulfilled_requests_cache

insert(n) == fulfilled_requests_cache' = fulfilled_requests_cache \cup {n}

\* One event of a fetched batch, under the write lock of the cache.
handleEvent(w) ==
  LET event == Head(worker[w].events)
      n == event.sequence_number
      newly_inserted == n \notin fulfilled_requests_cache
  IN  /\ worker[w].events # << >>
      /\ worker' = [worker EXCEPT ![w].events = Tail(@)]
      /\ insert(n)
      /\ IF newly_inserted
         THEN /\ tasks' = tasks \cup {newTask(event)}
              /\ spawned' = [spawned EXCEPT ![<<event.provider, n>>] = @ + 1]
         ELSE UNCHANGED <<tasks, spawned>>
      /\ UNCHANGED <<chainVars, processVars, outgoing, channel,
                     last_safe_block_processed, updater, counted, disclosed,
                     backlogFrom>>

----------------------------------------------------------------------------
(* process_event_with_backoff, submit_tx_with_backoff and submit_tx         *)

\* Publishing the element of number n lets everybody hash down to the elements
\* of all smaller numbers of the same chain.  The holders at that moment are
\* recorded.
disclose(n) ==
  disclosed' = disclosed \cup
    {[number |-> m, holder |-> holder(m)] : m \in {m \in 1..n : chain_index(m) = chain_index(n)}}

replaceTask(t, new) == tasks' = (tasks \ {t}) \cup {new}

taskStep == UNCHANGED <<processVars, scanVars, chain, highest, receipts, updater>>

\* A task that is not for our provider, or whose number the local chain cannot
\* reveal, ends at once.
startTask(t) ==
  /\ t.status = "spawned"
  /\ t.event.provider = Us /\ canReveal(t.event.sequence_number)
  /\ replaceTask(t, [t EXCEPT !.status = "submitting"])
  /\ disclose(t.event.sequence_number)
  /\ taskStep /\ UNCHANGED <<mempool, counted>>

ignoreTask(t) ==
  /\ t.status = "spawned"
  /\ t.event.provider # Us \/ ~canReveal(t.event.sequence_number)
  /\ tasks' = tasks \ {t}
  /\ taskStep /\ UNCHANGED <<mempool, counted, disclosed>>

\* submit_tx_with_backoff returns Ok whatever became of the transaction, so
\* only the success branch of process_event_with_backoff is ever taken.
finishTask(t) ==
  /\ tasks' = tasks \ {t}
  /\ counted' = counted \cup {t.event.sequence_number}
  /\ taskStep /\ UNCHANGED <<mempool, disclosed>>

\* A transient error: another attempt, or the end of the backoff.
retryTask(t) ==
  IF t.attempt < MaxRetries
  THEN /\ replaceTask(t, [t EXCEPT !.status = "submitting", !.attempt = @ + 1])
       /\ taskStep /\ UNCHANGED <<mempool, counted, disclosed>>
  ELSE finishTask(t)

txOf(t) == [kind |-> "reveal", number |-> t.event.sequence_number,
            attempt |-> t.attempt, process |-> crashes]

\* The gas estimate succeeds when the node still knows the request as pending,
\* and must stay within the limit; otherwise the task ends.
submitTx(t, view) ==
  LET n == t.event.sequence_number
  IN  /\ t.status = "submitting"
      /\ n < sequence_number(view) /\ n \notin fulfilledBy(view)
      /\ IF t.event.user \in HeavyUser
         THEN finishTask(t)
         ELSE /\ mempool' = mempool \cup {txOf(t)}
              /\ replaceTask(t, [t EXCEPT !.status = "waiting"])
              /\ taskStep /\ UNCHANGED <<counted, disclosed>>

\* Estimating, filling or sending fails (an RPC error or a reverting estimate).
submitFails(t) == t.status = "submitting" /\ retryTask(t)

receiveReceipt(t) ==
  t.status = "waiting" /\ txOf(t) \in receipts /\ finishTask(t)

\* No receipt in time, or an error while waiting: the transaction itself may
\* still get into a block.
receiptFails(t) == t.status = "waiting" /\ retryTask(t)

----------------------------------------------------------------------------
(* update_commitments_if_necessary                                          *)

threshold == (max_num_hashes * 95) \div 100

\* Mutant: provider info at the latest block of the node, not at the safe one.
providerInfoAtLatest(view) == view

\* `.block(latest_safe_block)`: the block at which get_provider_info is read.
providerInfoBlock(view) == get_latest_safe_block(view)

updateCommitments(view) ==
  LET block == providerInfoBlock(view)
      next  == sequence_number(block)
      tx    == [kind |-> "advance", number |-> next - 1, attempt |-> 0,
                process |-> crashes]
  IN  /\ running /\ updater = {}
      /\ max_num_hashes # 0
      /\ next - current_commitment_sequence_number(block) > threshold
      /\ canReveal(next - 1)
      /\ disclose(next - 1)
      /\ mempool' = mempool \cup {tx}
      /\ updater' = {tx}
      /\ UNCHANGED <<chain, highest, receipts, processVars, scanVars, tasks, counted>>

\* send_and_confirm returns, with a receipt or an error; the loop sleeps.
updateReturns ==
  /\ updater # {}
  /\ updater' = {}
  /\ UNCHANGED <<chainVars, processVars, scanVars, tasks, counted, disclosed>>

----------------------------------------------------------------------------
(* Specification                                                            *)

Init ==
  /\ chain = [b \in 1..InitialHead |-> EmptyBlock]
  /\ highest = InitialHead
  /\ mempool = {} /\ receipts = {}
  /\ running = FALSE /\ crashes = 0
  /\ fulfilled_requests_cache = {} /\ last_safe_block_processed = 0
  /\ outgoing = << >> /\ channel = << >>
  /\ worker = [w \in Worker |-> Idle]
  /\ tasks = {} /\ updater = {}
  /\ spawned = [e \in Event |-> 0]
  /\ counted = {} /\ disclosed = {} /\ backlogFrom = 0

ChainNext ==
  \/ \E p \in Provider, user \in User : NewRequest(p, user)
  \/ NewEmptyBlock
  \/ \E tx \in mempool : MineTx(tx) \/ RevertTx(tx) \/ DropTx(tx)
  \/ \E length \in 0..Len(chain) : Reorg(length)

WatcherNext == sendRange \/ \E view \in Views : watch_blocks(view)

WorkerNext(w) == handleEvent(w) \/ \E view \in Views : fetchBatch(w, view)

TaskNext ==
  \E t \in tasks :
    \/ startTask(t) \/ ignoreTask(t)
    \/ submitFails(t) \/ receiveReceipt(t) \/ receiptFails(t)
    \/ \E view \in Views : submitTx(t, view)

UpdaterNext == updateReturns \/ \E view \in Views : updateCommitments(view)

StartNext == \E view \in Views : Start(view)

Next ==
  \/ ChainNext \/ StartNext \/ Crash
  \/ WatcherNext \/ receiveRange \/ \E w \in Worker : WorkerNext(w)
  \/ TaskNext \/ UpdaterNext

Spec == Init /\ [][Next]_vars

\* Blocks keep coming, the process is restarted when it is down, and tokio
\* schedules every thread that can move (an RPC call fails now and then, not
\* for ever).  Nothing is assumed of users, reorgs, crashes or the mempool.
FairSpec ==
  /\ Spec
  /\ WF_vars(NewEmptyBlock) /\ WF_vars(StartNext)
  /\ WF_vars(WatcherNext) /\ WF_vars(receiveRange)
  /\ \A w \in Worker : WF_vars(WorkerNext(w))
  /\ WF_vars(TaskNext)

----------------------------------------------------------------------------
(* Properties                                                               *)

Block == [request : [provider : Provider, user : User \cup {NoUser}],
          revealed : Nat, advanced : Nat]
RangeRecord == [from : Nat, to : Nat]
EventRecord == [provider : Provider, sequence_number : Nat, user : User]
Task == [event : EventRecord, attempt : 0..MaxRetries,
         status : {"spawned", "submitting", "waiting"}]
Tx == [kind : {"reveal", "advance"}, number : Nat, attempt : 0..MaxRetries,
       process : Nat]

\* Every variable holds a value of its type; block numbers are unsigned, so the
\* subtractions that compute them stay above zero.
TypeOK ==
  /\ chain \in Seq(Block) /\ highest \in Nat
  /\ mempool \subseteq Tx /\ receipts \subseteq Tx /\ updater \subseteq Tx
  /\ running \in BOOLEAN /\ crashes \in 0..MaxCrash
  /\ fulfilled_requests_cache \subseteq Nat
  /\ last_safe_block_processed \in Nat /\ backlogFrom \in Nat
  /\ outgoing \in Seq(RangeRecord) /\ Len(outgoing) <= 1
  /\ channel \in Seq(RangeRecord) /\ Len(channel) <= ChannelCapacity
  /\ worker \in [Worker -> [ranges : Seq(RangeRecord), events : Seq(EventRecord)]]
  /\ tasks \subseteq Task
  /\ spawned \in [Event -> Nat]
  /\ counted \subseteq Nat
  /\ disclosed \subseteq [number : Nat, holder : User \cup {NoUser}]

\* "the write lock guarantees we spawn only one task per sequence number"
\* (process_single_block_batch): however often the ranges of the backlog, the
\* watcher and the delays overlap, a request gets one task per process.
OneTaskPerRequest == \A e \in Event : spawned[e] <= 1

\* The element of a hash chain that the keeper publishes, and with it those of
\* all smaller numbers, belong to requests that no reorg can take back: whoever
\* held the number at the time holds it for ever.  This is what the reveal
\* delay, and reading provider info at the safe block, are for.
DisclosedNumbersFinal ==
  \A d \in disclosed : d.holder # NoUser /\ holder(d.number) = d.holder

ours(b) == hasRequest(b) /\ chain[b].request.provider = Us

pendingRanges ==
  Range(channel) \cup UNION {Range(worker[w].ranges) : w \in Worker}

\* No request in the blocks the watcher has passed is lost between the threads:
\* it has its task, or its block is in a range still to be scanned, or its event
\* is in a fetched batch.
NoRequestSkipped ==
  running =>
    \A b \in backlogFrom..last_safe_block_processed :
      b \in 1..Len(chain) /\ ours(b) =>
        \/ spawned[<<Us, eventAt(b).sequence_number>>] > 0
        \/ \E range \in pendingRanges : b \in blocksOf(range)
        \/ \E w \in Worker : eventAt(b) \in Range(worker[w].events)

toHandle(b) == running /\ b \in 1..Len(chain) /\ ours(b) /\ b >= backlogFrom

handled(n) ==
  n \in counted \/ n \in fulfilledBy(Len(chain)) \/ ~canReveal(n)

\* "watch for new blocks and handle any events for the new blocks"
\* (run_keeper_threads): every request in a block that becomes safe, back to the
\* start of the backlog, is eventually answered or has used up its retries,
\* unless the process crashes; then the next process owes it again.
EveryRequestHandled ==
  \A b \in 1..(MaxBlock - reveal_delay_blocks) :
    toHandle(b) ~> (~toHandle(b) \/ handled(eventAt(b).sequence_number))

\* The requests_processed_success metric is documented as "Number of requests
\* processed successfully" (keeper_metrics.rs): the request was revealed.
SuccessMeansRevealed == counted \subseteq fulfilledBy(Len(chain))

\* Every element the keeper publishes for a number is the one Entropy expects
\* for it, whatever part of the chain is kept: a wrong one would revert each
\* reveal of the number (PebbleHashChain::reveal_ith).
DisclosedElementsExpected ==
  \A d \in disclosed : canReveal(d.number) /\ reveal(d.number) = expectedElement(d.number)
=============================================================================
