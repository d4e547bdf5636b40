----------------------------- MODULE Governance -----------------------------
(***************************************************************************)
(* Governance of Pythnet (governance/): a request is written into proposals*)
(* of a Squads multisig (xc_admin_common/propose.ts), a crank executes the *)
(* approved ones (crank_executor), each executed instruction that posts a  *)
(* Wormhole message gets the next sequence number, and a relayer carries   *)
(* the messages to the remote executor program on Pythnet                  *)
(* (crank_pythnet_relayer, remote_executor).                               *)
(*                                                                         *)
(* Several clients sign with one key, and the client of a transaction may  *)
(* give up on it while it can still land.  The Squads program and the      *)
(* Wormhole bridge are external: only what the clients rely on is stated.  *)
(***************************************************************************)
EXTENDS Integers, Sequences, FiniteSets, FiniteSetsExt, SequencesExt

CONSTANTS
  Req,          \* requests to propose
  Inputs,       \* [kind, sizes] of each request: what they may ask for
  MAX_INSTRUCTIONS_PER_PROPOSAL,
  MAX_EXECUTOR_PAYLOAD_SIZE,
  PACKET_DATA_SIZE,
  TIMEOUT,      \* attempts of sendAllTransactions
  MaxResume,    \* bound on the resumed requests
  MaxFault      \* bound on lost transactions, failed calls and other clients

\* A request asks for at least one instruction, a proposal can hold one, and a
\* transaction is tried once.
ASSUME GovernanceAssumption ==
  /\ MAX_INSTRUCTIONS_PER_PROPOSAL \in Nat \ {0} /\ TIMEOUT \in Nat \ {0}
  /\ Inputs \subseteq [Req -> [kind : {"local", "remote", "wormhole"},
                              sizes : Seq(Nat) \ {<<>>}]]

VARIABLES
  input,        \* what each request asks for
  pc,           \* of a request: "idle", "sending", "done", "failed"
  base,         \* transactionIndex that the request read
  txs,          \* transactions it has still to send
  retries,
  proposals,    \* the proposals of the vault
  messages,     \* the Wormhole messages of the vault, in sequence from 0
  flight,       \* transactions that were given up and may land
  crank,        \* what the crank has still to execute
  relayer,      \* lastSequenceNumber of the running relayer, or Stopped
  skipFailed,   \* SKIP_FAILED_REMOTE_INSTRUCTIONS
  claim,        \* the remote executor's claim record, -1 if absent
  relayFlight,  \* sequence numbers of relays that were given up
  remote,       \* sequence numbers executed on Pythnet, in order
  resumes, faults

clientVars == <<input, pc, base, txs, retries, resumes>>
relayVars == <<relayer, skipFailed, claim, relayFlight, remote>>
vars == <<clientVars, proposals, messages, flight, crank, relayVars, faults>>

Stopped == -2
OFFSET == -1
Ix(r, i) == [req |-> r, n |-> i, size |-> input[r].sizes[i]]
Instructions(r) == [i \in 1..Len(input[r].sizes) |-> Ix(r, i)]

-----------------------------------------------------------------------------
(* Batching *)

\* Size of instructions in an executor payload.
getSizeOfExecutorInstructions(ixs) ==
  FoldLeft(LAMBDA s, ix : s + ix.size, 0, ixs)

\* Mutant: the size is compared before the instruction is counted.
batchEndLate(ixs, i) ==
  Max({i} \cup {m \in i + 1..Len(ixs) - 1 :
                  getSizeOfExecutorInstructions(SubSeq(ixs, i, m - 1))
                    <= MAX_EXECUTOR_PAYLOAD_SIZE})

\* Where the batch that starts at i ends.  The last instruction is always
\* left for a batch of its own.
batchEnd(ixs, i) ==
  Max({i} \cup {m \in i + 1..Len(ixs) - 1 :
                  getSizeOfExecutorInstructions(SubSeq(ixs, i, m))
                    <= MAX_EXECUTOR_PAYLOAD_SIZE})

batchIntoExecutorPayload(ixs) ==
  LET from[i \in 1..Len(ixs) + 1] ==
        IF i > Len(ixs) THEN <<>>
        ELSE <<SubSeq(ixs, i, batchEnd(ixs, i))>> \o from[batchEnd(ixs, i) + 1]
  IN  from[1]

\* Size of a transaction: each operation of the multisig costs one unit, and
\* an added instruction its own size.
getSizeOfTransaction(ops) ==
  FoldLeft(LAMBDA s, op : s + 1 + getSizeOfExecutorInstructions(op.ix), 0, ops)

\* An operation goes into the last transaction if it fits with the two
\* instructions that may be appended, else it opens the next one.  Every
\* operation fits into a transaction: buildLegacyTransactions throws before
\* anything is sent for one that does not.
addInstruction(batch, op) ==
  IF batch # <<>> /\ getSizeOfTransaction(Append(Last(batch), op)) + 2 <= PACKET_DATA_SIZE
  THEN Front(batch) \o <<Append(Last(batch), op)>>
  ELSE Append(batch, <<op>>)

batchIntoLegacyTransactions(ops) == FoldLeft(addInstruction, <<>>, ops)

-----------------------------------------------------------------------------
(* The multisig program: external. A transaction is applied whole or not. *)

Op(type, k, i, ix) == [type |-> type, k |-> k, i |-> i, ix |-> ix]

\* The operation is accepted by proposals ps.
accepts(ps, op) ==
  IF op.type = "create" THEN op.k = Len(ps) + 1
  ELSE /\ op.k \in 1..Len(ps)
       /\ LET p == ps[op.k] IN
          CASE op.type = "add"      -> p.status = "draft" /\ op.i = Len(p.ixs) + 1
            [] op.type = "activate" -> p.status = "draft"
            [] op.type = "approve"  -> p.status = "active"
            [] op.type = "execute"  -> p.status = "ready" /\ op.i = p.executed + 1

\* The proposals after an accepted operation of request r.
apply(ps, op, r) ==
  CASE op.type = "create" ->
         Append(ps, [owner |-> r, status |-> "draft", ixs |-> <<>>,
                     executed |-> 0, cancelled |-> FALSE])
    [] op.type = "add" -> [ps EXCEPT ![op.k].ixs = Append(@, op.ix)]
    [] op.type = "activate" -> [ps EXCEPT ![op.k].status = "active"]
    [] op.type = "approve" -> ps
    [] op.type = "execute" ->
         [ps EXCEPT ![op.k].executed = op.i,
                    ![op.k].status = IF op.i = Len(ps[op.k].ixs) THEN "executed" ELSE @]

\* Applies the operations of a transaction while they are accepted.
run(ops, r) ==
  FoldLeft(LAMBDA s, op : IF s.ok /\ accepts(s.ps, op)
                          THEN [ok |-> TRUE, ps |-> apply(s.ps, op, r)]
                          ELSE [s EXCEPT !.ok = FALSE],
           [ok |-> TRUE, ps |-> proposals], ops)

lands(ops, r) == run(ops, r).ok

\* Executing an instruction that posts a message gives it a sequence number.
posted(op) ==
  LET p == proposals[op.k] IN
  IF op.type = "execute" /\ input[p.owner].kind # "local"
  THEN Append(messages, [kind |-> input[p.owner].kind, ixs |-> p.ixs[op.i]])
  ELSE messages

land(ops, r) ==
  /\ lands(ops, r)
  /\ proposals' = run(ops, r).ps
  /\ messages' = posted(Last(ops))

-----------------------------------------------------------------------------
Init ==
  /\ input \in Inputs
  /\ pc = [r \in Req |-> "idle"] /\ base = [r \in Req |-> 0]
  /\ txs = [r \in Req |-> <<>>] /\ retries = [r \in Req |-> 0]
  /\ proposals = <<>> /\ flight = {} /\ crank = <<>>
  /\ messages \in {<<>>, <<[kind |-> "wormhole", ixs |-> <<>>]>>}
  /\ relayer = Stopped /\ skipFailed \in BOOLEAN
  /\ claim = -1 /\ relayFlight = {} /\ remote = <<>>
  /\ resumes = 0 /\ faults = 0

Fault == faults < MaxFault /\ faults' = faults + 1

-----------------------------------------------------------------------------
(* Proposing *)

\* What is written for each added instruction: a payload with a batch of them
\* when they are for Pythnet, else one at a time.
contents(r) ==
  IF input[r].kind = "remote" THEN batchIntoExecutorPayload(Instructions(r))
  ELSE [i \in 1..Len(Instructions(r)) |-> <<Instructions(r)[i]>>]

\* Mutant: the loop over the instructions ends one too early.
addAllButLast(k, cs, first, last) ==
  [n \in 1..last - first |-> Op("add", k, n, cs[first + n - 1])]

\* The operations that write proposal k with instructions first .. last of
\* cs, numbered from 1.
addAll(k, cs, first, last) ==
  [n \in 1..last - first + 1 |-> Op("add", k, n, cs[first + n - 1])]

finish(k) == <<Op("activate", k, 0, <<>>), Op("approve", k, 0, <<>>)>>

\* The operations that write slice j of cs, from 0, as proposal k.
writeProposal(k, cs, j) ==
  LET max == MAX_INSTRUCTIONS_PER_PROPOSAL IN
  <<Op("create", k, 0, <<>>)>>
    \o addAll(k, cs, j * max + 1, Min({(j + 1) * max, Len(cs)})) \o finish(k)

\* proposeInstructions: as many proposals as it takes, at indexes that follow
\* the transactionIndex that was read.
proposeAll(r) ==
  LET cs == contents(r)
      max == MAX_INSTRUCTIONS_PER_PROPOSAL
  IN  FlattenSeq([j \in 1..(Len(cs) + max - 1) \div max |->
                    writeProposal(Len(proposals) + j, cs, j - 1)])

\* A request reads the multisig account and lists its transactions.  Messages
\* for other chains must fit in one proposal.
propose(r) ==
  /\ pc[r] = "idle"
  /\ IF input[r].kind = "wormhole" /\ Len(contents(r)) > MAX_INSTRUCTIONS_PER_PROPOSAL
     THEN /\ pc' = [pc EXCEPT ![r] = "failed"]
          /\ UNCHANGED <<txs, base>>
     ELSE /\ pc' = [pc EXCEPT ![r] = "sending"]
          /\ base' = [base EXCEPT ![r] = Len(proposals)]
          /\ txs' = [txs EXCEPT ![r] = batchIntoLegacyTransactions(proposeAll(r))]
  /\ retries' = [retries EXCEPT ![r] = 0]
  /\ UNCHANGED <<input, resumes, proposals, messages, flight, crank, relayVars, faults>>

\* proposeWormholeMultipleMessagesWithPayer with the address of a proposal of
\* its own: goes on after the last instruction that was added.
resume(r) ==
  /\ pc[r] = "failed" /\ input[r].kind = "wormhole" /\ resumes < MaxResume
  /\ base[r] + 1 \in 1..Len(proposals) /\ proposals[base[r] + 1].owner = r
  /\ LET k == base[r] + 1
         cs == contents(r)
     IN  txs' = [txs EXCEPT ![r] = batchIntoLegacyTransactions(
           [n \in 1..Len(cs) - Len(proposals[k].ixs) |->
              LET i == Len(proposals[k].ixs) + n IN Op("add", k, i, cs[i])] \o finish(k))]
  /\ pc' = [pc EXCEPT ![r] = "sending"]
  /\ retries' = [retries EXCEPT ![r] = 0]
  /\ resumes' = resumes + 1
  /\ UNCHANGED <<input, base, proposals, messages, flight, crank, relayVars, faults>>

\* sendAllTransactions: the transaction lands and is confirmed.
sendConfirmed(r) ==
  /\ pc[r] = "sending" /\ land(Head(txs[r]), r)
  /\ txs' = [txs EXCEPT ![r] = Tail(@)]
  /\ retries' = [retries EXCEPT ![r] = 0]
  /\ pc' = [pc EXCEPT ![r] = IF Len(txs[r]) = 1 THEN "done" ELSE @]
  /\ UNCHANGED <<input, base, resumes, flight, crank, relayVars, faults>>

\* Mutant: one attempt more than TIMEOUT.
retryOnceMore(r) ==
  /\ retries' = [retries EXCEPT ![r] = @ + 1]
  /\ pc' = [pc EXCEPT ![r] = IF retries[r] = TIMEOUT THEN "failed" ELSE @]
  /\ UNCHANGED <<input, base, txs, resumes>>

\* Mutant: goes on with the next transaction after TIMEOUT attempts.
retrySkipsTransaction(r) ==
  /\ IF retries[r] + 1 = TIMEOUT
     THEN /\ txs' = [txs EXCEPT ![r] = Tail(@)]
          /\ retries' = [retries EXCEPT ![r] = 0]
          /\ pc' = [pc EXCEPT ![r] = IF Len(txs[r]) = 1 THEN "done" ELSE @]
     ELSE /\ retries' = [retries EXCEPT ![r] = @ + 1]
          /\ UNCHANGED <<txs, pc>>
  /\ UNCHANGED <<input, base, resumes>>

\* After an attempt that failed: tries again, or throws.
retry(r) ==
  /\ retries' = [retries EXCEPT ![r] = @ + 1]
  /\ pc' = [pc EXCEPT ![r] = IF retries[r] + 1 = TIMEOUT THEN "failed" ELSE @]
  /\ UNCHANGED <<input, base, txs, resumes>>

\* The transaction lands and the program refuses it.
sendRejected(r) ==
  /\ pc[r] = "sending" /\ ~lands(Head(txs[r]), r)
  /\ retry(r)
  /\ UNCHANGED <<proposals, messages, flight, crank, relayVars, faults>>

\* No confirmation arrives in time; the transaction may still land.
sendUnconfirmed(r) ==
  /\ pc[r] = "sending" /\ Fault
  /\ flight' = flight \cup {[ops |-> Head(txs[r]), req |-> r]}
  /\ retry(r)
  /\ UNCHANGED <<proposals, messages, crank, relayVars>>

\* External: a transaction that was given up lands, or expires.
landLate ==
  \E f \in flight :
    /\ flight' = flight \ {f}
    /\ \/ land(f.ops, f.req)
       \/ UNCHANGED <<proposals, messages>>
    /\ UNCHANGED <<clientVars, crank, relayVars, faults>>

-----------------------------------------------------------------------------
(* External: the members of the multisig and other clients of the vault. *)

approveByMembers ==
  \E k \in 1..Len(proposals) :
    /\ proposals[k].status = "active"
    /\ proposals' = [proposals EXCEPT ![k].status = "ready"]
    /\ UNCHANGED <<clientVars, messages, flight, crank, relayVars, faults>>

cancelByMember ==
  \E k \in 1..Len(proposals) :
    /\ proposals[k].status = "ready" /\ ~proposals[k].cancelled /\ Fault
    /\ proposals' = [proposals EXCEPT ![k].cancelled = TRUE]
    /\ UNCHANGED <<clientVars, messages, flight, crank, relayVars>>

executeByOther ==
  \E k \in 1..Len(proposals) :
    /\ Fault
    /\ land(<<Op("execute", k, proposals[k].executed + 1, <<>>)>>, proposals[k].owner)
    /\ UNCHANGED <<clientVars, flight, crank, relayVars>>

-----------------------------------------------------------------------------
(* The crank *)

\* Mutant: every proposal from its first instruction.
getProposalsFromStart ==
  SelectSeq([k \in 1..Len(proposals) |->
               [k |-> k, i |-> 1, last |-> Len(proposals[k].ixs)]],
            LAMBDA e : /\ proposals[e.k].status = "ready"
                       /\ ~proposals[e.k].cancelled)

\* getProposals: the executable proposals, as they are now.
getProposals ==
  SelectSeq([k \in 1..Len(proposals) |->
               [k |-> k, i |-> proposals[k].executed + 1, last |-> Len(proposals[k].ixs)]],
            LAMBDA e : /\ proposals[e.k].status = "ready"
                       /\ ~proposals[e.k].cancelled)

crankStart ==
  /\ crank = <<>> /\ getProposals # <<>>
  /\ crank' = getProposals
  /\ UNCHANGED <<clientVars, proposals, messages, flight, relayVars, faults>>

crankOps == <<Op("execute", Head(crank).k, Head(crank).i, <<>>)>>
crankOwner == proposals[Head(crank).k].owner

\* executeProposal: one transaction for each instruction of the snapshot.
executeProposal ==
  /\ crank # <<>> /\ land(crankOps, crankOwner)
  /\ crank' = IF Head(crank).i < Head(crank).last
              THEN <<[Head(crank) EXCEPT !.i = @ + 1]>> \o Tail(crank)
              ELSE Tail(crank)
  /\ UNCHANGED <<clientVars, flight, relayVars, faults>>

\* A transaction that fails ends the crank; it is started again.
executeRejected ==
  /\ crank # <<>> /\ ~lands(crankOps, crankOwner)
  /\ crank' = <<>>
  /\ UNCHANGED <<clientVars, proposals, messages, flight, relayVars, faults>>

executeUnconfirmed ==
  /\ crank # <<>> /\ Fault
  /\ flight' = flight \cup {[ops |-> crankOps, req |-> crankOwner]}
  /\ crank' = <<>>
  /\ UNCHANGED <<clientVars, proposals, messages, relayVars>>

-----------------------------------------------------------------------------
(* The relayer and the remote executor *)

relayUnchanged == UNCHANGED <<clientVars, proposals, messages, flight, crank, skipFailed>>

\* The relayer starts after the claim record.
relayStart ==
  /\ relayer = Stopped
  /\ Max({claim, OFFSET}) + 1 < Len(messages)
  /\ relayer' = Max({claim, OFFSET})
  /\ relayUnchanged /\ UNCHANGED <<claim, relayFlight, remote, faults>>

nextSequence == relayer + 1
forPythnet(n) == messages[n + 1].kind = "remote"

\* execute_posted_vaa of sequence number n: the claim record, created with 0
\* if it is absent, must be lower.  Any payer may call it; here the relayers
\* are the only callers, and no instruction of a message fails for good.
accepted(n) == n > Max({claim, 0})

execute_posted_vaa(n) ==
  /\ accepted(n)
  /\ claim' = n
  /\ remote' = Append(remote, n)

\* A message for another chain is passed over.
relayOther ==
  /\ relayer # Stopped /\ nextSequence < Len(messages) /\ ~forPythnet(nextSequence)
  /\ relayer' = nextSequence
  /\ relayUnchanged /\ UNCHANGED <<claim, relayFlight, remote, faults>>

relayExecute ==
  /\ relayer # Stopped /\ nextSequence < Len(messages) /\ forPythnet(nextSequence)
  /\ execute_posted_vaa(nextSequence)
  /\ relayer' = nextSequence
  /\ relayUnchanged /\ UNCHANGED <<relayFlight, faults>>

\* Mutant: a failure is passed over without the flag.
alwaysContinues == nextSequence

\* What the relayer does when executing a message failed.
afterFailure == IF skipFailed THEN nextSequence ELSE Stopped

relayRejected ==
  /\ relayer # Stopped /\ nextSequence < Len(messages) /\ forPythnet(nextSequence)
  /\ ~accepted(nextSequence)
  /\ relayer' = afterFailure
  /\ relayUnchanged /\ UNCHANGED <<claim, relayFlight, remote, faults>>

relayUnconfirmed ==
  /\ relayer # Stopped /\ nextSequence < Len(messages) /\ forPythnet(nextSequence)
  /\ Fault
  /\ relayFlight' = relayFlight \cup {nextSequence}
  /\ relayer' = afterFailure
  /\ relayUnchanged /\ UNCHANGED <<claim, remote>>

\* There is no further message, or its signatures are not collected yet, or
\* a call failed: the relayer ends and is started again.
relayEnd ==
  /\ relayer # Stopped
  /\ \/ nextSequence >= Len(messages) /\ UNCHANGED faults
     \/ nextSequence < Len(messages) /\ Fault
  /\ relayer' = Stopped
  /\ relayUnchanged /\ UNCHANGED <<claim, relayFlight, remote>>

\* External: a relay that was given up lands, is refused or expires.
relayLandLate ==
  \E n \in relayFlight :
    /\ relayFlight' = relayFlight \ {n}
    /\ \/ execute_posted_vaa(n)
       \/ UNCHANGED <<claim, remote>>
    /\ relayUnchanged /\ UNCHANGED <<relayer, faults>>

-----------------------------------------------------------------------------
Propose(r) ==
  propose(r) \/ resume(r) \/ sendConfirmed(r) \/ sendRejected(r) \/ sendUnconfirmed(r)
Members == approveByMembers \/ cancelByMember \/ executeByOther \/ landLate
Crank == crankStart \/ executeProposal \/ executeRejected \/ executeUnconfirmed
Relay ==
  \/ relayStart \/ relayOther \/ relayExecute \/ relayRejected
  \/ relayUnconfirmed \/ relayEnd \/ relayLandLate

Next == (\E r \in Req : Propose(r)) \/ Members \/ Crank \/ Relay
Spec == Init /\ [][Next]_vars

\* The two cranks are run again and again; calls that are repeated succeed,
\* as the failures are bounded.
Fairness ==
  /\ WF_vars(crankStart \/ executeProposal \/ executeRejected)
  /\ WF_vars(relayStart \/ relayOther \/ relayExecute \/ relayRejected \/ relayEnd)
FairSpec == Spec /\ Fairness

-----------------------------------------------------------------------------
(* Properties *)

Status == {"draft", "active", "ready", "executed"}

\* The clients, the proposals and the claim record have their types: a
\* request is given up after TIMEOUT attempts (sendAllTransactions), and the
\* claim record names a message that was posted.
TypeOK ==
  /\ pc \in [Req -> {"idle", "sending", "done", "failed"}]
  /\ \A r \in Req : retries[r] \in 0..TIMEOUT /\ base[r] \in 0..Len(proposals)
  /\ \A k \in 1..Len(proposals) :
       /\ proposals[k].owner \in Req /\ proposals[k].status \in Status
       /\ proposals[k].executed \in 0..Len(proposals[k].ixs)
  /\ relayer \in Stopped..Len(messages) - 1
  /\ claim \in -1..Len(messages) - 1
  /\ relayFlight \subseteq 0..Len(messages) - 1

\* The instructions in the proposals of request r, in order.
written(r) ==
  FlattenSeq([k \in 1..Len(proposals) |->
    IF proposals[k].owner = r THEN FlattenSeq(proposals[k].ixs) ELSE <<>>])

\* Two requests at a time, transactions that land late and resumed requests
\* never mix, repeat, drop or reorder instructions: the proposals that one
\* request created hold a prefix of its instructions (proposeInstructions,
\* proposeWormholeMultipleMessagesWithPayer, sendAllTransactions).
ProposalsHoldOneRequest ==
  \A r \in Req : IsPrefix(written(r), Instructions(r))

\* A proposal that members can vote on is complete: it is full, or it ends
\* with the last instruction of the request (propose.ts activates last).
ActivatedIsComplete ==
  \A k \in 1..Len(proposals) : proposals[k].status # "draft" =>
    \/ Len(proposals[k].ixs) = MAX_INSTRUCTIONS_PER_PROPOSAL
    \/ /\ proposals[k].ixs # <<>>
       /\ Last(Last(proposals[k].ixs)).n = Len(input[proposals[k].owner].sizes)

\* An executor payload with more than one instruction fits in a transaction
\* (batchIntoExecutorPayload), and so does a transaction with more than one
\* operation (TransactionBuilder).
BatchesFit ==
  /\ \A k \in 1..Len(proposals) : \A b \in Range(proposals[k].ixs) :
       Len(b) > 1 => getSizeOfExecutorInstructions(b) <= MAX_EXECUTOR_PAYLOAD_SIZE
  /\ \A r \in Req : \A ops \in Range(txs[r]) :
       Len(ops) > 1 => getSizeOfTransaction(ops) + 2 <= PACKET_DATA_SIZE

\* Without SKIP_FAILED_REMOTE_INSTRUCTIONS no message for Pythnet is passed
\* over: the executed ones are all those up to the claim record, each once
\* and in order, whatever relays are lost or land late.
NoMessageSkipped ==
  ~skipFailed =>
    /\ Range(remote) = {n \in 1..Max({claim, 0}) : forPythnet(n)}
    /\ \A i, j \in DOMAIN remote : i < j => remote[i] < remote[j]

\* A message with sequence number 0 for Pythnet can never be executed, since
\* the claim record starts at 0, and stops a relayer that does not skip.
SequenceZeroUsed == messages # <<>> /\ forPythnet(0)

\* Every payload of proposal k was executed on Pythnet.
executedRemotely(k) ==
  \A b \in Range(proposals[k].ixs) :
    \E i \in DOMAIN remote : messages[remote[i] + 1].ixs = b

\* An approved proposal for Pythnet is executed there to its end: the crank
\* and the relayer resume where they were stopped.
ApprovedIsExecuted ==
  []<>(\/ skipFailed \/ SequenceZeroUsed
       \/ \A k \in 1..Len(proposals) :
            proposals[k].status \in {"ready", "executed"} =>
              \/ input[proposals[k].owner].kind # "remote"
              \/ proposals[k].cancelled \/ executedRemotely(k))
=============================================================================
