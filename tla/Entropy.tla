------------------------------ MODULE Entropy ------------------------------
(***************************************************************************)
(* The Entropy contract: two-party commit/reveal randomness on an EVM      *)
(* chain (target_chains/ethereum/contracts/contracts/entropy).  A provider *)
(* commits to a hash chain; requests are numbered along that chain, kept   *)
(* in a two-level hash table, and answered by revealing the chain element  *)
(* of the request's number.                                                *)
(*                                                                         *)
(* One action per external function.  A function that reverts leaves no    *)
(* trace, so its require/revert conditions are the guards.  Two functions  *)
(* hand control to another contract before they return (the value transfer *)
(* of withdraw and the consumer callback of revealWithCallback): they push *)
(* a frame holding the storage at their entry, every function may run      *)
(* while the frame is open, and the frame ends by returning or by          *)
(* reverting to the saved storage.                                         *)
(***************************************************************************)
EXTENDS Integers, Sequences

CONSTANTS
  Provider,          \* accounts that may register as randomness providers
  Requester,         \* accounts that request random numbers
  ContractAccount,   \* the requesters that have code (extcodesize # 0)
  Manager,           \* accounts that may become a provider's fee manager
  Owner,             \* owner() of the upgradeable proxy
  AdminAccount,      \* accounts that may be the admin
  NoAddress,         \* address(0)
  PrefillAddress,    \* address(1), written by _initialize's prefill
  Chain,             \* hash chains the providers can commit to
  NoChain,           \* "chain" of a word that nobody committed to
  UserNumber,        \* user random numbers
  NoNumber,          \* preimage nobody knows
  Uri, NoUri,        \* provider uris
  Slot,              \* indices of the requests array
  ShortKey(_, _),    \* requestKey's shortHash: bits of keccak(provider, seq)
  ChainLength,       \* chainLength arguments of register
  Fee,               \* fees providers and the admin may set
  Value,             \* msg.value of a request
  Amount,            \* amounts withdrawn
  HashLimit,         \* arguments of setMaxNumHashes
  MaxUint64,         \* bound of sequence numbers (checked arithmetic)
  MaxUint128,        \* bound of wei amounts (checked arithmetic)
  MaxUint32,         \* bound of numHashes (SafeCast.toUint32)
  BlockhashWindow,   \* blocks whose blockhash is available (256)
  MaxBlock,          \* bound on the blocks explored
  MaxCallDepth       \* bound on nested external calls

ASSUME ConstantsAssumption ==
  /\ MaxUint64 \in Nat /\ MaxUint128 \in Nat /\ MaxUint32 \in Nat
  /\ BlockhashWindow \in Nat /\ MaxBlock \in Nat /\ MaxCallDepth \in Nat
  /\ ChainLength \subseteq Nat /\ HashLimit \subseteq Nat
  /\ Fee \subseteq 0..MaxUint128 /\ Amount \subseteq Nat /\ Value \subseteq Nat
  /\ ContractAccount \subseteq Requester
  /\ NoAddress \notin Provider /\ PrefillAddress \notin Provider
  /\ NoAddress \notin Manager /\ NoAddress \notin AdminAccount
  /\ NoChain \notin Chain /\ NoNumber \notin UserNumber
  /\ \A p \in Provider, s \in 0..MaxUint64 : ShortKey(p, s) \in Slot

VARIABLES
  providers,             \* _state.providers
  requests,              \* _state.requests, the array of slots
  requestsOverflow,      \* _state.requestsOverflow, keyed by (provider, seq)
  accruedPythFeesInWei,  \* _state.accruedPythFeesInWei
  governance,            \* admin, proposedAdmin, pythFeeInWei, defaultProvider
  balance,               \* wei held by the contract
  events,                \* Requested and Revealed events of each (provider, seq)
  registrations,         \* Registered events of each provider
  blockNumber,           \* block.number
  callStack              \* storage saved by the external calls in progress

vars == <<providers, requests, requestsOverflow, accruedPythFeesInWei,
          governance, balance, events, registrations, blockNumber, callStack>>

----------------------------------------------------------------------------
(* Data: words of a hash chain, requests, provider records                  *)

SeqNo == 0..MaxUint64
Key   == Provider \X SeqNo

\* The i-th element x_i of a hash chain: keccak256(x_i) = x_(i-1).  Element 0
\* is the one a registration commits to; commitmentMetadata goes with it.
Word == [chain : Chain, index : 0..MaxUint64]
ZeroWord == [chain |-> NoChain, index |-> 0]

\* keccak256 applied numHashes times to a revealed word.
constructProviderCommitment(numHashes, revelation) ==
  [revelation EXCEPT !.index = @ - numHashes]

constructUserCommitment(userRandomness) == [keccak |-> userRandomness]

\* keccak256(userCommitment, providerCommitment)
Commitment(user, provider) == [user |-> user, provider |-> provider]

combineRandomValues(user, provider, blockHash) ==
  [user |-> user, provider |-> provider, blockHash |-> blockHash]

ZeroProviderInfo ==
  [feeInWei |-> 0, accruedFeesInWei |-> 0,
   originalCommitment |-> ZeroWord, originalCommitmentSequenceNumber |-> 0,
   uri |-> NoUri, endSequenceNumber |-> 0, sequenceNumber |-> 0,
   currentCommitment |-> ZeroWord, currentCommitmentSequenceNumber |-> 0,
   feeManager |-> NoAddress, maxNumHashes |-> 0]

ZeroRequest ==
  [provider |-> NoAddress, sequenceNumber |-> 0, numHashes |-> 0,
   commitment |-> Commitment(constructUserCommitment(NoNumber), ZeroWord),
   blockNumber |-> 0, requester |-> NoAddress,
   useBlockhash |-> FALSE, isRequestWithCallback |-> FALSE]

Requested(req) == [name |-> "Requested", request |-> req]

Revealed(req, randomNumber) ==
  [name |-> "Revealed", request |-> req, randomNumber |-> randomNumber]

Registered(start, commitment, end) ==
  [start |-> start, commitment |-> commitment, end |-> end]

----------------------------------------------------------------------------
(* The two-level hash table of requests                                     *)

isActive(req) == req.sequenceNumber # 0

holds(req, provider, sequenceNumber) ==
  req.provider = provider /\ req.sequenceNumber = sequenceNumber

lookup(array, overflow, provider, sequenceNumber) ==
  LET slot == array[ShortKey(provider, sequenceNumber)]
  IN  IF holds(slot, provider, sequenceNumber)
      THEN slot
      ELSE overflow[<<provider, sequenceNumber>>]

findRequest(provider, sequenceNumber) ==
  lookup(requests, requestsOverflow, provider, sequenceNumber)

\* Mutant: findActiveRequest without its isActive test.
findsStaleRequest(req, provider, sequenceNumber) ==
  holds(req, provider, sequenceNumber)

\* The revert condition of findActiveRequest.
isActiveRequest(req, provider, sequenceNumber) ==
  isActive(req) /\ holds(req, provider, sequenceNumber)

\* The slot keeps every field but the sequence number; the mapping is deleted.
clearRequest(provider, sequenceNumber) ==
  LET slot == ShortKey(provider, sequenceNumber)
  IN  IF holds(requests[slot], provider, sequenceNumber)
      THEN /\ requests' = [requests EXCEPT ![slot].sequenceNumber = 0]
           /\ UNCHANGED requestsOverflow
      ELSE /\ requestsOverflow' =
                [requestsOverflow EXCEPT ![<<provider, sequenceNumber>>] = ZeroRequest]
           /\ UNCHANGED requests

\* Mutant: the prior request of the slot is overwritten.
allocRequestNoOverflow(req) ==
  /\ requests' = [requests EXCEPT ![ShortKey(req.provider, req.sequenceNumber)] = req]
  /\ UNCHANGED requestsOverflow

\* The new request takes the slot; a prior active request moves to the mapping.
allocRequest(req) ==
  LET slot  == ShortKey(req.provider, req.sequenceNumber)
      prior == requests[slot]
  IN  /\ requests' = [requests EXCEPT ![slot] = req]
      /\ requestsOverflow' =
           IF isActive(prior)
           THEN [requestsOverflow EXCEPT
                   ![<<prior.provider, prior.sequenceNumber>>] = prior]
           ELSE requestsOverflow

----------------------------------------------------------------------------
(* External calls                                                           *)

Storage ==
  [providers |-> providers, requests |-> requests,
   requestsOverflow |-> requestsOverflow,
   accruedPythFeesInWei |-> accruedPythFeesInWei, governance |-> governance,
   balance |-> balance, events |-> events, registrations |-> registrations]

\* A call out of the contract, in a function whose entry storage is current.
externalCall ==
  /\ Len(callStack) < MaxCallDepth
  /\ callStack' = Append(callStack, Storage)

----------------------------------------------------------------------------
(* Provider operations                                                      *)

\* Mutant: a rotation that keeps the current commitment of the old chain.
registerKeepsCurrent(provider, feeInWei, chain, chainLength, uri) ==
  LET start      == providers[provider].sequenceNumber
      commitment == [chain |-> chain, index |-> 0]
  IN  /\ chainLength # 0
      /\ start + chainLength <= MaxUint64
      /\ providers' = [providers EXCEPT ![provider] = [@ EXCEPT
           !.feeInWei = feeInWei,
           !.originalCommitment = commitment,
           !.originalCommitmentSequenceNumber = start,
           !.endSequenceNumber = start + chainLength,
           !.uri = uri,
           !.sequenceNumber = start + 1]]
      /\ registrations' = [registrations EXCEPT ![provider] =
           @ \cup {Registered(start, commitment, start + chainLength)}]
      /\ UNCHANGED <<requests, requestsOverflow, accruedPythFeesInWei,
                     governance, balance, events, blockNumber, callStack>>

register(provider, feeInWei, chain, chainLength, uri) ==
  LET start      == providers[provider].sequenceNumber
      commitment == [chain |-> chain, index |-> 0]
  IN  /\ chainLength # 0
      /\ start + chainLength <= MaxUint64
      /\ providers' = [providers EXCEPT ![provider] = [@ EXCEPT
           !.feeInWei = feeInWei,
           !.originalCommitment = commitment,
           !.originalCommitmentSequenceNumber = start,
           !.currentCommitment = commitment,
           !.currentCommitmentSequenceNumber = start,
           !.endSequenceNumber = start + chainLength,
           !.uri = uri,
           !.sequenceNumber = start + 1]]
      /\ registrations' = [registrations EXCEPT ![provider] =
           @ \cup {Registered(start, commitment, start + chainLength)}]
      /\ UNCHANGED <<requests, requestsOverflow, accruedPythFeesInWei,
                     governance, balance, events, blockNumber, callStack>>

\* Mutant: withdraw without the "Insufficient balance" check.
payOutUnchecked(provider, amount) ==
  /\ amount <= balance
  /\ providers' = [providers EXCEPT ![provider].accruedFeesInWei = @ - amount]
  /\ balance' = balance - amount
  /\ externalCall
  /\ UNCHANGED <<requests, requestsOverflow, accruedPythFeesInWei, governance,
                 events, registrations, blockNumber>>

\* Mutant: the interaction comes first and the debit is lost.
payOutNoDebit(provider, amount) ==
  /\ providers[provider].accruedFeesInWei >= amount
  /\ amount <= balance
  /\ balance' = balance - amount
  /\ externalCall
  /\ UNCHANGED <<providers, requests, requestsOverflow, accruedPythFeesInWei,
                 governance, events, registrations, blockNumber>>

\* Debit first, then transfer: the receiver may call back before the return.
payOut(provider, amount) ==
  /\ providers[provider].accruedFeesInWei >= amount
  /\ amount <= balance
  /\ providers' = [providers EXCEPT ![provider].accruedFeesInWei = @ - amount]
  /\ balance' = balance - amount
  /\ externalCall
  /\ UNCHANGED <<requests, requestsOverflow, accruedPythFeesInWei, governance,
                 events, registrations, blockNumber>>

withdraw(provider, amount) == payOut(provider, amount)

isFeeManager(manager, provider) ==
  /\ providers[provider].sequenceNumber # 0
  /\ providers[provider].feeManager = manager

withdrawAsFeeManager(manager, provider, amount) ==
  isFeeManager(manager, provider) /\ payOut(provider, amount)

\* Configuration setters of a registered provider: only its record changes.
setProviderField(provider, info) ==
  /\ providers[provider].sequenceNumber # 0
  /\ providers' = [providers EXCEPT ![provider] = info]
  /\ UNCHANGED <<requests, requestsOverflow, accruedPythFeesInWei, governance,
                 balance, events, registrations, blockNumber, callStack>>

setProviderFee(provider, newFeeInWei) ==
  setProviderField(provider, [providers[provider] EXCEPT !.feeInWei = newFeeInWei])

setProviderFeeAsFeeManager(manager, provider, newFeeInWei) ==
  /\ isFeeManager(manager, provider)
  /\ setProviderField(provider, [providers[provider] EXCEPT !.feeInWei = newFeeInWei])

setProviderUri(provider, newUri) ==
  setProviderField(provider, [providers[provider] EXCEPT !.uri = newUri])

setFeeManager(provider, manager) ==
  setProviderField(provider, [providers[provider] EXCEPT !.feeManager = manager])

setMaxNumHashes(provider, maxNumHashes) ==
  setProviderField(provider, [providers[provider] EXCEPT !.maxNumHashes = maxNumHashes])

\* Mutant: advancing past the next number does not bump it.
advanceWithoutBump(provider, advancedSequenceNumber, providerRevelation) ==
  LET info      == providers[provider]
      numHashes == advancedSequenceNumber - info.currentCommitmentSequenceNumber
  IN  /\ advancedSequenceNumber > info.currentCommitmentSequenceNumber
      /\ advancedSequenceNumber < info.endSequenceNumber
      /\ numHashes <= MaxUint32
      /\ constructProviderCommitment(numHashes, providerRevelation)
           = info.currentCommitment
      /\ providers' = [providers EXCEPT ![provider] = [@ EXCEPT
           !.currentCommitmentSequenceNumber = advancedSequenceNumber,
           !.currentCommitment = providerRevelation]]
      /\ UNCHANGED <<requests, requestsOverflow, accruedPythFeesInWei, governance,
                     balance, events, registrations, blockNumber, callStack>>

advanceProviderCommitment(provider, advancedSequenceNumber, providerRevelation) ==
  LET info      == providers[provider]
      numHashes == advancedSequenceNumber - info.currentCommitmentSequenceNumber
  IN  /\ advancedSequenceNumber > info.currentCommitmentSequenceNumber
      /\ advancedSequenceNumber < info.endSequenceNumber
      /\ numHashes <= MaxUint32
      /\ constructProviderCommitment(numHashes, providerRevelation)
           = info.currentCommitment
      /\ providers' = [providers EXCEPT ![provider] = [info EXCEPT
           !.currentCommitmentSequenceNumber = advancedSequenceNumber,
           !.currentCommitment = providerRevelation,
           !.sequenceNumber = IF advancedSequenceNumber >= info.sequenceNumber
                              THEN advancedSequenceNumber + 1
                              ELSE info.sequenceNumber]]
      /\ UNCHANGED <<requests, requestsOverflow, accruedPythFeesInWei, governance,
                     balance, events, registrations, blockNumber, callStack>>

----------------------------------------------------------------------------
(* Requests                                                                 *)

getFee(provider) == providers[provider].feeInWei + governance.pythFeeInWei

requestHelper(provider, requester, value, userCommitment, useBlockhash, isRequestWithCallback) ==
  LET info == providers[provider]
      assignedSequenceNumber == info.sequenceNumber
      numHashes == assignedSequenceNumber - info.currentCommitmentSequenceNumber
      pythShare == value - info.feeInWei
      req == [provider |-> provider,
              sequenceNumber |-> assignedSequenceNumber,
              numHashes |-> numHashes,
              commitment |-> Commitment(userCommitment, info.currentCommitment),
              blockNumber |-> blockNumber,
              requester |-> requester,
              useBlockhash |-> useBlockhash,
              isRequestWithCallback |-> isRequestWithCallback]
  IN  /\ info.sequenceNumber # 0
      /\ assignedSequenceNumber < info.endSequenceNumber
      /\ getFee(provider) <= MaxUint128
      /\ value >= getFee(provider)
      /\ value <= MaxUint128
      /\ info.accruedFeesInWei + info.feeInWei <= MaxUint128
      /\ accruedPythFeesInWei + pythShare <= MaxUint128
      /\ numHashes <= MaxUint32
      /\ info.maxNumHashes # 0 => numHashes <= info.maxNumHashes
      /\ providers' = [providers EXCEPT ![provider] = [info EXCEPT
           !.sequenceNumber = assignedSequenceNumber + 1,
           !.accruedFeesInWei = info.accruedFeesInWei + info.feeInWei]]
      /\ accruedPythFeesInWei' = accruedPythFeesInWei + pythShare
      /\ balance' = balance + value
      /\ allocRequest(req)
      /\ events' = [events EXCEPT ![<<provider, assignedSequenceNumber>>] =
           Append(@, Requested(req))]
      /\ UNCHANGED <<governance, registrations, blockNumber, callStack>>

request(provider, requester, value, userCommitment, useBlockhash) ==
  requestHelper(provider, requester, value, userCommitment, useBlockhash, FALSE)

requestWithCallback(provider, requester, value, userRandomNumber) ==
  requestHelper(provider, requester, value,
                constructUserCommitment(userRandomNumber), FALSE, TRUE)

----------------------------------------------------------------------------
(* Reveals                                                                  *)

\* blockhash(n) is non-zero only for the BlockhashWindow blocks before this one.
blockhashAvailable(n) == n < blockNumber /\ blockNumber - n <= BlockhashWindow

NoBlockhash == -1

blockhashOf(req) == IF req.useBlockhash THEN req.blockNumber ELSE NoBlockhash

\* Mutant: every reveal moves the current commitment, late ones backwards.
revealHelperAlwaysMoves(req, userRevelation, providerRevelation) ==
  /\ Commitment(constructUserCommitment(userRevelation),
                constructProviderCommitment(req.numHashes, providerRevelation))
       = req.commitment
  /\ req.useBlockhash => blockhashAvailable(req.blockNumber)
  /\ events' = [events EXCEPT ![<<req.provider, req.sequenceNumber>>] = Append(@,
       Revealed(req, combineRandomValues(userRevelation, providerRevelation,
                                         blockhashOf(req))))]
  /\ providers' = [providers EXCEPT ![req.provider] = [@ EXCEPT
       !.currentCommitmentSequenceNumber = req.sequenceNumber,
       !.currentCommitment = providerRevelation]]

\* Checks both revelations, logs the number and moves the provider's current
\* commitment forward unless the request is older than it.
revealHelper(req, userRevelation, providerRevelation) ==
  /\ Commitment(constructUserCommitment(userRevelation),
                constructProviderCommitment(req.numHashes, providerRevelation))
       = req.commitment
  /\ req.useBlockhash => blockhashAvailable(req.blockNumber)
  /\ events' = [events EXCEPT ![<<req.provider, req.sequenceNumber>>] = Append(@,
       Revealed(req, combineRandomValues(userRevelation, providerRevelation,
                                         blockhashOf(req))))]
  /\ providers' =
       IF providers[req.provider].currentCommitmentSequenceNumber < req.sequenceNumber
       THEN [providers EXCEPT ![req.provider] = [@ EXCEPT
               !.currentCommitmentSequenceNumber = req.sequenceNumber,
               !.currentCommitment = providerRevelation]]
       ELSE providers

reveal(sender, provider, sequenceNumber, userRevelation, providerRevelation) ==
  LET req == findRequest(provider, sequenceNumber)
  IN  /\ isActiveRequest(req, provider, sequenceNumber)
      /\ ~req.isRequestWithCallback
      /\ req.requester = sender
      /\ revealHelper(req, userRevelation, providerRevelation)
      /\ clearRequest(provider, sequenceNumber)
      /\ UNCHANGED <<accruedPythFeesInWei, governance, balance, registrations,
                     blockNumber, callStack>>

\* Mutant: the request is still in the table while the consumer runs.
revealWithCallbackNoClear(provider, sequenceNumber, userRandomNumber, providerRevelation) ==
  LET req == findRequest(provider, sequenceNumber)
  IN  /\ isActiveRequest(req, provider, sequenceNumber)
      /\ req.isRequestWithCallback
      /\ revealHelper(req, userRandomNumber, providerRevelation)
      /\ IF req.requester \in ContractAccount
         THEN externalCall
         ELSE UNCHANGED callStack
      /\ UNCHANGED <<requests, requestsOverflow, accruedPythFeesInWei, governance,
                     balance, registrations, blockNumber>>

\* The request is cleared before the consumer is called.
revealWithCallback(provider, sequenceNumber, userRandomNumber, providerRevelation) ==
  LET req == findRequest(provider, sequenceNumber)
  IN  /\ isActiveRequest(req, provider, sequenceNumber)
      /\ req.isRequestWithCallback
      /\ revealHelper(req, userRandomNumber, providerRevelation)
      /\ clearRequest(provider, sequenceNumber)
      /\ IF req.requester \in ContractAccount
         THEN externalCall
         ELSE UNCHANGED callStack
      /\ UNCHANGED <<accruedPythFeesInWei, governance, balance, registrations,
                     blockNumber>>

----------------------------------------------------------------------------
(* Governance (EntropyGovernance)                                           *)

authoriseAdminAction(sender) == sender = Owner \/ sender = governance.admin

setGovernance(new) ==
  /\ governance' = new
  /\ UNCHANGED <<providers, requests, requestsOverflow, accruedPythFeesInWei,
                 balance, events, registrations, blockNumber, callStack>>

proposeAdmin(sender, newAdmin) ==
  /\ authoriseAdminAction(sender)
  /\ setGovernance([governance EXCEPT !.proposedAdmin = newAdmin])

acceptAdmin(sender) ==
  /\ sender = governance.proposedAdmin
  /\ setGovernance([governance EXCEPT !.admin = sender, !.proposedAdmin = NoAddress])

setPythFee(sender, newPythFee) ==
  /\ authoriseAdminAction(sender)
  /\ setGovernance([governance EXCEPT !.pythFeeInWei = newPythFee])

setDefaultProvider(sender, newDefaultProvider) ==
  /\ authoriseAdminAction(sender)
  /\ setGovernance([governance EXCEPT !.defaultProvider = newDefaultProvider])

----------------------------------------------------------------------------
(* The chain: blocks, and the end of external calls                         *)

NewBlock ==
  /\ callStack = << >>
  /\ blockNumber < MaxBlock
  /\ blockNumber' = blockNumber + 1
  /\ UNCHANGED <<providers, requests, requestsOverflow, accruedPythFeesInWei,
                 governance, balance, events, registrations, callStack>>

popCall ==
  /\ callStack # << >>
  /\ callStack' = SubSeq(callStack, 1, Len(callStack) - 1)

ReturnCall ==
  /\ popCall
  /\ UNCHANGED <<providers, requests, requestsOverflow, accruedPythFeesInWei,
                 governance, balance, events, registrations, blockNumber>>

\* require(sent) fails, or the consumer reverts: the whole function is undone.
RevertCall ==
  LET saved == callStack[Len(callStack)]
  IN  /\ popCall
      /\ providers' = saved.providers
      /\ requests' = saved.requests
      /\ requestsOverflow' = saved.requestsOverflow
      /\ accruedPythFeesInWei' = saved.accruedPythFeesInWei
      /\ governance' = saved.governance
      /\ balance' = saved.balance
      /\ events' = saved.events
      /\ registrations' = saved.registrations
      /\ UNCHANGED blockNumber

----------------------------------------------------------------------------
(* Specification                                                            *)

Init ==
  /\ providers = [p \in Provider |-> ZeroProviderInfo]
  /\ \E address \in {NoAddress, PrefillAddress} :
       requests = [i \in Slot |-> [ZeroRequest EXCEPT !.provider = address]]
  /\ requestsOverflow = [k \in Key |-> ZeroRequest]
  /\ accruedPythFeesInWei = 0
  /\ \E admin \in AdminAccount, fee \in Fee, provider \in Provider :
       governance = [admin |-> admin, proposedAdmin |-> NoAddress,
                     pythFeeInWei |-> fee, defaultProvider |-> provider]
  /\ balance = 0
  /\ events = [k \in Key |-> << >>]
  /\ registrations = [p \in Provider |-> {}]
  /\ blockNumber = 1
  /\ callStack = << >>

ProviderNext ==
  \E p \in Provider :
    \/ \E fee \in Fee, chain \in Chain, length \in ChainLength, uri \in Uri :
         register(p, fee, chain, length, uri)
    \/ \E amount \in Amount : withdraw(p, amount)
    \/ \E m \in Manager, amount \in Amount : withdrawAsFeeManager(m, p, amount)
    \/ \E fee \in Fee : setProviderFee(p, fee)
    \/ \E m \in Manager, fee \in Fee : setProviderFeeAsFeeManager(m, p, fee)
    \/ \E uri \in Uri : setProviderUri(p, uri)
    \/ \E m \in Manager \cup {NoAddress} : setFeeManager(p, m)
    \/ \E limit \in HashLimit : setMaxNumHashes(p, limit)
    \/ \E s \in SeqNo, w \in Word : advanceProviderCommitment(p, s, w)

UserNext ==
  \E p \in Provider, u \in UserNumber :
    \/ \E r \in Requester, value \in Value, useBlockhash \in BOOLEAN :
         request(p, r, value, constructUserCommitment(u), useBlockhash)
    \/ \E r \in Requester, value \in Value : requestWithCallback(p, r, value, u)
    \/ \E r \in Requester, s \in SeqNo, w \in Word : reveal(r, p, s, u, w)
    \/ \E s \in SeqNo, w \in Word : revealWithCallback(p, s, u, w)

GovernanceNext ==
  \E sender \in AdminAccount \cup {Owner} :
    \/ \E newAdmin \in AdminAccount : proposeAdmin(sender, newAdmin)
    \/ acceptAdmin(sender)
    \/ \E fee \in Fee : setPythFee(sender, fee)
    \/ \E p \in Provider : setDefaultProvider(sender, p)

Next == \/ ProviderNext \/ UserNext \/ GovernanceNext
        \/ NewBlock \/ ReturnCall \/ RevertCall

Spec == Init /\ [][Next]_vars

----------------------------------------------------------------------------
(* Types                                                                    *)

Wei == 0..MaxUint128

ProviderInfo ==
  [feeInWei : Wei, accruedFeesInWei : Wei,
   originalCommitment : Word \cup {ZeroWord},
   originalCommitmentSequenceNumber : SeqNo,
   uri : Uri \cup {NoUri}, endSequenceNumber : SeqNo, sequenceNumber : SeqNo,
   currentCommitment : Word \cup {ZeroWord},
   currentCommitmentSequenceNumber : SeqNo,
   feeManager : Manager \cup {NoAddress}, maxNumHashes : HashLimit \cup {0}]

Request ==
  [provider : Provider \cup {NoAddress, PrefillAddress}, sequenceNumber : SeqNo,
   numHashes : 0..MaxUint32,
   commitment : [user : [keccak : UserNumber \cup {NoNumber}],
                 provider : Word \cup {ZeroWord}],
   blockNumber : Nat, requester : Requester \cup {NoAddress},
   useBlockhash : BOOLEAN, isRequestWithCallback : BOOLEAN]

RandomNumber ==
  [user : UserNumber, provider : Word, blockHash : Nat \cup {NoBlockhash}]

Event ==
  [name : {"Requested"}, request : Request] \cup
  [name : {"Revealed"}, request : Request, randomNumber : RandomNumber]

Governance ==
  [admin : AdminAccount \cup {Owner},
   proposedAdmin : AdminAccount \cup {Owner, NoAddress},
   pythFeeInWei : Wei, defaultProvider : Provider]

StorageType ==
  [providers : [Provider -> ProviderInfo], requests : [Slot -> Request],
   requestsOverflow : [Key -> Request], accruedPythFeesInWei : Wei,
   governance : Governance, balance : Nat, events : [Key -> Seq(Event)],
   registrations :
     [Provider -> SUBSET [start : SeqNo, commitment : Word, end : SeqNo]]]

\* The storage, and the storage saved by every call in progress, hold values of
\* the Solidity types: the checked arithmetic never leaves uint64 and uint128.
TypeOK ==
  /\ Storage \in StorageType
  /\ callStack \in Seq(StorageType)
  /\ blockNumber \in Nat

----------------------------------------------------------------------------
(* Safety.  Each property is an operator on the storage it reads, so that it *)
(* can be stated of the current storage and of a saved one.                 *)

\* EntropyStructs.sol: "The contract maintains the invariant that sequenceNumber
\* <= endSequenceNumber" and "Note that currentCommitmentSequenceNumber <
\* sequenceNumber".  The second keeps every element that was published (by a
\* reveal or by advanceProviderCommitment) below the next number to be assigned.
CountersIn(info) ==
  IF info.sequenceNumber = 0
  THEN info.endSequenceNumber = 0
  ELSE /\ info.originalCommitmentSequenceNumber
            <= info.currentCommitmentSequenceNumber
       /\ info.currentCommitmentSequenceNumber < info.sequenceNumber
       /\ info.sequenceNumber <= info.endSequenceNumber

\* Every registered provider's counters are ordered as documented, whatever
\* mix of rotations, advances and out-of-order reveals it went through.
ProviderCounters == \A p \in Provider : CountersIn(providers[p])

pending(log) == Len(log) = 1

TableIn(array, overflow, evs) ==
  \A p \in Provider, s \in SeqNo :
    LET log == evs[<<p, s>>]
        req == lookup(array, overflow, p, s)
    IN  IF pending(log)
        THEN isActiveRequest(req, p, s) /\ log = <<Requested(req)>>
        ELSE ~isActiveRequest(req, p, s)

\* The two-level table holds exactly the requests that were made and not yet
\* revealed, unchanged: collisions in the array never lose, mix up, duplicate or
\* revive a request.
TableFindsPending == TableIn(requests, requestsOverflow, events)

logsRequest(log, req, p, s) ==
  log[1] = Requested(req) /\ holds(req, p, s)

logsReveal(log, req) ==
  LET n == log[2].randomNumber
  IN  /\ log[2] = Revealed(req, n)
      /\ req.commitment.user = constructUserCommitment(n.user)
      /\ n.blockHash = blockhashOf(req)

LogIn(evs) ==
  \A p \in Provider, s \in SeqNo :
    LET log == evs[<<p, s>>]
        req == log[1].request
    IN  log # << >> =>
          /\ Len(log) \in 1..2
          /\ logsRequest(log, req, p, s)
          /\ Len(log) = 2 => logsReveal(log, req)

\* A sequence number is given to at most one request and revealed at most once
\* ("this function can only be called once per in-flight request"), for the
\* request and the user number that were committed to, also when the consumer's
\* callback calls the contract again before revealWithCallback returns.
RevealedOnce == LogIn(events)

\* The registration in force when the number s was assigned.
governs(regs, reg, s) ==
  /\ reg \in regs
  /\ reg.start < s /\ s < reg.end
  /\ \A other \in regs : other.start <= reg.start \/ s < other.start

committedWord(reg, s) == [reg.commitment EXCEPT !.index = @ + (s - reg.start)]

bindsTo(req, word) ==
  req.commitment.provider = constructProviderCommitment(req.numHashes, word)

OutcomeIn(evs, regs) ==
  \A p \in Provider, s \in SeqNo :
    LET log == evs[<<p, s>>]
    IN  log # << >> =>
          \E reg \in regs[p] :
            /\ governs(regs[p], reg, s)
            /\ bindsTo(log[1].request, committedWord(reg, s))
            /\ Len(log) = 2 => log[2].randomNumber.provider = committedWord(reg, s)

\* The provider's share of a random number is fixed when the request is made:
\* it is the element of the chain registered last, at the distance of the
\* request from that registration.  The provider can still reveal it, and
\* nothing else, after any rotation, advance or reveal of other requests.
RevealsCommittedNumber == OutcomeIn(events, registrations)

ChainIn(info, regs) ==
  info.sequenceNumber # 0 =>
    /\ Registered(info.originalCommitmentSequenceNumber, info.originalCommitment,
                  info.endSequenceNumber) \in regs
    /\ \A reg \in regs : reg.start <= info.originalCommitmentSequenceNumber
    /\ info.currentCommitment =
         [info.originalCommitment EXCEPT !.index =
            @ + (info.currentCommitmentSequenceNumber
                   - info.originalCommitmentSequenceNumber)]

\* currentCommitment is the element of the latest registered chain at
\* currentCommitmentSequenceNumber, the pair a new request is verified against.
CommitmentTracksChain ==
  \A p \in Provider : ChainIn(providers[p], registrations[p])
=============================================================================
