--------------------------- MODULE EntropyProofs ---------------------------
(***************************************************************************)
(* Theorems about the Entropy contract, for every set of providers, every  *)
(* hash table size and every depth of nested calls.                        *)
(***************************************************************************)
EXTENDS Entropy, TLAPS

-----------------------------------------------------------------------------
(* Types                                                                    *)

\* The variables of the storage have their types.
VarsTyped ==
  /\ providers \in [Provider -> ProviderInfo]
  /\ requests \in [Slot -> Request]
  /\ requestsOverflow \in [Key -> Request]
  /\ accruedPythFeesInWei \in Wei
  /\ governance \in Governance
  /\ balance \in Nat
  /\ events \in [Key -> Seq(Event)]
  /\ registrations \in
       [Provider -> SUBSET [start : SeqNo, commitment : Word, end : SeqNo]]

\* The record Storage is typed exactly when the variables are.
LEMMA StorageTyped == Storage \in StorageType <=> VarsTyped
  BY DEF Storage, StorageType, VarsTyped

\* The same after a step.
LEMMA StorageTypedNext == (Storage \in StorageType)' <=> VarsTyped'
  BY DEF Storage, StorageType, VarsTyped

\* A call pushes a typed frame.
LEMMA CallTyped ==
  ASSUME TypeOK, externalCall
  PROVE  callStack' \in Seq(StorageType)
  BY DEF TypeOK, externalCall

\* The end of a call pops one.
LEMMA PopTyped ==
  ASSUME TypeOK, popCall
  PROVE  /\ callStack' \in Seq(StorageType)
         /\ callStack[Len(callStack)] \in StorageType
  BY DEF TypeOK, popCall

\* The zero values of the Solidity types.
LEMMA ZeroTyped ==
  /\ ZeroProviderInfo \in ProviderInfo
  /\ ZeroRequest \in Request
  BY ConstantsAssumption
  DEF ConstantsAssumption, ZeroProviderInfo, ProviderInfo, ZeroRequest, Request,
      Commitment, constructUserCommitment, Word, ZeroWord, SeqNo, Wei

\* The state _initialize leaves is well typed.
LEMMA InitTyped == Init => TypeOK
<1> SUFFICES ASSUME Init PROVE TypeOK
  OBVIOUS
<1>1. providers \in [Provider -> ProviderInfo]
  BY ZeroTyped DEF Init
<1>2. requests \in [Slot -> Request]
  <2>1. PICK address \in {NoAddress, PrefillAddress} :
          requests = [i \in Slot |-> [ZeroRequest EXCEPT !.provider = address]]
    BY DEF Init
  <2>2. [ZeroRequest EXCEPT !.provider = address] \in Request
    BY ZeroTyped DEF Request, ZeroRequest
  <2> QED BY <2>1, <2>2
<1>3. requestsOverflow \in [Key -> Request]
  BY ZeroTyped DEF Init
<1>4. governance \in Governance
  BY ConstantsAssumption DEF Init, Governance, ConstantsAssumption, Wei
<1>5. accruedPythFeesInWei \in Wei /\ balance \in Nat /\ blockNumber \in Nat
  BY ConstantsAssumption DEF Init, ConstantsAssumption, Wei
<1>6. events \in [Key -> Seq(Event)]
  BY DEF Init
<1>7. registrations \in
        [Provider -> SUBSET [start : SeqNo, commitment : Word, end : SeqNo]]
  BY DEF Init
<1>8. callStack \in Seq(StorageType)
  BY DEF Init
<1> QED
  BY <1>1, <1>2, <1>3, <1>4, <1>5, <1>6, <1>7, <1>8, StorageTyped DEF TypeOK, VarsTyped

\* What register writes into a provider record.
LEMMA RegisteredInfoTyped ==
  ASSUME NEW info \in ProviderInfo, NEW fee \in Wei, NEW commitment \in Word,
         NEW start \in SeqNo, NEW end \in SeqNo, NEW uri \in Uri, NEW next \in SeqNo
  PROVE  [info EXCEPT
           !.feeInWei = fee,
           !.originalCommitment = commitment,
           !.originalCommitmentSequenceNumber = start,
           !.currentCommitment = commitment,
           !.currentCommitmentSequenceNumber = start,
           !.endSequenceNumber = end,
           !.uri = uri,
           !.sequenceNumber = next] \in ProviderInfo
  BY DEF ProviderInfo

\* A registration writes well-typed counters: the checked sum stays in uint64.
LEMMA RegisterTyped ==
  ASSUME TypeOK, NEW p \in Provider, NEW fee \in Fee, NEW chain \in Chain,
         NEW length \in ChainLength, NEW uri \in Uri, register(p, fee, chain, length, uri)
  PROVE  TypeOK'
<1> DEFINE start == providers[p].sequenceNumber
           commitment == [chain |-> chain, index |-> 0]
<1>0. VarsTyped
  BY StorageTyped DEF TypeOK
<1>1. start \in SeqNo /\ start + length \in SeqNo /\ start + 1 \in SeqNo
  <2>1. start \in SeqNo
    BY <1>0 DEF VarsTyped, ProviderInfo
  <2>2. length \in Nat /\ length # 0 /\ start + length <= MaxUint64 /\ MaxUint64 \in Nat
    BY ConstantsAssumption DEF ConstantsAssumption, register
  <2> QED BY <2>1, <2>2 DEF SeqNo
<1>2. commitment \in Word
  BY ConstantsAssumption DEF ConstantsAssumption, Word
<1>3. fee \in Wei
  BY ConstantsAssumption DEF ConstantsAssumption, Wei
<1>4. providers' \in [Provider -> ProviderInfo]
  <2>1. [providers[p] EXCEPT
           !.feeInWei = fee,
           !.originalCommitment = commitment,
           !.originalCommitmentSequenceNumber = start,
           !.currentCommitment = commitment,
           !.currentCommitmentSequenceNumber = start,
           !.endSequenceNumber = start + length,
           !.uri = uri,
           !.sequenceNumber = start + 1] \in ProviderInfo
    <3>1. providers[p] \in ProviderInfo
      BY <1>0 DEF VarsTyped
    <3> HIDE DEF start, commitment
    <3> QED BY <1>1, <1>2, <1>3, <3>1, RegisteredInfoTyped
  <2> QED BY <1>0, <2>1 DEF VarsTyped, register
<1>5. registrations' \in
        [Provider -> SUBSET [start : SeqNo, commitment : Word, end : SeqNo]]
  BY <1>0, <1>1, <1>2 DEF VarsTyped, register, Registered
<1> QED
  BY <1>0, <1>4, <1>5, StorageTypedNext DEF TypeOK, VarsTyped, register

\* A withdrawal keeps the accrued fees and the balance natural numbers.
LEMMA PayOutTyped ==
  ASSUME TypeOK, NEW p \in Provider, NEW amount \in Amount, payOut(p, amount)
  PROVE  TypeOK'
<1>0. VarsTyped
  BY StorageTyped DEF TypeOK
<1>1. amount \in Nat
  BY ConstantsAssumption DEF ConstantsAssumption
<1>2. providers[p].accruedFeesInWei - amount \in Wei
  BY <1>0, <1>1, ConstantsAssumption
  DEF VarsTyped, ProviderInfo, payOut, Wei, ConstantsAssumption
<1>3. providers' \in [Provider -> ProviderInfo]
  <2>1. [providers[p] EXCEPT !.accruedFeesInWei = @ - amount] \in ProviderInfo
    BY <1>0, <1>2 DEF VarsTyped, ProviderInfo
  <2> QED BY <1>0, <2>1 DEF VarsTyped, payOut
<1>4. balance' \in Nat
  BY <1>0, <1>1 DEF VarsTyped, payOut
<1> QED
  BY <1>0, <1>3, <1>4, CallTyped, StorageTypedNext DEF TypeOK, VarsTyped, payOut

\* The setters write one well-typed record.
LEMMA SetterTyped ==
  ASSUME TypeOK, NEW p \in Provider, NEW info \in ProviderInfo,
         setProviderField(p, info)
  PROVE  TypeOK'
<1>0. VarsTyped
  BY StorageTyped DEF TypeOK
<1> QED
  BY <1>0, StorageTypedNext DEF TypeOK, VarsTyped, setProviderField

\* An advance publishes a word of the chain and keeps the counters in uint64.
LEMMA AdvanceTyped ==
  ASSUME TypeOK, NEW p \in Provider, NEW s \in SeqNo, NEW w \in Word,
         advanceProviderCommitment(p, s, w)
  PROVE  TypeOK'
<1>0. VarsTyped
  BY StorageTyped DEF TypeOK
<1>1. providers[p].endSequenceNumber \in SeqNo /\ providers[p].sequenceNumber \in SeqNo
  BY <1>0 DEF VarsTyped, ProviderInfo
<1>2. s + 1 \in SeqNo
  BY <1>1, ConstantsAssumption
  DEF SeqNo, ConstantsAssumption, advanceProviderCommitment
<1> DEFINE next == IF s >= providers[p].sequenceNumber
                   THEN s + 1 ELSE providers[p].sequenceNumber
<1>3. next \in SeqNo
  BY <1>1, <1>2
<1>4. providers' \in [Provider -> ProviderInfo]
  <2>1. providers' = [providers EXCEPT ![p] = [providers[p] EXCEPT
           !.currentCommitmentSequenceNumber = s,
           !.currentCommitment = w,
           !.sequenceNumber = next]]
    BY Zenon DEF advanceProviderCommitment
  <2> HIDE DEF next
  <2>2. [providers[p] EXCEPT
           !.currentCommitmentSequenceNumber = s,
           !.currentCommitment = w,
           !.sequenceNumber = next] \in ProviderInfo
    BY <1>0, <1>3 DEF VarsTyped, ProviderInfo
  <2> QED BY <1>0, <2>1, <2>2 DEF VarsTyped
<1> QED
  BY <1>0, <1>4, StorageTypedNext DEF TypeOK, VarsTyped, advanceProviderCommitment

\* The request record that requestHelper builds.
builtRequest(p, r, userCommitment, useBlockhash, withCallback) ==
  [provider |-> p,
   sequenceNumber |-> providers[p].sequenceNumber,
   numHashes |-> providers[p].sequenceNumber
                   - providers[p].currentCommitmentSequenceNumber,
   commitment |-> Commitment(userCommitment, providers[p].currentCommitment),
   blockNumber |-> blockNumber,
   requester |-> r,
   useBlockhash |-> useBlockhash,
   isRequestWithCallback |-> withCallback]

\* The counters are ordered (proved below to hold in every storage), so the
\* number of hashes is a natural number.
LEMMA BuiltRequestTyped ==
  ASSUME TypeOK, ProviderCounters, NEW p \in Provider, NEW r \in Requester,
         NEW v \in Value, NEW u \in UserNumber, NEW b \in BOOLEAN, NEW c \in BOOLEAN,
         requestHelper(p, r, v, constructUserCommitment(u), b, c)
  PROVE  builtRequest(p, r, constructUserCommitment(u), b, c) \in Request
<1>1. providers[p] \in ProviderInfo /\ blockNumber \in Nat
  BY StorageTyped DEF TypeOK, VarsTyped
<1>2. /\ providers[p].sequenceNumber \in SeqNo
      /\ providers[p].currentCommitmentSequenceNumber \in SeqNo
      /\ providers[p].currentCommitment \in Word \cup {ZeroWord}
  BY <1>1 DEF ProviderInfo
<1>3. providers[p].sequenceNumber - providers[p].currentCommitmentSequenceNumber
        \in 0..MaxUint32
  <2>1. providers[p].sequenceNumber # 0
    BY DEF requestHelper
  <2>2. providers[p].currentCommitmentSequenceNumber < providers[p].sequenceNumber
    BY <2>1 DEF ProviderCounters, CountersIn
  <2>3. providers[p].sequenceNumber - providers[p].currentCommitmentSequenceNumber
          <= MaxUint32
    BY DEF requestHelper
  <2> QED BY <1>2, <2>2, <2>3, ConstantsAssumption DEF SeqNo, ConstantsAssumption
<1>4. Commitment(constructUserCommitment(u), providers[p].currentCommitment)
        \in [user : [keccak : UserNumber \cup {NoNumber}],
             provider : Word \cup {ZeroWord}]
  BY <1>2 DEF Commitment, constructUserCommitment
<1> QED
  BY <1>1, <1>2, <1>3, <1>4 DEF builtRequest, Request

\* The fees of a request stay in uint128 and the new number in uint64.
LEMMA RequestTyped ==
  ASSUME TypeOK, ProviderCounters, NEW p \in Provider, NEW r \in Requester,
         NEW v \in Value, NEW u \in UserNumber, NEW b \in BOOLEAN, NEW c \in BOOLEAN,
         requestHelper(p, r, v, constructUserCommitment(u), b, c)
  PROVE  TypeOK'
<1> DEFINE req == builtRequest(p, r, constructUserCommitment(u), b, c)
           s == providers[p].sequenceNumber
<1>0. VarsTyped
  BY StorageTyped DEF TypeOK
<1>1. req \in Request
  BY BuiltRequestTyped
<1>2. /\ s \in SeqNo /\ providers[p].endSequenceNumber \in SeqNo
      /\ providers[p].feeInWei \in Wei /\ providers[p].accruedFeesInWei \in Wei
      /\ governance.pythFeeInWei \in Wei
  BY <1>0 DEF VarsTyped, ProviderInfo, Governance
<1>3. v \in Nat /\ MaxUint64 \in Nat /\ MaxUint128 \in Nat
  BY ConstantsAssumption DEF ConstantsAssumption
<1>4. s + 1 \in SeqNo
  BY <1>2, <1>3 DEF SeqNo, requestHelper
<1>5. providers[p].accruedFeesInWei + providers[p].feeInWei \in Wei
  BY <1>2, <1>3 DEF Wei, requestHelper
<1>6. providers' \in [Provider -> ProviderInfo]
  <2>1. [providers[p] EXCEPT
           !.sequenceNumber = s + 1,
           !.accruedFeesInWei = providers[p].accruedFeesInWei + providers[p].feeInWei]
          \in ProviderInfo
    BY <1>0, <1>4, <1>5 DEF VarsTyped, ProviderInfo
  <2> QED BY <1>0, <2>1 DEF VarsTyped, requestHelper
<1>7. accruedPythFeesInWei' \in Wei /\ balance' \in Nat
  BY <1>0, <1>2, <1>3 DEF VarsTyped, Wei, requestHelper, getFee
<1>8. allocRequest(req)
  BY Zenon DEF requestHelper, builtRequest
<1>9. requests' \in [Slot -> Request] /\ requestsOverflow' \in [Key -> Request]
  <2>1. ShortKey(req.provider, req.sequenceNumber) \in Slot
    BY <1>2, ConstantsAssumption DEF builtRequest, ConstantsAssumption, SeqNo
  <2> HIDE DEF req
  <2> QED BY <1>0, <1>1, <1>8, <2>1 DEF VarsTyped, allocRequest
<1>10. events' \in [Key -> Seq(Event)]
  <2>1. Requested(req) \in Event
    BY <1>1 DEF Requested, Event
  <2>2. events' = [events EXCEPT ![<<p, s>>] = Append(events[<<p, s>>], Requested(req))]
    BY Zenon DEF requestHelper, builtRequest
  <2>3. <<p, s>> \in Key
    BY <1>2 DEF Key
  <2> HIDE DEF req
  <2> QED BY <1>0, <2>1, <2>2, <2>3 DEF VarsTyped
<1> QED
  BY <1>0, <1>6, <1>7, <1>9, <1>10, StorageTypedNext DEF TypeOK, VarsTyped, requestHelper

\* The table returns well-typed requests, and clearing keeps it typed.
LEMMA FindTyped ==
  ASSUME TypeOK, NEW p \in Provider, NEW s \in SeqNo
  PROVE  /\ findRequest(p, s) \in Request
         /\ clearRequest(p, s) =>
              requests' \in [Slot -> Request] /\ requestsOverflow' \in [Key -> Request]
<1>1. /\ requests \in [Slot -> Request]
      /\ requestsOverflow \in [Key -> Request]
  BY StorageTyped DEF TypeOK, VarsTyped
<1>2. ShortKey(p, s) \in Slot /\ <<p, s>> \in Key
  BY ConstantsAssumption DEF ConstantsAssumption, SeqNo, Key
<1>3. findRequest(p, s) \in Request
  BY <1>1, <1>2 DEF findRequest, lookup
<1>4. ASSUME clearRequest(p, s)
      PROVE  requests' \in [Slot -> Request] /\ requestsOverflow' \in [Key -> Request]
  <2>1. [requests[ShortKey(p, s)] EXCEPT !.sequenceNumber = 0] \in Request
    <3>1. 0 \in SeqNo /\ requests[ShortKey(p, s)] \in Request
      BY <1>1, <1>2, ConstantsAssumption DEF ConstantsAssumption, SeqNo
    <3> QED BY <3>1 DEF Request
  <2> QED BY <1>1, <1>2, <1>4, <2>1, ZeroTyped DEF clearRequest
<1> QED BY <1>3, <1>4

\* A reveal logs a well-typed event and moves the commitment within the types.
LEMMA RevealTyped ==
  ASSUME TypeOK, NEW p \in Provider, NEW s \in SeqNo, NEW u \in UserNumber,
         NEW w \in Word, NEW req \in Request,
         holds(req, p, s), revealHelper(req, u, w)
  PROVE  /\ providers' \in [Provider -> ProviderInfo]
         /\ events' \in [Key -> Seq(Event)]
<1> DEFINE n == combineRandomValues(u, w, blockhashOf(req))
<1>0. VarsTyped
  BY StorageTyped DEF TypeOK
<1>1. req.provider = p /\ req.sequenceNumber = s /\ req.blockNumber \in Nat
  BY DEF holds, Request
<1>2. Revealed(req, n) \in Event
  <2>0. blockhashOf(req) \in Nat \cup {NoBlockhash}
    BY <1>1 DEF blockhashOf
  <2>1. n \in RandomNumber
    BY <2>0 DEF RandomNumber, combineRandomValues
  <2> HIDE DEF n
  <2> QED BY <2>1 DEF Revealed, Event
<1>3. events' \in [Key -> Seq(Event)]
  <2>1. events' = [events EXCEPT ![<<p, s>>] = Append(events[<<p, s>>], Revealed(req, n))]
    BY <1>1 DEF revealHelper
  <2>2. <<p, s>> \in Key
    BY DEF Key
  <2> HIDE DEF n
  <2> QED BY <1>0, <1>2, <2>1, <2>2 DEF VarsTyped
<1>4. providers' \in [Provider -> ProviderInfo]
  <2>1. [providers[p] EXCEPT !.currentCommitmentSequenceNumber = s,
                             !.currentCommitment = w] \in ProviderInfo
    BY <1>0 DEF VarsTyped, ProviderInfo
  <2>2. \/ providers' = [providers EXCEPT ![p] =
              [providers[p] EXCEPT !.currentCommitmentSequenceNumber = s,
                                   !.currentCommitment = w]]
        \/ providers' = providers
    BY <1>1 DEF revealHelper
  <2> QED BY <1>0, <2>1, <2>2 DEF VarsTyped
<1> QED BY <1>3, <1>4

\* reveal keeps the types.
LEMMA RevealCallTyped ==
  ASSUME TypeOK, NEW sender \in Requester, NEW p \in Provider, NEW s \in SeqNo,
         NEW u \in UserNumber, NEW w \in Word, reveal(sender, p, s, u, w)
  PROVE  TypeOK'
<1>0. VarsTyped
  BY StorageTyped DEF TypeOK
<1>1. holds(findRequest(p, s), p, s) /\ revealHelper(findRequest(p, s), u, w)
  BY DEF reveal, isActiveRequest
<1>2. /\ providers' \in [Provider -> ProviderInfo]
      /\ events' \in [Key -> Seq(Event)]
      /\ requests' \in [Slot -> Request]
      /\ requestsOverflow' \in [Key -> Request]
  BY <1>1, FindTyped, RevealTyped DEF reveal
<1> QED
  BY <1>0, <1>2, StorageTypedNext DEF TypeOK, VarsTyped, reveal

\* revealWithCallback keeps the types, the frame it may open included.
LEMMA RevealWithCallbackTyped ==
  ASSUME TypeOK, NEW p \in Provider, NEW s \in SeqNo,
         NEW u \in UserNumber, NEW w \in Word, revealWithCallback(p, s, u, w)
  PROVE  TypeOK'
<1>0. VarsTyped
  BY StorageTyped DEF TypeOK
<1>1. holds(findRequest(p, s), p, s) /\ revealHelper(findRequest(p, s), u, w)
  BY DEF revealWithCallback, isActiveRequest
<1>2. /\ providers' \in [Provider -> ProviderInfo]
      /\ events' \in [Key -> Seq(Event)]
      /\ requests' \in [Slot -> Request]
      /\ requestsOverflow' \in [Key -> Request]
  BY <1>1, FindTyped, RevealTyped DEF revealWithCallback
<1>3. callStack' \in Seq(StorageType)
  BY CallTyped DEF revealWithCallback, TypeOK
<1> QED
  BY <1>0, <1>2, <1>3, StorageTypedNext DEF TypeOK, VarsTyped, revealWithCallback

\* Governance writes a well-typed record and nothing else.
LEMMA GovernanceTyped == TypeOK /\ GovernanceNext => TypeOK'
<1> SUFFICES ASSUME TypeOK, GovernanceNext PROVE TypeOK'
  OBVIOUS
<1>0. VarsTyped
  BY StorageTyped DEF TypeOK
<1>1. PICK new : setGovernance(new) /\ new \in Governance
  <2>1. PICK sender \in AdminAccount \cup {Owner} :
          \/ \E newAdmin \in AdminAccount : proposeAdmin(sender, newAdmin)
          \/ acceptAdmin(sender)
          \/ \E fee \in Fee : setPythFee(sender, fee)
          \/ \E p \in Provider : setDefaultProvider(sender, p)
    BY DEF GovernanceNext
  <2>2. governance \in Governance
    BY <1>0 DEF VarsTyped
  <2>3. ASSUME NEW a \in AdminAccount, proposeAdmin(sender, a)
        PROVE  \E new : setGovernance(new) /\ new \in Governance
    <3>1. [governance EXCEPT !.proposedAdmin = a] \in Governance
      BY <2>2 DEF Governance
    <3> QED BY <2>3, <3>1 DEF proposeAdmin
  <2>4. ASSUME acceptAdmin(sender)
        PROVE  \E new : setGovernance(new) /\ new \in Governance
    <3>1. [governance EXCEPT !.admin = sender, !.proposedAdmin = NoAddress] \in Governance
      BY <2>2 DEF Governance
    <3> QED BY <2>4, <3>1 DEF acceptAdmin
  <2>5. ASSUME NEW fee \in Fee, setPythFee(sender, fee)
        PROVE  \E new : setGovernance(new) /\ new \in Governance
    <3>1. fee \in Wei
      BY ConstantsAssumption DEF ConstantsAssumption, Wei
    <3>2. [governance EXCEPT !.pythFeeInWei = fee] \in Governance
      BY <2>2, <3>1 DEF Governance
    <3> QED BY <2>5, <3>2 DEF setPythFee
  <2>6. ASSUME NEW p \in Provider, setDefaultProvider(sender, p)
        PROVE  \E new : setGovernance(new) /\ new \in Governance
    <3>1. [governance EXCEPT !.defaultProvider = p] \in Governance
      BY <2>2 DEF Governance
    <3> QED BY <2>6, <3>1 DEF setDefaultProvider
  <2> QED BY <2>1, <2>3, <2>4, <2>5, <2>6
<1> QED
  BY <1>0, <1>1, StorageTypedNext DEF TypeOK, VarsTyped, setGovernance

\* Returning keeps the storage; reverting takes it from a typed frame.
LEMMA EndCallTyped == TypeOK /\ (ReturnCall \/ RevertCall) => TypeOK'
<1> SUFFICES ASSUME TypeOK, ReturnCall \/ RevertCall PROVE TypeOK'
  OBVIOUS
<1>0. VarsTyped
  BY StorageTyped DEF TypeOK
<1>1. CASE ReturnCall
  BY <1>0, <1>1, PopTyped, StorageTypedNext DEF TypeOK, VarsTyped, ReturnCall
<1>2. CASE RevertCall
  <2>1. popCall
    BY <1>2 DEF RevertCall
  <2>2. callStack[Len(callStack)] \in StorageType
    BY <2>1, PopTyped
  <2>3. VarsTyped'
    BY <1>2, <2>2 DEF VarsTyped, RevertCall, StorageType
  <2> QED
    BY <1>2, <2>1, <2>3, PopTyped, StorageTypedNext DEF TypeOK, RevertCall
<1> QED BY <1>1, <1>2

-----------------------------------------------------------------------------
(* The inductive invariant.  TableFindsPending speaks of what a lookup      *)
(* finds; to be preserved it needs where every live entry of the two levels *)
(* sits, that no request is in both, and that numbers not yet assigned have *)
(* no history.                                                              *)

\* A live slot sits at its own index and is pending.
SlotsPending(arr, evs) ==
  \A i \in Slot : isActive(arr[i]) =>
    /\ arr[i].provider \in Provider
    /\ ShortKey(arr[i].provider, arr[i].sequenceNumber) = i
    /\ evs[<<arr[i].provider, arr[i].sequenceNumber>>] = <<Requested(arr[i])>>

\* A live overflow entry sits at its own key, is pending, and is not also in
\* the array.
OverflowPending(arr, ovf, evs) ==
  \A p \in Provider, s \in SeqNo : isActive(ovf[<<p, s>>]) =>
    /\ holds(ovf[<<p, s>>], p, s)
    /\ evs[<<p, s>>] = <<Requested(ovf[<<p, s>>])>>
    /\ ~holds(arr[ShortKey(p, s)], p, s)

\* Every pending request is found.
PendingFound(arr, ovf, evs) ==
  \A p \in Provider, s \in SeqNo : Len(evs[<<p, s>>]) = 1 =>
    /\ isActiveRequest(lookup(arr, ovf, p, s), p, s)
    /\ evs[<<p, s>>] = <<Requested(lookup(arr, ovf, p, s))>>

TableInd(arr, ovf, evs) ==
  /\ SlotsPending(arr, evs)
  /\ OverflowPending(arr, ovf, evs)
  /\ PendingFound(arr, ovf, evs)

\* Only numbers below the provider's next number have a history.
Fresh(prov, evs) ==
  \A p \in Provider, s \in SeqNo :
    evs[<<p, s>>] # << >> => 0 < s /\ s < prov[p].sequenceNumber

\* The registrations of a provider, with the start of each its own.
RegistrationsInd(info, regs) ==
  /\ ChainIn(info, regs)
  /\ info.sequenceNumber = 0 => regs = {}
  /\ \A r1, r2 \in regs : r1.start = r2.start => r1 = r2

Safe(prov, arr, ovf, evs, regs) ==
  /\ \A p \in Provider : CountersIn(prov[p])
  /\ \A p \in Provider : RegistrationsInd(prov[p], regs[p])
  /\ TableInd(arr, ovf, evs)
  /\ Fresh(prov, evs)
  /\ LogIn(evs)
  /\ OutcomeIn(evs, regs)

FrameSafe(f) ==
  Safe(f.providers, f.requests, f.requestsOverflow, f.events, f.registrations)

IInv ==
  /\ TypeOK
  /\ Safe(providers, requests, requestsOverflow, events, registrations)
  /\ \A i \in DOMAIN callStack : FrameSafe(callStack[i])

\* A log with one event.
LEMMA OneEvent ==
  ASSUME NEW a
  PROVE  /\ Len(<<a>>) = 1 /\ <<a>>[1] = a /\ <<a>> # << >>
         /\ Append(<< >>, a) = <<a>>
  OBVIOUS

\* The same log with another event appended.
LEMMA TwoEvents ==
  ASSUME NEW log \in Seq(Event), NEW a, log = <<a>>, NEW b \in Event
  PROVE  /\ Len(Append(log, b)) = 2 /\ Append(log, b) # << >>
         /\ Append(log, b)[1] = a /\ Append(log, b)[2] = b
  OBVIOUS

\* What a lookup finds is what is pending.
LEMMA TableFinds ==
  ASSUME NEW arr \in [Slot -> Request], NEW ovf \in [Key -> Request],
         NEW evs \in [Key -> Seq(Event)], TableInd(arr, ovf, evs)
  PROVE  TableIn(arr, ovf, evs)
<1> SUFFICES ASSUME NEW p \in Provider, NEW s \in SeqNo, ~pending(evs[<<p, s>>])
             PROVE  ~isActiveRequest(lookup(arr, ovf, p, s), p, s)
  BY DEF TableIn, TableInd, PendingFound, pending
<1>1. ShortKey(p, s) \in Slot
  BY ConstantsAssumption DEF ConstantsAssumption, SeqNo
<1>2. ASSUME isActiveRequest(lookup(arr, ovf, p, s), p, s)
      PROVE  evs[<<p, s>>] = <<Requested(lookup(arr, ovf, p, s))>>
  BY <1>1, <1>2
  DEF isActiveRequest, lookup, holds, TableInd, SlotsPending, OverflowPending
<1>3. Len(<<Requested(lookup(arr, ovf, p, s))>>) = 1
  BY OneEvent
<1> QED BY <1>2, <1>3 DEF pending

\* Allocating a slot keeps the table consistent: a live request in the slot
\* moves to the overflow mapping and stays reachable there.
LEMMA AllocKeepsTable ==
  ASSUME NEW arr \in [Slot -> Request], NEW ovf \in [Key -> Request],
         NEW evs \in [Key -> Seq(Event)], TableInd(arr, ovf, evs),
         NEW p \in Provider, NEW s \in SeqNo, s # 0, evs[<<p, s>>] = << >>,
         NEW req \in Request, holds(req, p, s)
  PROVE  LET slot  == ShortKey(p, s)
             prior == arr[slot]
         IN  TableInd([arr EXCEPT ![slot] = req],
                      IF isActive(prior)
                      THEN [ovf EXCEPT ![<<prior.provider, prior.sequenceNumber>>] = prior]
                      ELSE ovf,
                      [evs EXCEPT ![<<p, s>>] = <<Requested(req)>>])
<1> DEFINE slot  == ShortKey(p, s)
           prior == arr[slot]
           arr1  == [arr EXCEPT ![slot] = req]
           ovf1  == IF isActive(prior)
                    THEN [ovf EXCEPT ![<<prior.provider, prior.sequenceNumber>>] = prior]
                    ELSE ovf
           evs1  == [evs EXCEPT ![<<p, s>>] = <<Requested(req)>>]
<1>1. slot \in Slot /\ <<p, s>> \in Key
  BY ConstantsAssumption DEF ConstantsAssumption, SeqNo, Key
<1>2. req.provider = p /\ req.sequenceNumber = s
  BY DEF holds
<1>3. /\ \A i \in Slot \ {slot} : arr1[i] = arr[i]
      /\ arr1[slot] = req
  BY <1>1
<1>4. /\ \A q \in Provider, t \in SeqNo : <<q, t>> # <<p, s>> => evs1[<<q, t>>] = evs[<<q, t>>]
      /\ evs1[<<p, s>>] = <<Requested(req)>>
  BY <1>1 DEF Key
<1>5. \A i \in Slot : arr[i].sequenceNumber \in SeqNo
  BY DEF Request
<1>6. isActive(prior) =>
        /\ prior.provider \in Provider /\ prior.sequenceNumber \in SeqNo
        /\ ShortKey(prior.provider, prior.sequenceNumber) = slot
        /\ evs[<<prior.provider, prior.sequenceNumber>>] = <<Requested(prior)>>
        /\ <<prior.provider, prior.sequenceNumber>> # <<p, s>>
  BY <1>1, <1>5, OneEvent DEF TableInd, SlotsPending
<1>7. \A q \in Provider, t \in SeqNo :
        ovf1[<<q, t>>] = IF isActive(prior) /\ holds(prior, q, t) THEN prior ELSE ovf[<<q, t>>]
  BY <1>6 DEF holds, Key
<1> HIDE DEF arr1, ovf1, evs1, prior, slot
<1>8. SlotsPending(arr1, evs1)
  <2> SUFFICES ASSUME NEW i \in Slot, isActive(arr1[i])
               PROVE  /\ arr1[i].provider \in Provider
                      /\ ShortKey(arr1[i].provider, arr1[i].sequenceNumber) = i
                      /\ evs1[<<arr1[i].provider, arr1[i].sequenceNumber>>]
                           = <<Requested(arr1[i])>>
    BY DEF SlotsPending
  <2>1. CASE i = slot
    BY <1>2, <1>3, <1>4, <2>1 DEF slot
  <2>2. CASE i # slot
    <3>1. arr1[i] = arr[i] /\ isActive(arr[i])
      BY <1>3, <2>2
    <3>2. /\ arr[i].provider \in Provider
          /\ ShortKey(arr[i].provider, arr[i].sequenceNumber) = i
          /\ evs[<<arr[i].provider, arr[i].sequenceNumber>>] = <<Requested(arr[i])>>
      BY <3>1 DEF TableInd, SlotsPending
    <3>3. <<arr[i].provider, arr[i].sequenceNumber>> # <<p, s>>
      BY <3>2, OneEvent
    <3> QED BY <1>4, <1>5, <3>1, <3>2, <3>3
  <2> QED BY <2>1, <2>2
<1>9. OverflowPending(arr1, ovf1, evs1)
  <2> SUFFICES ASSUME NEW q \in Provider, NEW t \in SeqNo, isActive(ovf1[<<q, t>>])
               PROVE  /\ holds(ovf1[<<q, t>>], q, t)
                      /\ evs1[<<q, t>>] = <<Requested(ovf1[<<q, t>>])>>
                      /\ ~holds(arr1[ShortKey(q, t)], q, t)
    BY DEF OverflowPending
  <2>0. ShortKey(q, t) \in Slot
    BY ConstantsAssumption DEF ConstantsAssumption, SeqNo
  <2>1. CASE isActive(prior) /\ holds(prior, q, t)
    <3>1. ovf1[<<q, t>>] = prior /\ q = prior.provider /\ t = prior.sequenceNumber
      BY <1>7, <2>1 DEF holds
    <3>2. <<q, t>> # <<p, s>> /\ evs[<<q, t>>] = <<Requested(prior)>>
      BY <1>6, <2>1, <3>1
    <3>3. ~holds(arr1[ShortKey(q, t)], q, t)
      BY <1>2, <1>3, <1>6, <2>1, <3>1, <3>2 DEF holds
    <3> QED BY <1>4, <2>1, <3>1, <3>2, <3>3
  <2>2. CASE ~(isActive(prior) /\ holds(prior, q, t))
    <3>1. ovf1[<<q, t>>] = ovf[<<q, t>>] /\ isActive(ovf[<<q, t>>])
      BY <1>7, <2>2
    <3>2. /\ holds(ovf[<<q, t>>], q, t)
          /\ evs[<<q, t>>] = <<Requested(ovf[<<q, t>>])>>
          /\ ~holds(arr[ShortKey(q, t)], q, t)
      BY <3>1 DEF TableInd, OverflowPending
    <3>3. <<q, t>> # <<p, s>>
      BY <3>2, OneEvent
    <3>4. ~holds(arr1[ShortKey(q, t)], q, t)
      BY <1>2, <1>3, <2>0, <3>2, <3>3 DEF holds
    <3> QED BY <1>4, <3>1, <3>2, <3>3, <3>4
  <2> QED BY <2>1, <2>2
<1>10. PendingFound(arr1, ovf1, evs1)
  <2> SUFFICES ASSUME NEW q \in Provider, NEW t \in SeqNo, Len(evs1[<<q, t>>]) = 1
               PROVE  /\ isActiveRequest(lookup(arr1, ovf1, q, t), q, t)
                      /\ evs1[<<q, t>>] = <<Requested(lookup(arr1, ovf1, q, t))>>
    BY DEF PendingFound
  <2>0. ShortKey(q, t) \in Slot
    BY ConstantsAssumption DEF ConstantsAssumption, SeqNo
  <2>1. CASE <<q, t>> = <<p, s>>
    <3>1. lookup(arr1, ovf1, q, t) = req
      BY <1>2, <1>3, <2>1 DEF lookup, holds, slot
    <3> QED BY <1>2, <1>4, <2>1, <3>1 DEF isActiveRequest, isActive, holds
  <2>2. CASE <<q, t>> # <<p, s>>
    <3>1. evs1[<<q, t>>] = evs[<<q, t>>]
      BY <1>4, <2>2
    <3>2. /\ isActiveRequest(lookup(arr, ovf, q, t), q, t)
          /\ evs[<<q, t>>] = <<Requested(lookup(arr, ovf, q, t))>>
      BY <3>1 DEF TableInd, PendingFound
    <3>3. lookup(arr1, ovf1, q, t) = lookup(arr, ovf, q, t)
      <4>1. CASE holds(arr[ShortKey(q, t)], q, t) /\ ShortKey(q, t) = slot
        <5>1. lookup(arr, ovf, q, t) = prior
          BY <4>1 DEF lookup, prior
        <5>2. isActive(prior) /\ holds(prior, q, t)
          BY <3>2, <5>1 DEF isActiveRequest
        <5>3. ~holds(arr1[ShortKey(q, t)], q, t)
          BY <1>2, <1>3, <2>2, <4>1 DEF holds
        <5> QED BY <1>7, <5>1, <5>2, <5>3 DEF lookup
      <4>2. CASE holds(arr[ShortKey(q, t)], q, t) /\ ShortKey(q, t) # slot
        BY <1>3, <2>0, <4>2 DEF lookup
      <4>3. CASE ~holds(arr[ShortKey(q, t)], q, t)
        <5>1. ~holds(arr1[ShortKey(q, t)], q, t)
          BY <1>2, <1>3, <2>0, <2>2, <4>3 DEF holds
        <5>2. ~(isActive(prior) /\ holds(prior, q, t))
          BY <1>6, <4>3 DEF holds, prior
        <5> QED BY <1>7, <4>3, <5>1, <5>2 DEF lookup
      <4> QED BY <4>1, <4>2, <4>3
    <3> QED BY <3>1, <3>2, <3>3
  <2> QED BY <2>1, <2>2
<1> QED BY <1>8, <1>9, <1>10 DEF TableInd, arr1, ovf1, evs1, prior, slot

\* Clearing a revealed request keeps the table consistent: it is in one of the
\* two levels only, and the slot it leaves behind is dead.
LEMMA ClearKeepsTable ==
  ASSUME NEW arr \in [Slot -> Request], NEW ovf \in [Key -> Request],
         NEW evs \in [Key -> Seq(Event)], TableInd(arr, ovf, evs),
         NEW p \in Provider, NEW s \in SeqNo,
         isActiveRequest(lookup(arr, ovf, p, s), p, s),
         NEW log \in Seq(Event), Len(log) = 2
  PROVE  LET slot == ShortKey(p, s)
             inArray == holds(arr[slot], p, s)
         IN  TableInd(IF inArray THEN [arr EXCEPT ![slot].sequenceNumber = 0] ELSE arr,
                      IF inArray THEN ovf ELSE [ovf EXCEPT ![<<p, s>>] = ZeroRequest],
                      [evs EXCEPT ![<<p, s>>] = log])
<1> DEFINE slot == ShortKey(p, s)
           inArray == holds(arr[slot], p, s)
           arr1 == IF inArray THEN [arr EXCEPT ![slot].sequenceNumber = 0] ELSE arr
           ovf1 == IF inArray THEN ovf ELSE [ovf EXCEPT ![<<p, s>>] = ZeroRequest]
           evs1 == [evs EXCEPT ![<<p, s>>] = log]
<1>1. slot \in Slot /\ <<p, s>> \in Key
  BY ConstantsAssumption DEF ConstantsAssumption, SeqNo, Key
<1>2. s # 0
  BY DEF isActiveRequest, isActive, holds
<1>3. \A i \in Slot : IF inArray /\ i = slot THEN arr1[i].sequenceNumber = 0
                                             ELSE arr1[i] = arr[i]
  BY <1>1 DEF Request
<1>4. \A q \in Provider, t \in SeqNo :
        evs1[<<q, t>>] = IF <<q, t>> = <<p, s>> THEN log ELSE evs[<<q, t>>]
  BY <1>1 DEF Key
<1>5. \A q \in Provider, t \in SeqNo :
        ovf1[<<q, t>>] = IF ~inArray /\ <<q, t>> = <<p, s>> THEN ZeroRequest
                                                            ELSE ovf[<<q, t>>]
  BY <1>1 DEF Key
<1>6. \A i \in Slot : arr[i].sequenceNumber \in SeqNo
  BY DEF Request
<1>7. ~isActive(ZeroRequest)
  BY DEF isActive, ZeroRequest
<1> HIDE DEF arr1, ovf1, evs1, inArray, slot
<1>8. SlotsPending(arr1, evs1)
  <2> SUFFICES ASSUME NEW i \in Slot, isActive(arr1[i])
               PROVE  /\ arr1[i].provider \in Provider
                      /\ ShortKey(arr1[i].provider, arr1[i].sequenceNumber) = i
                      /\ evs1[<<arr1[i].provider, arr1[i].sequenceNumber>>]
                           = <<Requested(arr1[i])>>
    BY DEF SlotsPending
  <2>1. arr1[i] = arr[i] /\ ~(inArray /\ i = slot)
    BY <1>3 DEF isActive
  <2>2. /\ arr[i].provider \in Provider
        /\ ShortKey(arr[i].provider, arr[i].sequenceNumber) = i
        /\ evs[<<arr[i].provider, arr[i].sequenceNumber>>] = <<Requested(arr[i])>>
    BY <2>1 DEF TableInd, SlotsPending
  <2>3. <<arr[i].provider, arr[i].sequenceNumber>> # <<p, s>>
    BY <2>1, <2>2 DEF inArray, slot, holds
  <2> QED BY <1>4, <1>6, <2>1, <2>2, <2>3
<1>9. OverflowPending(arr1, ovf1, evs1)
  <2> SUFFICES ASSUME NEW q \in Provider, NEW t \in SeqNo, isActive(ovf1[<<q, t>>])
               PROVE  /\ holds(ovf1[<<q, t>>], q, t)
                      /\ evs1[<<q, t>>] = <<Requested(ovf1[<<q, t>>])>>
                      /\ ~holds(arr1[ShortKey(q, t)], q, t)
    BY DEF OverflowPending
  <2>0. ShortKey(q, t) \in Slot
    BY ConstantsAssumption DEF ConstantsAssumption, SeqNo
  <2>1. ovf1[<<q, t>>] = ovf[<<q, t>>] /\ (<<q, t>> = <<p, s>> => inArray)
    BY <1>5, <1>7
  <2>2. /\ holds(ovf[<<q, t>>], q, t)
        /\ evs[<<q, t>>] = <<Requested(ovf[<<q, t>>])>>
        /\ ~holds(arr[ShortKey(q, t)], q, t)
    BY <2>1 DEF TableInd, OverflowPending
  <2>3. <<q, t>> # <<p, s>>
    BY <2>1, <2>2 DEF inArray, slot
  <2>4. t # 0
    BY <2>1, <2>2 DEF holds, isActive
  <2>5. ~holds(arr1[ShortKey(q, t)], q, t)
    BY <1>3, <2>0, <2>2, <2>4 DEF holds
  <2> QED BY <1>4, <2>1, <2>2, <2>3, <2>5
<1>10. PendingFound(arr1, ovf1, evs1)
  <2> SUFFICES ASSUME NEW q \in Provider, NEW t \in SeqNo, Len(evs1[<<q, t>>]) = 1
               PROVE  /\ isActiveRequest(lookup(arr1, ovf1, q, t), q, t)
                      /\ evs1[<<q, t>>] = <<Requested(lookup(arr1, ovf1, q, t))>>
    BY DEF PendingFound
  <2>0. ShortKey(q, t) \in Slot
    BY ConstantsAssumption DEF ConstantsAssumption, SeqNo
  <2>1. <<q, t>> # <<p, s>> /\ evs1[<<q, t>>] = evs[<<q, t>>]
    <3>1. <<q, t>> = <<p, s>> => evs1[<<q, t>>] = log
      BY <1>4, Zenon
    <3>2. <<q, t>> # <<p, s>>
      <4>1. 1 # 2 OBVIOUS
      <4> QED BY <3>1, <4>1, Zenon
    <3> QED BY <1>4, <3>2, Zenon
  <2>2. /\ isActiveRequest(lookup(arr, ovf, q, t), q, t)
        /\ evs[<<q, t>>] = <<Requested(lookup(arr, ovf, q, t))>>
    BY <2>1 DEF TableInd, PendingFound
  <2>3. ovf1[<<q, t>>] = ovf[<<q, t>>]
    BY <1>5, <2>1
  <2>4. t # 0
    BY <2>2 DEF isActiveRequest, isActive, holds
  <2>5. lookup(arr1, ovf1, q, t) = lookup(arr, ovf, q, t)
    <3>1. CASE inArray /\ ShortKey(q, t) = slot
      <4>1. ~holds(arr[ShortKey(q, t)], q, t)
        BY <2>1, <3>1 DEF inArray, holds
      <4>2. ~holds(arr1[ShortKey(q, t)], q, t)
        BY <1>3, <2>0, <2>4, <3>1 DEF holds
      <4> QED BY <2>3, <4>1, <4>2 DEF lookup
    <3>2. CASE ~(inArray /\ ShortKey(q, t) = slot)
      <4>1. arr1[ShortKey(q, t)] = arr[ShortKey(q, t)]
        BY <1>3, <2>0, <3>2
      <4> QED BY <2>3, <4>1 DEF lookup
    <3> QED BY <3>1, <3>2
  <2> QED BY <2>1, <2>2, <2>5
<1> QED BY <1>8, <1>9, <1>10 DEF TableInd, arr1, ovf1, evs1, inArray, slot

-----------------------------------------------------------------------------
(* Providers: counters, registrations and the outcome of requests           *)

Registration == [start : SeqNo, commitment : Word, end : SeqNo]

\* The part of a provider record that the invariant is about.
sameChain(a, b) ==
  /\ a.sequenceNumber = b.sequenceNumber
  /\ a.endSequenceNumber = b.endSequenceNumber
  /\ a.originalCommitment = b.originalCommitment
  /\ a.originalCommitmentSequenceNumber = b.originalCommitmentSequenceNumber
  /\ a.currentCommitment = b.currentCommitment
  /\ a.currentCommitmentSequenceNumber = b.currentCommitmentSequenceNumber

\* Fees, uris, managers and hash limits do not matter to the invariant.
LEMMA SameChainSafe ==
  ASSUME NEW prov, NEW prov1, NEW arr, NEW ovf, NEW evs, NEW regs,
         Safe(prov, arr, ovf, evs, regs),
         \A p \in Provider : sameChain(prov1[p], prov[p])
  PROVE  Safe(prov1, arr, ovf, evs, regs)
<1>1. \A p \in Provider : CountersIn(prov1[p])
  BY DEF Safe, sameChain, CountersIn
<1>2. \A p \in Provider : RegistrationsInd(prov1[p], regs[p])
  BY DEF Safe, sameChain, RegistrationsInd, ChainIn
<1>3. Fresh(prov1, evs)
  BY DEF Safe, sameChain, Fresh
<1> QED BY <1>1, <1>2, <1>3 DEF Safe

\* A rotation opens a new range above every assigned number: the registrations
\* that govern earlier requests still do.
LEMMA RegisterSafe ==
  ASSUME NEW prov \in [Provider -> ProviderInfo], NEW arr, NEW ovf,
         NEW evs \in [Key -> Seq(Event)], NEW regs \in [Provider -> SUBSET Registration],
         Safe(prov, arr, ovf, evs, regs),
         NEW p \in Provider, NEW commitment \in Word, NEW length \in Nat \ {0},
         prov[p].sequenceNumber + length \in SeqNo,
         NEW info,
         info.sequenceNumber = prov[p].sequenceNumber + 1,
         info.endSequenceNumber = prov[p].sequenceNumber + length,
         info.originalCommitment = commitment,
         info.originalCommitmentSequenceNumber = prov[p].sequenceNumber,
         info.currentCommitment = commitment,
         info.currentCommitmentSequenceNumber = prov[p].sequenceNumber
  PROVE  Safe([prov EXCEPT ![p] = info], arr, ovf, evs,
              [regs EXCEPT ![p] = @ \cup
                 {Registered(prov[p].sequenceNumber, commitment,
                             prov[p].sequenceNumber + length)}])
<1> DEFINE start == prov[p].sequenceNumber
           new == Registered(start, commitment, start + length)
           prov1 == [prov EXCEPT ![p] = info]
           regs1 == [regs EXCEPT ![p] = @ \cup {new}]
<1>1. start \in Nat /\ start + length \in Nat
  BY ConstantsAssumption DEF ProviderInfo, SeqNo, ConstantsAssumption
<1>2. new.start = start /\ new.end = start + length /\ new.commitment = commitment
  BY DEF Registered
<1>3. /\ \A q \in Provider \ {p} : prov1[q] = prov[q] /\ regs1[q] = regs[q]
      /\ prov1[p] = info /\ regs1[p] = regs[p] \cup {new}
  OBVIOUS
<1>4. \A reg \in regs[p] : reg.start \in Nat /\ reg.start < start
  <2> SUFFICES ASSUME NEW reg \in regs[p]
               PROVE  reg.start \in Nat /\ reg.start < start
    OBVIOUS
  <2>1. start # 0
    BY DEF Safe, RegistrationsInd
  <2>2. reg.start <= prov[p].originalCommitmentSequenceNumber
    BY <2>1 DEF Safe, RegistrationsInd, ChainIn
  <2>3. /\ prov[p].originalCommitmentSequenceNumber
             <= prov[p].currentCommitmentSequenceNumber
        /\ prov[p].currentCommitmentSequenceNumber < start
    BY <2>1 DEF Safe, CountersIn
  <2>4. /\ reg.start \in Nat
        /\ prov[p].originalCommitmentSequenceNumber \in Nat
        /\ prov[p].currentCommitmentSequenceNumber \in Nat
    BY ConstantsAssumption DEF Registration, ProviderInfo, SeqNo, ConstantsAssumption
  <2> QED BY <1>1, <2>2, <2>3, <2>4
<1> HIDE DEF prov1, regs1, new
<1>5. \A q \in Provider : CountersIn(prov1[q])
  <2>1. CountersIn(info)
    BY <1>1 DEF CountersIn
  <2> QED BY <1>3, <2>1 DEF Safe
<1>6. \A q \in Provider : RegistrationsInd(prov1[q], regs1[q])
  <2>1. RegistrationsInd(info, regs[p] \cup {new})
    <3>1. ChainIn(info, regs[p] \cup {new})
      <4>1. Registered(info.originalCommitmentSequenceNumber, info.originalCommitment,
                       info.endSequenceNumber) = new
        BY DEF new
      <4>2. \A reg \in regs[p] \cup {new} : reg.start <= start
        BY <1>1, <1>2, <1>4
      <4>3. commitment = [commitment EXCEPT !.index = @ + (start - start)]
        BY <1>1, ConstantsAssumption DEF Word, ConstantsAssumption
      <4> QED BY <4>1, <4>2, <4>3 DEF ChainIn
    <3>2. \A r1, r2 \in regs[p] \cup {new} : r1.start = r2.start => r1 = r2
      BY <1>1, <1>2, <1>4 DEF Safe, RegistrationsInd
    <3> QED BY <1>1, <3>1, <3>2 DEF RegistrationsInd
  <2> QED BY <1>3, <2>1 DEF Safe
<1>7. Fresh(prov1, evs)
  BY <1>1, <1>3, ConstantsAssumption DEF Safe, Fresh, SeqNo, ConstantsAssumption
<1>8. OutcomeIn(evs, regs1)
  <2> SUFFICES ASSUME NEW q \in Provider, NEW s \in SeqNo, evs[<<q, s>>] # << >>,
                      NEW reg \in regs[q], governs(regs[q], reg, s)
               PROVE  reg \in regs1[q] /\ governs(regs1[q], reg, s)
    BY DEF Safe, OutcomeIn
  <2>1. CASE q # p
    BY <1>3, <2>1
  <2>2. CASE q = p
    <3>1. s < new.start
      BY <1>2, <2>2 DEF Safe, Fresh
    <3> QED BY <1>3, <2>2, <3>1 DEF governs
  <2> QED BY <2>1, <2>2
<1> QED BY <1>5, <1>6, <1>7, <1>8 DEF Safe, prov1, regs1, new

\* Moving a term across an equation.
LEMMA Transpose ==
  ASSUME NEW a \in Int, NEW b \in Int, NEW m \in Int, NEW n \in Int, a - n = b + m
  PROVE  a = b + (m + n)
  OBVIOUS

\* Hashing a word n times takes its index down by n.
LEMMA HashWord ==
  ASSUME NEW c, NEW i \in Int, NEW n \in Int
  PROVE  constructProviderCommitment(n, [chain |-> c, index |-> i])
           = [chain |-> c, index |-> i - n]
  BY DEF constructProviderCommitment

\* Hashing n times undoes n elements of a chain: the word that opens a
\* commitment is unique.
LEMMA ChainDistance ==
  ASSUME NEW w \in Word, NEW c \in Word \cup {ZeroWord}, NEW n \in Int, NEW m \in Int,
         constructProviderCommitment(n, w) = [c EXCEPT !.index = @ + m]
  PROVE  w = [c EXCEPT !.index = @ + (m + n)]
<1>1. /\ w = [chain |-> w.chain, index |-> w.index] /\ w.index \in Int
      /\ c = [chain |-> c.chain, index |-> c.index] /\ c.index \in Int
  BY ConstantsAssumption DEF Word, ZeroWord, ConstantsAssumption
<1>2. [chain |-> w.chain, index |-> w.index - n] = [chain |-> c.chain, index |-> c.index + m]
  BY <1>1 DEF constructProviderCommitment
<1>3. w.chain = c.chain /\ w.index - n = c.index + m
  BY <1>2
<1>4. w.index = c.index + (m + n)
  <2>1. w.index \in Int /\ c.index \in Int
    BY <1>1
  <2>2. w.index - n = c.index + m
    BY <1>3
  <2> QED BY <2>1, <2>2, Transpose
<1>5. [c EXCEPT !.index = @ + (m + n)] = [chain |-> c.chain, index |-> c.index + (m + n)]
  BY <1>1
<1> QED BY <1>1, <1>3, <1>4, <1>5

\* A request that is recorded against the element at cur of a chain registered
\* at orig binds to the chain's element at its own number.
LEMMA BindsToElement ==
  ASSUME NEW c \in Word \cup {ZeroWord}, NEW s \in Nat, NEW cur \in Nat, NEW orig \in Nat,
         NEW req, req.numHashes = s - cur,
         req.commitment.provider = [c EXCEPT !.index = @ + (cur - orig)],
         NEW reg, reg.start = orig, reg.commitment = c
  PROVE  bindsTo(req, committedWord(reg, s))
<1>1. c = [chain |-> c.chain, index |-> c.index] /\ c.index \in Int
  BY ConstantsAssumption DEF Word, ZeroWord, ConstantsAssumption
<1>2. req.commitment.provider = [chain |-> c.chain, index |-> c.index + (cur - orig)]
  BY <1>1
<1>3. committedWord(reg, s) = [chain |-> c.chain, index |-> c.index + (s - orig)]
  BY <1>1 DEF committedWord
<1>4. constructProviderCommitment(s - cur, committedWord(reg, s))
        = [chain |-> c.chain, index |-> (c.index + (s - orig)) - (s - cur)]
  <2>1. c.index + (s - orig) \in Int /\ s - cur \in Int
    BY <1>1
  <2>2. \A i, n \in Int : constructProviderCommitment(n, [chain |-> c.chain, index |-> i])
                            = [chain |-> c.chain, index |-> i - n]
    BY HashWord
  <2> QED BY <1>3, <2>1, <2>2
<1>5. (c.index + (s - orig)) - (s - cur) = c.index + (cur - orig)
  BY <1>1
<1> QED BY <1>2, <1>4, <1>5 DEF bindsTo

\* Moving the current commitment forward along the registered chain, past no
\* number that is still to be assigned.
LEMMA MoveSafe ==
  ASSUME NEW prov \in [Provider -> ProviderInfo], NEW arr, NEW ovf,
         NEW evs \in [Key -> Seq(Event)], NEW regs \in [Provider -> SUBSET Registration],
         Safe(prov, arr, ovf, evs, regs),
         NEW p \in Provider, NEW s \in SeqNo, NEW next \in SeqNo, NEW w,
         prov[p].sequenceNumber # 0,
         prov[p].currentCommitmentSequenceNumber < s,
         s < next, prov[p].sequenceNumber <= next, next <= prov[p].endSequenceNumber,
         w = [prov[p].originalCommitment EXCEPT !.index =
                @ + (s - prov[p].originalCommitmentSequenceNumber)],
         NEW info,
         info.sequenceNumber = next,
         info.endSequenceNumber = prov[p].endSequenceNumber,
         info.originalCommitment = prov[p].originalCommitment,
         info.originalCommitmentSequenceNumber = prov[p].originalCommitmentSequenceNumber,
         info.currentCommitment = w,
         info.currentCommitmentSequenceNumber = s
  PROVE  Safe([prov EXCEPT ![p] = info], arr, ovf, evs, regs)
<1> DEFINE prov1 == [prov EXCEPT ![p] = info]
<1>1. /\ prov[p].sequenceNumber \in Nat /\ prov[p].endSequenceNumber \in Nat
      /\ prov[p].originalCommitmentSequenceNumber \in Nat
      /\ prov[p].currentCommitmentSequenceNumber \in Nat
      /\ s \in Nat /\ next \in Nat
  BY ConstantsAssumption DEF ProviderInfo, SeqNo, ConstantsAssumption
<1>2. /\ prov1[p] = info
      /\ \A q \in Provider \ {p} : prov1[q] = prov[q]
  OBVIOUS
<1> HIDE DEF prov1
<1>3. \A q \in Provider : CountersIn(prov1[q])
  <2>1. CountersIn(prov[p])
    BY DEF Safe
  <2>2. CountersIn(info)
    BY <1>1, <2>1 DEF CountersIn
  <2> QED BY <1>2, <2>2 DEF Safe
<1>4. \A q \in Provider : RegistrationsInd(prov1[q], regs[q])
  <2>1. RegistrationsInd(prov[p], regs[p])
    BY DEF Safe
  <2>2. RegistrationsInd(info, regs[p])
    BY <1>1, <2>1 DEF RegistrationsInd, ChainIn
  <2> QED BY <1>2, <2>2 DEF Safe
<1>5. Fresh(prov1, evs)
  BY <1>1, <1>2, ConstantsAssumption DEF Safe, Fresh, SeqNo, ConstantsAssumption
<1> QED BY <1>3, <1>4, <1>5 DEF Safe, prov1

\* A new request under the next number: it binds to the element of the latest
\* registration.
LEMMA RequestSafe ==
  ASSUME NEW prov \in [Provider -> ProviderInfo],
         NEW arr \in [Slot -> Request], NEW ovf \in [Key -> Request],
         NEW evs \in [Key -> Seq(Event)], NEW regs \in [Provider -> SUBSET Registration],
         Safe(prov, arr, ovf, evs, regs),
         NEW p \in Provider, prov[p].sequenceNumber # 0,
         prov[p].sequenceNumber < prov[p].endSequenceNumber,
         NEW req \in Request, holds(req, p, prov[p].sequenceNumber),
         req.numHashes = prov[p].sequenceNumber
                           - prov[p].currentCommitmentSequenceNumber,
         req.commitment.provider = prov[p].currentCommitment,
         NEW info,
         info.sequenceNumber = prov[p].sequenceNumber + 1,
         info.endSequenceNumber = prov[p].endSequenceNumber,
         info.originalCommitment = prov[p].originalCommitment,
         info.originalCommitmentSequenceNumber = prov[p].originalCommitmentSequenceNumber,
         info.currentCommitment = prov[p].currentCommitment,
         info.currentCommitmentSequenceNumber = prov[p].currentCommitmentSequenceNumber
  PROVE  LET key   == <<p, prov[p].sequenceNumber>>
             slot  == ShortKey(p, prov[p].sequenceNumber)
             prior == arr[slot]
         IN  /\ evs[key] = << >>
             /\ Safe([prov EXCEPT ![p] = info],
                     [arr EXCEPT ![slot] = req],
                     IF isActive(prior)
                     THEN [ovf EXCEPT ![<<prior.provider, prior.sequenceNumber>>] = prior]
                     ELSE ovf,
                     [evs EXCEPT ![key] = <<Requested(req)>>],
                     regs)
<1> DEFINE s     == prov[p].sequenceNumber
           cur   == prov[p].currentCommitmentSequenceNumber
           orig  == prov[p].originalCommitmentSequenceNumber
           slot  == ShortKey(p, s)
           prior == arr[slot]
           prov1 == [prov EXCEPT ![p] = info]
           arr1  == [arr EXCEPT ![slot] = req]
           ovf1  == IF isActive(prior)
                    THEN [ovf EXCEPT ![<<prior.provider, prior.sequenceNumber>>] = prior]
                    ELSE ovf
           evs1  == [evs EXCEPT ![<<p, s>>] = <<Requested(req)>>]
<1>1. /\ s \in SeqNo /\ s \in Nat /\ prov[p].endSequenceNumber \in Nat
      /\ orig \in Nat /\ cur \in Nat
  BY ConstantsAssumption DEF ProviderInfo, SeqNo, ConstantsAssumption
<1>2. evs[<<p, s>>] = << >>
  BY <1>1 DEF Safe, Fresh
<1>3. /\ prov1[p] = info
      /\ \A q \in Provider \ {p} : prov1[q] = prov[q]
  OBVIOUS
<1>4. /\ evs1[<<p, s>>] = <<Requested(req)>>
      /\ \A q \in Provider, t \in SeqNo : <<q, t>> # <<p, s>> => evs1[<<q, t>>] = evs[<<q, t>>]
  BY <1>1 DEF Key
<1>5. orig <= cur /\ cur < s
  BY DEF Safe, CountersIn
<1>6. TableInd(arr1, ovf1, evs1)
  BY <1>1, <1>2, AllocKeepsTable DEF Safe
<1> HIDE DEF prov1, arr1, ovf1, evs1
<1>7. \A q \in Provider : CountersIn(prov1[q])
  <2>1. CountersIn(info)
    BY <1>1, <1>5 DEF CountersIn
  <2> QED BY <1>3, <2>1 DEF Safe
<1>8. \A q \in Provider : RegistrationsInd(prov1[q], regs[q])
  <2>1. RegistrationsInd(prov[p], regs[p])
    BY DEF Safe
  <2>2. RegistrationsInd(info, regs[p])
    BY <1>1, <2>1 DEF RegistrationsInd, ChainIn
  <2> QED BY <1>3, <2>2 DEF Safe
<1>9. Fresh(prov1, evs1)
  <2> SUFFICES ASSUME NEW q \in Provider, NEW t \in SeqNo, evs1[<<q, t>>] # << >>
               PROVE  0 < t /\ t < prov1[q].sequenceNumber
    BY DEF Fresh
  <2>0. t \in Nat
    BY ConstantsAssumption DEF SeqNo, ConstantsAssumption
  <2>1. CASE <<q, t>> = <<p, s>>
    BY <1>1, <1>3, <2>0, <2>1
  <2>2. CASE <<q, t>> # <<p, s>>
    <3>1. 0 < t /\ t < prov[q].sequenceNumber
      BY <1>4, <2>2 DEF Safe, Fresh
    <3>2. CASE q = p
      BY <1>1, <1>3, <2>0, <3>1, <3>2
    <3>3. CASE q # p
      BY <1>3, <3>1, <3>3
    <3> QED BY <3>2, <3>3
  <2> QED BY <2>1, <2>2
<1>10. LogIn(evs1)
  <2> SUFFICES ASSUME NEW q \in Provider, NEW t \in SeqNo, evs1[<<q, t>>] # << >>
               PROVE  LET log == evs1[<<q, t>>]
                          r   == log[1].request
                      IN  /\ Len(log) \in 1..2
                          /\ logsRequest(log, r, q, t)
                          /\ Len(log) = 2 => logsReveal(log, r)
    BY DEF LogIn
  <2>1. CASE <<q, t>> = <<p, s>>
    <3>1. /\ Len(evs1[<<q, t>>]) = 1
          /\ evs1[<<q, t>>][1] = Requested(req)
          /\ Requested(req).request = req
      <4>1. evs1[<<q, t>>] = <<Requested(req)>>
        BY <1>4, <2>1
      <4>2. Requested(req).request = req
        BY DEF Requested
      <4> QED BY <4>1, <4>2, OneEvent
    <3> QED BY <2>1, <3>1 DEF logsRequest
  <2>2. CASE <<q, t>> # <<p, s>>
    BY <1>4, <2>2 DEF Safe, LogIn
  <2> QED BY <2>1, <2>2
<1>11. OutcomeIn(evs1, regs)
  <2> SUFFICES ASSUME NEW q \in Provider, NEW t \in SeqNo, evs1[<<q, t>>] # << >>
               PROVE  \E reg \in regs[q] :
                        /\ governs(regs[q], reg, t)
                        /\ bindsTo(evs1[<<q, t>>][1].request, committedWord(reg, t))
                        /\ Len(evs1[<<q, t>>]) = 2 =>
                             evs1[<<q, t>>][2].randomNumber.provider = committedWord(reg, t)
    BY DEF OutcomeIn
  <2>1. CASE <<q, t>> = <<p, s>>
    <3> DEFINE reg == Registered(orig, prov[p].originalCommitment, prov[p].endSequenceNumber)
    <3>1. /\ reg \in regs[p]
          /\ \A other \in regs[p] : other.start <= orig
          /\ prov[p].currentCommitment =
               [prov[p].originalCommitment EXCEPT !.index = @ + (cur - orig)]
      BY DEF Safe, RegistrationsInd, ChainIn
    <3>2. reg.start = orig /\ reg.commitment = prov[p].originalCommitment
          /\ reg.end = prov[p].endSequenceNumber
      BY DEF Registered
    <3>3. governs(regs[p], reg, s)
      BY <1>1, <1>5, <3>1, <3>2 DEF governs
    <3>4. bindsTo(req, committedWord(reg, s))
      <4>1. prov[p].originalCommitment \in Word \cup {ZeroWord}
        BY DEF ProviderInfo
      <4> HIDE DEF reg
      <4> QED BY <1>1, <3>1, <3>2, <4>1, BindsToElement
    <3>5. /\ Len(evs1[<<q, t>>]) = 1
          /\ evs1[<<q, t>>][1].request = req
      <4>1. evs1[<<q, t>>] = <<Requested(req)>>
        BY <1>4, <2>1
      <4>2. Requested(req).request = req
        BY DEF Requested
      <4> QED BY <4>1, <4>2, OneEvent
    <3> QED BY <2>1, <3>1, <3>3, <3>4, <3>5
  <2>2. CASE <<q, t>> # <<p, s>>
    BY <1>4, <2>2 DEF Safe, OutcomeIn
  <2> QED BY <2>1, <2>2
<1> QED
  BY <1>2, <1>6, <1>7, <1>8, <1>9, <1>10, <1>11 DEF Safe, prov1, arr1, ovf1, evs1

\* A pending request is bound to an element of the registration that governs it.
LEMMA Governed ==
  ASSUME NEW evs, NEW regs, OutcomeIn(evs, regs),
         NEW p \in Provider, NEW s \in SeqNo, NEW req, evs[<<p, s>>] = <<Requested(req)>>
  PROVE  \E reg \in regs[p] : /\ governs(regs[p], reg, s)
                              /\ bindsTo(req, committedWord(reg, s))
<1>1. evs[<<p, s>>] # << >> /\ evs[<<p, s>>][1].request = req
  <2>1. Requested(req).request = req
    BY DEF Requested
  <2> QED BY <2>1, OneEvent
<1> QED BY <1>1, Zenon DEF OutcomeIn

\* Only the element a request is bound to opens it.
LEMMA OpensCommittedWord ==
  ASSUME NEW reg \in Registration, NEW s \in SeqNo, NEW req \in Request, NEW w \in Word,
         bindsTo(req, committedWord(reg, s)), bindsTo(req, w)
  PROVE  w = committedWord(reg, s)
<1>3. /\ reg.commitment = [chain |-> reg.commitment.chain, index |-> reg.commitment.index]
      /\ reg.commitment.index \in Int /\ reg.start \in Int /\ s \in Int
      /\ req.numHashes \in Int
      /\ w = [chain |-> w.chain, index |-> w.index] /\ w.index \in Int
  <2>1. reg.commitment \in Word /\ reg.start \in SeqNo
    BY DEF Registration
  <2>2. req.numHashes \in 0..MaxUint32
    BY DEF Request
  <2> QED BY <2>1, <2>2, ConstantsAssumption DEF Word, SeqNo, ConstantsAssumption
<1> DEFINE x == reg.commitment.index + (s - reg.start)
<1>4. x \in Int /\ committedWord(reg, s) = [chain |-> reg.commitment.chain, index |-> x]
  <2>1. x \in Int
    BY <1>3
  <2>2. committedWord(reg, s) = [reg.commitment EXCEPT !.index = x]
    BY Zenon DEF committedWord
  <2> HIDE DEF x
  <2>3. [reg.commitment EXCEPT !.index = x] = [chain |-> reg.commitment.chain, index |-> x]
    BY <1>3
  <2> QED BY <2>1, <2>2, <2>3
<1> HIDE DEF x
<1>5. /\ constructProviderCommitment(req.numHashes, [chain |-> reg.commitment.chain, index |-> x])
           = [chain |-> reg.commitment.chain, index |-> x - req.numHashes]
      /\ constructProviderCommitment(req.numHashes, [chain |-> w.chain, index |-> w.index])
           = [chain |-> w.chain, index |-> w.index - req.numHashes]
  BY <1>3, <1>4, HashWord
<1>6. [chain |-> reg.commitment.chain, index |-> x - req.numHashes]
        = [chain |-> w.chain, index |-> w.index - req.numHashes]
  BY <1>3, <1>4, <1>5 DEF bindsTo
<1>7. reg.commitment.chain = w.chain /\ x - req.numHashes = w.index - req.numHashes
  BY <1>6
<1>8. x = w.index
  BY <1>3, <1>4, <1>7
<1> QED BY <1>3, <1>4, <1>7, <1>8

\* A reveal closes the request it was found for and no other.
LEMMA CloseSafe ==
  ASSUME NEW prov \in [Provider -> ProviderInfo],
         NEW arr \in [Slot -> Request], NEW ovf \in [Key -> Request],
         NEW evs \in [Key -> Seq(Event)], NEW regs \in [Provider -> SUBSET Registration],
         Safe(prov, arr, ovf, evs, regs),
         NEW p \in Provider, NEW s \in SeqNo, NEW req,
         req = lookup(arr, ovf, p, s), isActiveRequest(req, p, s), req \in Request,
         NEW n, NEW w \in Word, n.provider = w, bindsTo(req, w),
         req.commitment.user = constructUserCommitment(n.user),
         n.blockHash = blockhashOf(req), Revealed(req, n) \in Event
  PROVE  LET slot == ShortKey(p, s)
             inArray == holds(arr[slot], p, s)
         IN  /\ evs[<<p, s>>] = <<Requested(req)>>
             /\ Safe(prov,
                     IF inArray THEN [arr EXCEPT ![slot].sequenceNumber = 0] ELSE arr,
                     IF inArray THEN ovf ELSE [ovf EXCEPT ![<<p, s>>] = ZeroRequest],
                     [evs EXCEPT ![<<p, s>>] = Append(@, Revealed(req, n))],
                     regs)
<1> DEFINE slot == ShortKey(p, s)
           inArray == holds(arr[slot], p, s)
           arr1 == IF inArray THEN [arr EXCEPT ![slot].sequenceNumber = 0] ELSE arr
           ovf1 == IF inArray THEN ovf ELSE [ovf EXCEPT ![<<p, s>>] = ZeroRequest]
           log  == Append(evs[<<p, s>>], Revealed(req, n))
           evs1 == [evs EXCEPT ![<<p, s>>] = log]
<1>1. <<p, s>> \in Key /\ evs[<<p, s>>] \in Seq(Event)
  BY DEF Key
<1>2. evs[<<p, s>>] = <<Requested(req)>>
  <2>1. TableIn(arr, ovf, evs)
    BY TableFinds DEF Safe
  <2> QED BY <2>1 DEF TableIn
<1>3. /\ log \in Seq(Event) /\ Len(log) = 2 /\ log # << >>
      /\ log[1] = Requested(req) /\ log[2] = Revealed(req, n)
  BY <1>1, <1>2, TwoEvents
<1>4. TableInd(arr1, ovf1, evs1)
  BY <1>3, ClearKeepsTable DEF Safe
<1>5. /\ evs1[<<p, s>>] = log
      /\ \A q \in Provider, t \in SeqNo : <<q, t>> # <<p, s>> => evs1[<<q, t>>] = evs[<<q, t>>]
  BY <1>1 DEF Key
<1> HIDE DEF arr1, ovf1, evs1, log
<1>6. evs[<<p, s>>] # << >>
  BY <1>2, OneEvent
<1>7. Fresh(prov, evs1)
  <2> SUFFICES ASSUME NEW q \in Provider, NEW t \in SeqNo, evs1[<<q, t>>] # << >>
               PROVE  evs[<<q, t>>] # << >>
    BY DEF Fresh, Safe
  <2>1. CASE <<q, t>> = <<p, s>>
    BY <1>6, <2>1
  <2>2. CASE <<q, t>> # <<p, s>>
    BY <1>5, <2>2
  <2> QED BY <2>1, <2>2
<1>8. LogIn(evs1)
  <2> SUFFICES ASSUME NEW q \in Provider, NEW t \in SeqNo, evs1[<<q, t>>] # << >>
               PROVE  LET l == evs1[<<q, t>>]
                          r == l[1].request
                      IN  /\ Len(l) \in 1..2
                          /\ logsRequest(l, r, q, t)
                          /\ Len(l) = 2 => logsReveal(l, r)
    BY DEF LogIn
  <2>1. CASE <<q, t>> = <<p, s>>
    <3>1. evs1[<<q, t>>] = log /\ q = p /\ t = s
      BY <1>5, <2>1
    <3>2. Requested(req).request = req /\ Revealed(req, n).randomNumber = n
      BY DEF Requested, Revealed
    <3>3. logsRequest(log, req, p, s)
      BY <1>3 DEF logsRequest, isActiveRequest
    <3>4. logsReveal(log, req)
      BY <1>3, <3>2 DEF logsReveal
    <3> QED BY <1>3, <3>1, <3>2, <3>3, <3>4
  <2>2. CASE <<q, t>> # <<p, s>>
    BY <1>5, <2>2 DEF Safe, LogIn
  <2> QED BY <2>1, <2>2
<1>9. OutcomeIn(evs1, regs)
  <2> SUFFICES ASSUME NEW q \in Provider, NEW t \in SeqNo, evs1[<<q, t>>] # << >>
               PROVE  \E reg \in regs[q] :
                        /\ governs(regs[q], reg, t)
                        /\ bindsTo(evs1[<<q, t>>][1].request, committedWord(reg, t))
                        /\ Len(evs1[<<q, t>>]) = 2 =>
                             evs1[<<q, t>>][2].randomNumber.provider = committedWord(reg, t)
    BY DEF OutcomeIn
  <2>1. CASE <<q, t>> = <<p, s>>
    <3>1. evs1[<<q, t>>] = log /\ q = p /\ t = s
      BY <1>5, <2>1
    <3>2. Requested(req).request = req /\ Revealed(req, n).randomNumber = n
      BY DEF Requested, Revealed
    <3>3. PICK reg \in regs[p] : /\ governs(regs[p], reg, s)
                                 /\ bindsTo(req, committedWord(reg, s))
                                 /\ w = committedWord(reg, s)
      <4>1. OutcomeIn(evs, regs)
        BY DEF Safe
      <4>2. PICK reg \in regs[p] : /\ governs(regs[p], reg, s)
                                  /\ bindsTo(req, committedWord(reg, s))
        BY <1>2, <4>1, Governed
      <4>3. w = committedWord(reg, s)
        BY <4>2, OpensCommittedWord
      <4> QED BY <4>2, <4>3
    <3> QED BY <1>3, <3>1, <3>2, <3>3
  <2>2. CASE <<q, t>> # <<p, s>>
    BY <1>5, <2>2 DEF Safe, OutcomeIn
  <2> QED BY <2>1, <2>2
<1> QED
  BY <1>2, <1>4, <1>7, <1>8, <1>9 DEF Safe, arr1, ovf1, evs1, log

\* The registration that governs a number above the current commitment is the
\* latest one.
LEMMA GovernedByLatest ==
  ASSUME NEW info \in ProviderInfo, NEW regs \in SUBSET Registration,
         CountersIn(info), RegistrationsInd(info, regs), info.sequenceNumber # 0,
         NEW s \in SeqNo, NEW reg \in regs, governs(regs, reg, s),
         info.currentCommitmentSequenceNumber < s
  PROVE  committedWord(reg, s) =
           [info.originalCommitment EXCEPT !.index =
              @ + (s - info.originalCommitmentSequenceNumber)]
<1> DEFINE last == Registered(info.originalCommitmentSequenceNumber,
                              info.originalCommitment, info.endSequenceNumber)
<1>1. /\ last \in regs
      /\ reg.start <= info.originalCommitmentSequenceNumber
      /\ \A r1, r2 \in regs : r1.start = r2.start => r1 = r2
  BY DEF RegistrationsInd, ChainIn
<1>2. /\ last.start = info.originalCommitmentSequenceNumber
      /\ last.commitment = info.originalCommitment
  BY DEF Registered
<1>3. info.originalCommitmentSequenceNumber <= info.currentCommitmentSequenceNumber
  BY DEF CountersIn
<1>4. /\ reg.start \in Nat /\ s \in Nat
      /\ info.originalCommitmentSequenceNumber \in Nat
      /\ info.currentCommitmentSequenceNumber \in Nat
  BY ConstantsAssumption DEF Registration, ProviderInfo, SeqNo, ConstantsAssumption
<1> HIDE DEF last
<1>5. last.start <= reg.start
  BY <1>1, <1>2, <1>3, <1>4 DEF governs
<1>6. reg = last
  BY <1>1, <1>2, <1>4, <1>5
<1> QED BY <1>2, <1>6 DEF committedWord

-----------------------------------------------------------------------------
(* Every step keeps the storage safe                                        *)

StorageSafe == Safe(providers, requests, requestsOverflow, events, registrations)

\* A call that only touches fees, uris, managers or limits.
LEMMA ConfigSafe ==
  ASSUME TypeOK, StorageSafe,
         \A q \in Provider : sameChain(providers'[q], providers[q]),
         UNCHANGED <<requests, requestsOverflow, events, registrations>>
  PROVE  StorageSafe'
<1>1. Safe(providers', requests, requestsOverflow, events, registrations)
  BY SameChainSafe DEF StorageSafe
<1> QED BY <1>1 DEF StorageSafe

\* register, by RegisterSafe.
LEMMA RegisterStep ==
  ASSUME TypeOK, StorageSafe, NEW p \in Provider, NEW fee \in Fee, NEW chain \in Chain,
         NEW length \in ChainLength, NEW uri \in Uri, register(p, fee, chain, length, uri)
  PROVE  StorageSafe'
<1> DEFINE start == providers[p].sequenceNumber
           commitment == [chain |-> chain, index |-> 0]
           info == [providers[p] EXCEPT
             !.feeInWei = fee,
             !.originalCommitment = commitment,
             !.originalCommitmentSequenceNumber = start,
             !.currentCommitment = commitment,
             !.currentCommitmentSequenceNumber = start,
             !.endSequenceNumber = start + length,
             !.uri = uri,
             !.sequenceNumber = start + 1]
<1>0. VarsTyped
  BY StorageTyped DEF TypeOK
<1>1. providers[p] \in ProviderInfo /\ start \in SeqNo
  BY <1>0 DEF VarsTyped, ProviderInfo
<1>2. length \in Nat \ {0} /\ commitment \in Word /\ start + length \in SeqNo
  <2>1. length \in Nat /\ length # 0 /\ start + length <= MaxUint64 /\ MaxUint64 \in Nat
    BY ConstantsAssumption DEF ConstantsAssumption, register
  <2> QED BY <1>1, <2>1 DEF SeqNo, Word
<1>3. /\ providers' = [providers EXCEPT ![p] = info]
      /\ registrations' = [registrations EXCEPT ![p] =
           @ \cup {Registered(start, commitment, start + length)}]
      /\ UNCHANGED <<requests, requestsOverflow, events>>
  BY Zenon DEF register
<1>4. /\ info.sequenceNumber = start + 1 /\ info.endSequenceNumber = start + length
      /\ info.originalCommitment = commitment
      /\ info.originalCommitmentSequenceNumber = start
      /\ info.currentCommitment = commitment
      /\ info.currentCommitmentSequenceNumber = start
  BY <1>1 DEF ProviderInfo
<1>5. providers \in [Provider -> ProviderInfo] /\ events \in [Key -> Seq(Event)]
      /\ registrations \in [Provider -> SUBSET Registration]
  BY <1>0 DEF VarsTyped, Registration
<1> HIDE DEF info, commitment
<1>6. Safe([providers EXCEPT ![p] = info], requests, requestsOverflow, events,
           [registrations EXCEPT ![p] =
              @ \cup {Registered(start, commitment, start + length)}])
  BY <1>2, <1>4, <1>5, RegisterSafe DEF StorageSafe
<1> QED BY <1>3, <1>6, Zenon DEF StorageSafe

\* advanceProviderCommitment, by MoveSafe: the number is bumped past what the
\* advance published.
LEMMA AdvanceStep ==
  ASSUME TypeOK, StorageSafe, NEW p \in Provider, NEW s \in SeqNo, NEW w \in Word,
         advanceProviderCommitment(p, s, w)
  PROVE  StorageSafe'
<1> DEFINE next == IF s >= providers[p].sequenceNumber
                   THEN s + 1 ELSE providers[p].sequenceNumber
           cur  == providers[p].currentCommitmentSequenceNumber
           orig == providers[p].originalCommitmentSequenceNumber
           info == [providers[p] EXCEPT
                      !.currentCommitmentSequenceNumber = s,
                      !.currentCommitment = w,
                      !.sequenceNumber = next]
<1>0. VarsTyped
  BY StorageTyped DEF TypeOK
<1>1. /\ providers[p] \in ProviderInfo
      /\ providers[p].sequenceNumber \in SeqNo /\ providers[p].endSequenceNumber \in SeqNo
      /\ cur \in SeqNo /\ orig \in SeqNo
      /\ providers[p].originalCommitment \in Word \cup {ZeroWord}
  BY <1>0 DEF VarsTyped, ProviderInfo
<1>2. /\ cur < s /\ s < providers[p].endSequenceNumber
      /\ constructProviderCommitment(s - cur, w) = providers[p].currentCommitment
      /\ providers' = [providers EXCEPT ![p] = info]
      /\ UNCHANGED <<requests, requestsOverflow, events, registrations>>
  <2>1. /\ s > cur /\ s < providers[p].endSequenceNumber
        /\ constructProviderCommitment(s - cur, w) = providers[p].currentCommitment
        /\ providers' = [providers EXCEPT ![p] = info]
        /\ UNCHANGED <<requests, requestsOverflow, events, registrations>>
    BY Zenon DEF advanceProviderCommitment
  <2>2. cur < s
    BY <1>1, <2>1, ConstantsAssumption DEF SeqNo, ConstantsAssumption
  <2> QED BY <2>1, <2>2
<1>3. providers[p].sequenceNumber # 0
  <2>1. CountersIn(providers[p])
    BY DEF StorageSafe, Safe
  <2>2. providers[p].endSequenceNumber # 0
    BY <1>1, <1>2, ConstantsAssumption DEF SeqNo, ConstantsAssumption
  <2> QED BY <2>1, <2>2 DEF CountersIn
<1>4. /\ providers[p].sequenceNumber <= providers[p].endSequenceNumber
      /\ providers[p].currentCommitment =
           [providers[p].originalCommitment EXCEPT !.index = @ + (cur - orig)]
  BY <1>3 DEF StorageSafe, Safe, CountersIn, RegistrationsInd, ChainIn
<1>5. w = [providers[p].originalCommitment EXCEPT !.index = @ + (s - orig)]
  <2>1. s - cur \in Int /\ cur - orig \in Int
    BY <1>1, ConstantsAssumption DEF SeqNo, ConstantsAssumption
  <2>2. w = [providers[p].originalCommitment EXCEPT !.index = @ + ((cur - orig) + (s - cur))]
    BY <1>1, <1>2, <1>4, <2>1, ChainDistance
  <2>3. (cur - orig) + (s - cur) = s - orig
    BY <1>1, ConstantsAssumption DEF SeqNo, ConstantsAssumption
  <2> QED BY <2>2, <2>3
<1>6. /\ next \in SeqNo /\ s < next /\ providers[p].sequenceNumber <= next
      /\ next <= providers[p].endSequenceNumber
  BY <1>1, <1>2, <1>4, ConstantsAssumption DEF SeqNo, ConstantsAssumption
<1> HIDE DEF next
<1>7. /\ info.sequenceNumber = next
      /\ info.endSequenceNumber = providers[p].endSequenceNumber
      /\ info.originalCommitment = providers[p].originalCommitment
      /\ info.originalCommitmentSequenceNumber = orig
      /\ info.currentCommitment = w
      /\ info.currentCommitmentSequenceNumber = s
  BY <1>1 DEF ProviderInfo
<1>8. providers \in [Provider -> ProviderInfo] /\ events \in [Key -> Seq(Event)]
      /\ registrations \in [Provider -> SUBSET Registration]
  BY <1>0 DEF VarsTyped, Registration
<1> HIDE DEF info
<1>9. Safe([providers EXCEPT ![p] = info], requests, requestsOverflow, events, registrations)
  BY <1>2, <1>3, <1>5, <1>6, <1>7, <1>8, MoveSafe DEF StorageSafe
<1> QED BY <1>2, <1>9 DEF StorageSafe

\* request and requestWithCallback, by RequestSafe.
LEMMA RequestStep ==
  ASSUME TypeOK, StorageSafe, NEW p \in Provider, NEW r \in Requester,
         NEW v \in Value, NEW u \in UserNumber, NEW b \in BOOLEAN, NEW c \in BOOLEAN,
         requestHelper(p, r, v, constructUserCommitment(u), b, c)
  PROVE  StorageSafe'
<1> DEFINE req   == builtRequest(p, r, constructUserCommitment(u), b, c)
           s     == providers[p].sequenceNumber
           slot  == ShortKey(p, s)
           prior == requests[slot]
           ovf   == IF isActive(prior)
                    THEN [requestsOverflow EXCEPT
                            ![<<prior.provider, prior.sequenceNumber>>] = prior]
                    ELSE requestsOverflow
           info  == [providers[p] EXCEPT
                       !.sequenceNumber = s + 1,
                       !.accruedFeesInWei = providers[p].accruedFeesInWei
                                              + providers[p].feeInWei]
<1>0. VarsTyped /\ ProviderCounters
  BY StorageTyped DEF TypeOK, StorageSafe, Safe, ProviderCounters
<1>1. req \in Request
  BY <1>0, BuiltRequestTyped
<1>2. /\ holds(req, p, s)
      /\ req.numHashes = s - providers[p].currentCommitmentSequenceNumber
      /\ req.commitment.provider = providers[p].currentCommitment
  BY DEF builtRequest, holds, Commitment
<1>3. s # 0 /\ s < providers[p].endSequenceNumber
  BY DEF requestHelper
<1>4. /\ providers' = [providers EXCEPT ![p] = info]
      /\ allocRequest(req)
      /\ events' = [events EXCEPT ![<<p, s>>] = Append(events[<<p, s>>], Requested(req))]
      /\ UNCHANGED registrations
  BY Zenon DEF requestHelper, builtRequest
<1>5. requests' = [requests EXCEPT ![slot] = req] /\ requestsOverflow' = ovf
  <2>1. req.provider = p /\ req.sequenceNumber = s
    BY <1>2 DEF holds
  <2> HIDE DEF req
  <2> QED BY <1>4, <2>1 DEF allocRequest
<1>6. providers[p] \in ProviderInfo
  BY <1>0 DEF VarsTyped
<1>7. /\ info.sequenceNumber = s + 1
      /\ info.endSequenceNumber = providers[p].endSequenceNumber
      /\ info.originalCommitment = providers[p].originalCommitment
      /\ info.originalCommitmentSequenceNumber = providers[p].originalCommitmentSequenceNumber
      /\ info.currentCommitment = providers[p].currentCommitment
      /\ info.currentCommitmentSequenceNumber = providers[p].currentCommitmentSequenceNumber
  BY <1>6 DEF ProviderInfo
<1>8. /\ providers \in [Provider -> ProviderInfo] /\ events \in [Key -> Seq(Event)]
      /\ requests \in [Slot -> Request] /\ requestsOverflow \in [Key -> Request]
      /\ registrations \in [Provider -> SUBSET Registration]
  BY <1>0 DEF VarsTyped, Registration
<1> HIDE DEF info, req
<1>9. /\ events[<<p, s>>] = << >>
      /\ Safe([providers EXCEPT ![p] = info], [requests EXCEPT ![slot] = req], ovf,
              [events EXCEPT ![<<p, s>>] = <<Requested(req)>>], registrations)
  BY <1>1, <1>2, <1>3, <1>7, <1>8, RequestSafe DEF StorageSafe
<1>10. events' = [events EXCEPT ![<<p, s>>] = <<Requested(req)>>]
  BY <1>4, <1>9, OneEvent
<1> QED BY <1>4, <1>5, <1>9, <1>10 DEF StorageSafe

\* Both reveals: the request is closed (CloseSafe), then the commitment moves
\* along the chain of the latest registration or stays (MoveSafe).
LEMMA RevealStep ==
  ASSUME TypeOK, StorageSafe, NEW p \in Provider, NEW s \in SeqNo,
         NEW u \in UserNumber, NEW w \in Word,
         isActiveRequest(findRequest(p, s), p, s),
         revealHelper(findRequest(p, s), u, w), clearRequest(p, s),
         UNCHANGED registrations
  PROVE  StorageSafe'
<1> DEFINE req == findRequest(p, s)
           n   == combineRandomValues(u, w, blockhashOf(req))
           slot == ShortKey(p, s)
           inArray == holds(requests[slot], p, s)
           arr == IF inArray THEN [requests EXCEPT ![slot].sequenceNumber = 0] ELSE requests
           ovf == IF inArray THEN requestsOverflow
                  ELSE [requestsOverflow EXCEPT ![<<p, s>>] = ZeroRequest]
           evs == [events EXCEPT ![<<p, s>>] = Append(@, Revealed(req, n))]
           cur == providers[p].currentCommitmentSequenceNumber
           info == [providers[p] EXCEPT !.currentCommitmentSequenceNumber = s,
                                        !.currentCommitment = w]
<1>0. VarsTyped
  BY StorageTyped DEF TypeOK
<1>1. req \in Request /\ req.provider = p /\ req.sequenceNumber = s
  BY FindTyped DEF isActiveRequest, holds
<1>2. /\ providers \in [Provider -> ProviderInfo] /\ events \in [Key -> Seq(Event)]
      /\ requests \in [Slot -> Request] /\ requestsOverflow \in [Key -> Request]
      /\ registrations \in [Provider -> SUBSET Registration]
  BY <1>0 DEF VarsTyped, Registration
<1>3. /\ n.provider = w /\ n.user = u /\ n.blockHash = blockhashOf(req)
      /\ n \in RandomNumber
  <2>1. blockhashOf(req) \in Nat \cup {NoBlockhash}
    BY <1>1, Zenon DEF blockhashOf, Request
  <2> QED BY <2>1 DEF combineRandomValues, RandomNumber
<1>4. /\ bindsTo(req, w)
      /\ req.commitment.user = constructUserCommitment(n.user)
  <2>1. Commitment(constructUserCommitment(u), constructProviderCommitment(req.numHashes, w))
          = req.commitment
    BY DEF revealHelper
  <2> QED BY <1>3, <2>1 DEF Commitment, bindsTo
<1>5. Revealed(req, n) \in Event
  BY <1>1, <1>3 DEF Revealed, Event
<1>6. /\ events' = evs
      /\ providers' = IF cur < s THEN [providers EXCEPT ![p] = info] ELSE providers
  BY <1>1, Zenon DEF revealHelper
<1>7. requests' = arr /\ requestsOverflow' = ovf
  BY DEF clearRequest
<1>8. req = lookup(requests, requestsOverflow, p, s)
  BY DEF findRequest
<1> HIDE DEF req, n, slot
<1>9. /\ events[<<p, s>>] = <<Requested(req)>>
      /\ Safe(providers, arr, ovf, evs, registrations)
  BY <1>1, <1>2, <1>3, <1>4, <1>5, <1>8, CloseSafe DEF StorageSafe, req, slot
<1> HIDE DEF arr, ovf, evs, inArray
<1>10. CASE ~(cur < s)
  BY <1>6, <1>7, <1>9, <1>10 DEF StorageSafe
<1>11. CASE cur < s
  <2>1. 0 < s /\ s < providers[p].sequenceNumber
    <3>1. events[<<p, s>>] # << >>
      BY <1>9, OneEvent
    <3> QED BY <3>1 DEF StorageSafe, Safe, Fresh
  <2>2. /\ providers[p] \in ProviderInfo
        /\ providers[p].sequenceNumber \in SeqNo
        /\ providers[p].endSequenceNumber \in SeqNo
    BY <1>2 DEF ProviderInfo
  <2>3. /\ providers[p].sequenceNumber # 0
        /\ providers[p].sequenceNumber <= providers[p].sequenceNumber
    BY <2>1, <2>2, ConstantsAssumption DEF SeqNo, ConstantsAssumption
  <2>4. w = [providers[p].originalCommitment EXCEPT !.index =
               @ + (s - providers[p].originalCommitmentSequenceNumber)]
    <3>1. /\ OutcomeIn(events, registrations) /\ CountersIn(providers[p])
          /\ RegistrationsInd(providers[p], registrations[p])
      BY DEF StorageSafe, Safe
    <3>2. PICK reg \in registrations[p] : /\ governs(registrations[p], reg, s)
                                          /\ bindsTo(req, committedWord(reg, s))
      BY <1>9, <3>1, Governed
    <3>3. registrations[p] \in SUBSET Registration /\ reg \in Registration
      BY <1>2
    <3>4. w = committedWord(reg, s)
      BY <1>1, <1>4, <3>2, <3>3, OpensCommittedWord
    <3>5. committedWord(reg, s) =
            [providers[p].originalCommitment EXCEPT !.index =
               @ + (s - providers[p].originalCommitmentSequenceNumber)]
      BY <1>11, <2>2, <2>3, <3>1, <3>2, <3>3, GovernedByLatest
    <3> QED BY <3>4, <3>5
  <2>5. providers[p].sequenceNumber <= providers[p].endSequenceNumber
    BY <2>3 DEF StorageSafe, Safe, CountersIn
  <2>6. /\ info.sequenceNumber = providers[p].sequenceNumber
        /\ info.endSequenceNumber = providers[p].endSequenceNumber
        /\ info.originalCommitment = providers[p].originalCommitment
        /\ info.originalCommitmentSequenceNumber = providers[p].originalCommitmentSequenceNumber
        /\ info.currentCommitment = w
        /\ info.currentCommitmentSequenceNumber = s
    BY <2>2 DEF ProviderInfo
  <2>7. evs \in [Key -> Seq(Event)]
    <3>1. <<p, s>> \in Key
      BY DEF Key
    <3>2. Append(events[<<p, s>>], Revealed(req, n)) \in Seq(Event)
      BY <1>2, <1>5, <3>1
    <3> QED BY <1>2, <3>1, <3>2 DEF evs
  <2> HIDE DEF info
  <2>8. Safe([providers EXCEPT ![p] = info], arr, ovf, evs, registrations)
    BY <1>2, <1>9, <1>11, <2>1, <2>2, <2>3, <2>4, <2>5, <2>6, <2>7, MoveSafe
  <2> QED BY <1>6, <1>7, <1>11, <2>8 DEF StorageSafe
<1> QED BY <1>10, <1>11

-----------------------------------------------------------------------------
(* The theorems                                                             *)

\* The storage saved by a call is the current one, which is safe.
LEMMA CallFrames ==
  ASSUME IInv, externalCall \/ UNCHANGED callStack
  PROVE  \A i \in DOMAIN callStack' : FrameSafe(callStack'[i])
<1>1. callStack \in Seq(StorageType)
  BY DEF IInv, TypeOK
<1>2. CASE UNCHANGED callStack
  BY <1>2 DEF IInv
<1>3. CASE externalCall
  <2>1. FrameSafe(Storage)
    BY DEF IInv, FrameSafe, Storage
  <2>2. callStack' = Append(callStack, Storage)
    BY <1>3 DEF externalCall
  <2> SUFFICES ASSUME NEW i \in DOMAIN callStack'
               PROVE  FrameSafe(callStack'[i])
    OBVIOUS
  <2>3. (i \in DOMAIN callStack /\ callStack'[i] = callStack[i]) \/ callStack'[i] = Storage
    BY <1>1, <2>2
  <2> QED BY <2>1, <2>3 DEF IInv
<1> QED BY <1>2, <1>3

\* A pop drops the last frame.
LEMMA PopFrames ==
  ASSUME IInv, popCall
  PROVE  /\ \A i \in DOMAIN callStack' : FrameSafe(callStack'[i])
         /\ FrameSafe(callStack[Len(callStack)])
<1>1. callStack \in Seq(StorageType) /\ callStack # << >>
  BY DEF IInv, TypeOK, popCall
<1>2. Len(callStack) \in DOMAIN callStack
  BY <1>1
<1>3. \A i \in DOMAIN callStack' : i \in DOMAIN callStack /\ callStack'[i] = callStack[i]
  BY <1>1 DEF popCall
<1> QED BY <1>2, <1>3 DEF IInv

\* The contract starts safe: nothing is registered and every slot is dead,
\* prefilled or not.
LEMMA InitSafe == Init => IInv
<1> SUFFICES ASSUME Init PROVE IInv
  OBVIOUS
<1>1. TypeOK
  BY InitTyped
<1>2. \A i \in Slot : requests[i].sequenceNumber = 0
  <2>1. PICK address \in {NoAddress, PrefillAddress} :
          requests = [i \in Slot |-> [ZeroRequest EXCEPT !.provider = address]]
    BY DEF Init
  <2> QED BY <2>1 DEF ZeroRequest
<1>3. \A p \in Provider, s \in SeqNo :
        events[<<p, s>>] = << >> /\ requestsOverflow[<<p, s>>].sequenceNumber = 0
  BY DEF Init, ZeroRequest, Key
<1>4. \A p \in Provider : registrations[p] = {} /\ providers[p].sequenceNumber = 0
                          /\ providers[p].endSequenceNumber = 0
  BY DEF Init, ZeroProviderInfo
<1>5. TableInd(requests, requestsOverflow, events)
  BY <1>2, <1>3 DEF TableInd, SlotsPending, OverflowPending, PendingFound, isActive
<1>6. StorageSafe
  BY <1>3, <1>4, <1>5
  DEF StorageSafe, Safe, CountersIn, RegistrationsInd, ChainIn, Fresh, LogIn, OutcomeIn
<1>7. \A i \in DOMAIN callStack : FrameSafe(callStack[i])
  BY DEF Init
<1> QED BY <1>1, <1>6, <1>7 DEF IInv, StorageSafe

\* The provider operations.
LEMMA ProviderSafe == IInv /\ ProviderNext => TypeOK' /\ StorageSafe'
<1> SUFFICES ASSUME IInv, ProviderNext PROVE TypeOK' /\ StorageSafe'
  OBVIOUS
<1>0. TypeOK /\ StorageSafe /\ VarsTyped
  BY StorageTyped DEF IInv, StorageSafe, TypeOK
<1>1. PICK p \in Provider :
        \/ \E fee \in Fee, chain \in Chain, length \in ChainLength, uri \in Uri :
             register(p, fee, chain, length, uri)
        \/ \E amount \in Amount : withdraw(p, amount)
        \/ \E m \in Manager, amount \in Amount : withdrawAsFeeManager(m, p, amount)
        \/ \E fee \in Fee : setProviderFee(p, fee)
        \/ \E m \in Manager, fee \in Fee : setProviderFeeAsFeeManager(m, p, fee)
        \/ \E uri \in Uri : setProviderUri(p, uri)
        \/ \E m \in Manager \cup {NoAddress} : setFeeManager(p, m)
        \/ \E limit \in HashLimit : setMaxNumHashes(p, limit)
        \/ \E s \in SeqNo, w \in Word : advanceProviderCommitment(p, s, w)
  BY DEF ProviderNext
<1>2. providers \in [Provider -> ProviderInfo] /\ providers[p] \in ProviderInfo
  BY <1>0 DEF VarsTyped
<1>3. ASSUME NEW amount \in Amount, payOut(p, amount)
      PROVE  TypeOK' /\ StorageSafe'
  <2>1. \A q \in Provider : sameChain(providers'[q], providers[q])
    BY <1>2, <1>3 DEF payOut, sameChain, ProviderInfo
  <2>2. UNCHANGED <<requests, requestsOverflow, events, registrations>>
    BY <1>3 DEF payOut
  <2> QED BY <1>0, <1>3, <2>1, <2>2, PayOutTyped, ConfigSafe
<1>4. ASSUME NEW info \in ProviderInfo, sameChain(info, providers[p]),
             setProviderField(p, info)
      PROVE  TypeOK' /\ StorageSafe'
  <2>1. \A q \in Provider : sameChain(providers'[q], providers[q])
    BY <1>2, <1>4 DEF setProviderField, sameChain
  <2>2. UNCHANGED <<requests, requestsOverflow, events, registrations>>
    BY <1>4 DEF setProviderField
  <2> QED BY <1>0, <1>4, <2>1, <2>2, SetterTyped, ConfigSafe
<1>5. ASSUME NEW fee \in Fee, setProviderField(p, [providers[p] EXCEPT !.feeInWei = fee])
      PROVE  TypeOK' /\ StorageSafe'
  <2>1. fee \in Wei
    BY ConstantsAssumption DEF ConstantsAssumption, Wei
  <2>2. [providers[p] EXCEPT !.feeInWei = fee] \in ProviderInfo
    BY <1>2, <2>1 DEF ProviderInfo
  <2>3. sameChain([providers[p] EXCEPT !.feeInWei = fee], providers[p])
    BY <1>2 DEF sameChain, ProviderInfo
  <2> QED BY <1>4, <1>5, <2>2, <2>3
<1>6. ASSUME NEW uri \in Uri, setProviderUri(p, uri)
      PROVE  TypeOK' /\ StorageSafe'
  <2>1. /\ [providers[p] EXCEPT !.uri = uri] \in ProviderInfo
        /\ sameChain([providers[p] EXCEPT !.uri = uri], providers[p])
    BY <1>2 DEF sameChain, ProviderInfo
  <2> QED BY <1>4, <1>6, <2>1 DEF setProviderUri
<1>7. ASSUME NEW m \in Manager \cup {NoAddress}, setFeeManager(p, m)
      PROVE  TypeOK' /\ StorageSafe'
  <2>1. /\ [providers[p] EXCEPT !.feeManager = m] \in ProviderInfo
        /\ sameChain([providers[p] EXCEPT !.feeManager = m], providers[p])
    BY <1>2 DEF sameChain, ProviderInfo
  <2> QED BY <1>4, <1>7, <2>1 DEF setFeeManager
<1>8. ASSUME NEW limit \in HashLimit, setMaxNumHashes(p, limit)
      PROVE  TypeOK' /\ StorageSafe'
  <2>1. /\ [providers[p] EXCEPT !.maxNumHashes = limit] \in ProviderInfo
        /\ sameChain([providers[p] EXCEPT !.maxNumHashes = limit], providers[p])
    BY <1>2 DEF sameChain, ProviderInfo
  <2> QED BY <1>4, <1>8, <2>1 DEF setMaxNumHashes
<1>9. ASSUME NEW s \in SeqNo, NEW w \in Word, advanceProviderCommitment(p, s, w)
      PROVE  TypeOK' /\ StorageSafe'
  BY <1>0, <1>9, AdvanceTyped, AdvanceStep
<1>10. ASSUME NEW fee \in Fee, NEW chain \in Chain, NEW length \in ChainLength,
              NEW uri \in Uri, register(p, fee, chain, length, uri)
       PROVE  TypeOK' /\ StorageSafe'
  BY <1>0, <1>10, RegisterTyped, RegisterStep
<1> QED
  BY <1>1, <1>3, <1>5, <1>6, <1>7, <1>8, <1>9, <1>10
  DEF withdraw, withdrawAsFeeManager, setProviderFee, setProviderFeeAsFeeManager

\* The user operations.
LEMMA UserSafe == IInv /\ UserNext => TypeOK' /\ StorageSafe'
<1> SUFFICES ASSUME IInv, UserNext PROVE TypeOK' /\ StorageSafe'
  OBVIOUS
<1>0. TypeOK /\ StorageSafe /\ ProviderCounters
  BY DEF IInv, StorageSafe, Safe, ProviderCounters
<1>1. PICK p \in Provider, u \in UserNumber :
        \/ \E r \in Requester, v \in Value, b \in BOOLEAN :
             request(p, r, v, constructUserCommitment(u), b)
        \/ \E r \in Requester, v \in Value : requestWithCallback(p, r, v, u)
        \/ \E r \in Requester, s \in SeqNo, w \in Word : reveal(r, p, s, u, w)
        \/ \E s \in SeqNo, w \in Word : revealWithCallback(p, s, u, w)
  BY DEF UserNext
<1>2. ASSUME NEW r \in Requester, NEW v \in Value, NEW b \in BOOLEAN, NEW c \in BOOLEAN,
             requestHelper(p, r, v, constructUserCommitment(u), b, c)
      PROVE  TypeOK' /\ StorageSafe'
  BY <1>0, <1>2, RequestTyped, RequestStep
<1>3. ASSUME NEW r \in Requester, NEW s \in SeqNo, NEW w \in Word, reveal(r, p, s, u, w)
      PROVE  TypeOK' /\ StorageSafe'
  <2>1. /\ isActiveRequest(findRequest(p, s), p, s)
        /\ revealHelper(findRequest(p, s), u, w) /\ clearRequest(p, s)
        /\ UNCHANGED registrations
    BY <1>3 DEF reveal
  <2> QED BY <1>0, <1>3, <2>1, RevealCallTyped, RevealStep
<1>4. ASSUME NEW s \in SeqNo, NEW w \in Word, revealWithCallback(p, s, u, w)
      PROVE  TypeOK' /\ StorageSafe'
  <2>1. /\ isActiveRequest(findRequest(p, s), p, s)
        /\ revealHelper(findRequest(p, s), u, w) /\ clearRequest(p, s)
        /\ UNCHANGED registrations
    BY <1>4 DEF revealWithCallback
  <2> QED BY <1>0, <1>4, <2>1, RevealWithCallbackTyped, RevealStep
<1> QED
  BY <1>1, <1>2, <1>3, <1>4 DEF request, requestWithCallback

\* Only withdrawals, callbacks and the end of a call touch the call stack.
LEMMA StackStep ==
  ASSUME Next
  PROVE  externalCall \/ UNCHANGED callStack \/ ReturnCall \/ RevertCall
<1>1. ProviderNext => externalCall \/ UNCHANGED callStack
  <2>1. \A p, amount : payOut(p, amount) => externalCall
    BY DEF payOut
  <2>2. \A p, info : setProviderField(p, info) => UNCHANGED callStack
    BY DEF setProviderField
  <2>3. \A p, fee, chain, length, uri : register(p, fee, chain, length, uri)
                                          => UNCHANGED callStack
    BY DEF register
  <2>4. \A p, s, w : advanceProviderCommitment(p, s, w) => UNCHANGED callStack
    BY DEF advanceProviderCommitment
  <2> QED
    BY <2>1, <2>2, <2>3, <2>4, Zenon
    DEF ProviderNext, withdraw, withdrawAsFeeManager, setProviderFee,
        setProviderFeeAsFeeManager, setProviderUri, setFeeManager, setMaxNumHashes
<1>2. UserNext => externalCall \/ UNCHANGED callStack
  <2>1. \A p, r, v, h, b, c : requestHelper(p, r, v, h, b, c) => UNCHANGED callStack
    BY DEF requestHelper
  <2>2. \A r, p, s, u, w : reveal(r, p, s, u, w) => UNCHANGED callStack
    BY DEF reveal
  <2>3. \A p, s, u, w : revealWithCallback(p, s, u, w)
                          => externalCall \/ UNCHANGED callStack
    BY Zenon DEF revealWithCallback
  <2> QED BY <2>1, <2>2, <2>3, Zenon DEF UserNext, request, requestWithCallback
<1>3. GovernanceNext => UNCHANGED callStack
  BY DEF GovernanceNext, proposeAdmin, acceptAdmin, setPythFee, setDefaultProvider,
         setGovernance
<1> QED BY <1>1, <1>2, <1>3 DEF Next, NewBlock

\* Every step of the contract keeps the invariant.
LEMMA Inductive == IInv /\ [Next]_vars => IInv'
<1> SUFFICES ASSUME IInv, [Next]_vars PROVE IInv'
  OBVIOUS
<1>0. TypeOK /\ StorageSafe
  BY DEF IInv, StorageSafe
<1>1. CASE UNCHANGED vars
  <2>1. TypeOK'
    BY <1>0, <1>1 DEF TypeOK, vars, Storage
  <2>2. StorageSafe'
    BY <1>0, <1>1 DEF StorageSafe, vars
  <2>3. \A i \in DOMAIN callStack' : FrameSafe(callStack'[i])
    BY <1>1 DEF IInv, vars
  <2> QED BY <2>1, <2>2, <2>3 DEF IInv, StorageSafe
<1>2. CASE ReturnCall
  <2>1. TypeOK' /\ StorageSafe'
    <3>1. TypeOK'
      BY <1>0, <1>2, EndCallTyped
    <3>2. StorageSafe'
      BY <1>0, <1>2 DEF ReturnCall, StorageSafe
    <3> QED BY <3>1, <3>2
  <2>2. \A i \in DOMAIN callStack' : FrameSafe(callStack'[i])
    BY <1>2, PopFrames DEF ReturnCall
  <2> QED BY <2>1, <2>2 DEF IInv, StorageSafe
<1>3. CASE RevertCall
  <2>1. TypeOK'
    BY <1>0, <1>3, EndCallTyped
  <2>2. popCall
    BY <1>3 DEF RevertCall
  <2>3. StorageSafe'
    BY <1>3, <2>2, PopFrames DEF RevertCall, StorageSafe, FrameSafe
  <2>4. \A i \in DOMAIN callStack' : FrameSafe(callStack'[i])
    BY <2>2, PopFrames
  <2> QED BY <2>1, <2>3, <2>4 DEF IInv, StorageSafe
<1>4. CASE ProviderNext \/ UserNext \/ GovernanceNext \/ NewBlock
  <2>1. TypeOK' /\ StorageSafe'
    <3>1. CASE ProviderNext
      BY <3>1, ProviderSafe
    <3>2. CASE UserNext
      BY <3>2, UserSafe
    <3>3. CASE GovernanceNext
      <4>1. UNCHANGED <<providers, requests, requestsOverflow, events, registrations>>
        BY <3>3 DEF GovernanceNext, proposeAdmin, acceptAdmin, setPythFee,
                    setDefaultProvider, setGovernance
      <4> QED BY <1>0, <3>3, <4>1, GovernanceTyped DEF StorageSafe
    <3>4. CASE NewBlock
      BY <1>0, <3>4 DEF NewBlock, TypeOK, StorageSafe, Storage
    <3> QED BY <1>4, <3>1, <3>2, <3>3, <3>4
  <2>2. CASE externalCall \/ UNCHANGED callStack
    <3>1. \A i \in DOMAIN callStack' : FrameSafe(callStack'[i])
      BY <2>2, CallFrames
    <3> QED BY <2>1, <3>1 DEF IInv, StorageSafe
  <2> QED BY <1>2, <1>3, <1>4, <2>2, StackStep DEF Next
<1> QED BY <1>1, <1>2, <1>3, <1>4 DEF Next

\* The inductive invariant holds in every reachable state: of the current storage
\* and of every storage an open call could revert to.
THEOREM Invariance == Spec => []IInv
<1>1. Init => IInv
  BY InitSafe
<1>2. IInv /\ [Next]_vars => IInv'
  BY Inductive
<1> QED BY <1>1, <1>2, PTL DEF Spec

\* The storage and all saved storages keep the Solidity types.
THEOREM TypeCorrect == Spec => []TypeOK
<1>1. IInv => TypeOK
  BY DEF IInv
<1> QED BY <1>1, Invariance, PTL

\* The counters of EntropyStructs.sol are ordered as documented, for any number
\* of providers, rotations, advances and nested calls.
THEOREM CountersCorrect == Spec => []ProviderCounters
<1>1. IInv => ProviderCounters
  BY DEF IInv, Safe, ProviderCounters
<1> QED BY <1>1, Invariance, PTL

\* The two-level table holds exactly the pending requests, for every number of
\* slots and every hash function that assigns them.
THEOREM TableCorrect == Spec => []TableFindsPending
<1>1. IInv => TableFindsPending
  <2> SUFFICES ASSUME IInv PROVE TableIn(requests, requestsOverflow, events)
    BY DEF TableFindsPending
  <2>1. /\ requests \in [Slot -> Request] /\ requestsOverflow \in [Key -> Request]
        /\ events \in [Key -> Seq(Event)]
    BY StorageTyped DEF IInv, TypeOK, VarsTyped
  <2> QED BY <2>1, TableFinds DEF IInv, Safe
<1> QED BY <1>1, Invariance, PTL

\* A number is assigned once and revealed at most once, at any call depth.
THEOREM RevealedOnceCorrect == Spec => []RevealedOnce
<1>1. IInv => RevealedOnce
  BY DEF IInv, Safe, RevealedOnce
<1> QED BY <1>1, Invariance, PTL

\* The provider's contribution is fixed by the registration in force when the
\* request was made.
THEOREM OutcomeCorrect == Spec => []RevealsCommittedNumber
<1>1. IInv => RevealsCommittedNumber
  BY DEF IInv, Safe, RevealsCommittedNumber
<1> QED BY <1>1, Invariance, PTL

\* The commitment new requests are recorded against lies on the latest chain.
THEOREM CommitmentCorrect == Spec => []CommitmentTracksChain
<1>1. IInv => CommitmentTracksChain
  BY DEF IInv, Safe, CommitmentTracksChain, RegistrationsInd
<1> QED BY <1>1, Invariance, PTL
=============================================================================
