------------------------ MODULE EntropyLedgerProofs ------------------------
(***************************************************************************)
(* Two accounts of the Entropy contract that balance, for every set of     *)
(* providers, every hash table, every chain and every depth of calls.      *)
(*                                                                         *)
(* The numbers: the contract implements the randomness ledger.  What a     *)
(* transaction commits, with all the calls nested in it that did not       *)
(* revert, is one step of the ledger.                                      *)
(*                                                                         *)
(* The wei: the contract holds exactly what it owes.                       *)
(***************************************************************************)
EXTENDS MCEntropy, EntropyProofs, FiniteSetTheorems, WellFoundedInduction

\* What a part of a transaction may do to the log of one number: nothing, open
\* it if it is not below the provider's next number, or add an answer.
logStep(before, after, s, next) ==
  \/ after = before
  \/ before = << >> /\ after # << >> /\ next <= s
  \/ Len(before) = 1 /\ Len(after) = 2 /\ after[1] = before[1]

\* The storage with providers prov1 and events evs1 can follow, in the same
\* transaction, the one with prov and evs.
Follows(prov, evs, prov1, evs1) ==
  \A p \in Provider :
    /\ prov[p].sequenceNumber <= prov1[p].sequenceNumber
    /\ \A s \in SeqNo :
         logStep(evs[<<p, s>>], evs1[<<p, s>>], s, prov[p].sequenceNumber)

\* A frame is followed by the frames above it and by the current storage: what
\* a revert restores has not lost what the open calls below it did.
FramesFollow ==
  /\ \A i \in DOMAIN callStack :
       Follows(callStack[i].providers, callStack[i].events, providers, events)
  /\ \A i, j \in DOMAIN callStack : i < j =>
       Follows(callStack[i].providers, callStack[i].events,
               callStack[j].providers, callStack[j].events)

-----------------------------------------------------------------------------
(* Steps of one storage *)

\* The next number of a provider is a number.
LEMMA NextNumbers ==
  ASSUME NEW prov \in [Provider -> ProviderInfo], NEW p \in Provider
  PROVE  prov[p].sequenceNumber \in Int /\ SeqNo \subseteq Int
  BY ConstantsAssumption DEF ProviderInfo, SeqNo, ConstantsAssumption

\* A storage follows itself.
LEMMA FollowsSelf ==
  ASSUME NEW prov \in [Provider -> ProviderInfo], NEW evs
  PROVE  Follows(prov, evs, prov, evs)
  BY NextNumbers DEF Follows, logStep

\* One part of a transaction after another is a part of it.
LEMMA FollowsTransitive ==
  ASSUME NEW a \in [Provider -> ProviderInfo], NEW b \in [Provider -> ProviderInfo],
         NEW c \in [Provider -> ProviderInfo], NEW x, NEW y, NEW z,
         Follows(a, x, b, y), Follows(b, y, c, z)
  PROVE  Follows(a, x, c, z)
<1> SUFFICES ASSUME NEW p \in Provider
             PROVE  /\ a[p].sequenceNumber <= c[p].sequenceNumber
                    /\ \A s \in SeqNo : logStep(x[<<p, s>>], z[<<p, s>>], s, a[p].sequenceNumber)
  BY DEF Follows
<1>1. /\ a[p].sequenceNumber \in Int /\ b[p].sequenceNumber \in Int
      /\ c[p].sequenceNumber \in Int /\ SeqNo \subseteq Int
  BY NextNumbers
<1>2. a[p].sequenceNumber <= b[p].sequenceNumber /\ b[p].sequenceNumber <= c[p].sequenceNumber
  BY DEF Follows
<1>3. ASSUME NEW s \in SeqNo
      PROVE  logStep(x[<<p, s>>], z[<<p, s>>], s, a[p].sequenceNumber)
  <2> DEFINE u == x[<<p, s>>]  v == y[<<p, s>>]  w == z[<<p, s>>]
             m == a[p].sequenceNumber  n == b[p].sequenceNumber
  <2>1. logStep(u, v, s, m) /\ logStep(v, w, s, n)
    BY DEF Follows
  <2>2. m \in Int /\ n \in Int /\ s \in Int /\ m <= n
    BY <1>1, <1>2
  <2>3. Len(<< >>) = 0
    OBVIOUS
  <2> HIDE DEF u, v, w, m, n
  <2>4. logStep(u, w, s, m)
    BY <2>1, <2>2, <2>3, SMT DEF logStep
  <2> QED BY <2>4 DEF u, w, m
<1> QED BY <1>1, <1>2, <1>3
\* A call that logs nothing and takes no provider's next number back.
LEMMA QuietFollows ==
  ASSUME VarsTyped, VarsTyped', UNCHANGED events,
         \A q \in Provider : providers[q].sequenceNumber <= providers'[q].sequenceNumber
  PROVE  Follows(providers, events, providers', events')
  BY DEF Follows, logStep

\* register and advanceProviderCommitment raise the next number of the provider,
\* the setters and withdrawals keep it.
LEMMA ProviderFollows ==
  ASSUME VarsTyped, VarsTyped', ProviderNext
  PROVE  Follows(providers, events, providers', events')
<1>1. PICK p \in Provider :
        \/ \E fee \in Fee, chain \in Chain, length \in ChainLength, uri \in Uri :
             register(p, fee, chain, length, uri)
        \/ \E amount \in Amount : withdraw(p, amount)
        \/ \E m \in Manager, amount \in Amount : withdrawAsFeeManager(m, p, amount)
        \/ \E fee \in Fee : setProviderFee(p, fee)
        \/ \E m \in Manager, fee \in Fee : setProviderFeeAsFeeManager(m, p, fee)
        \/ \E uri \in Uri : setProviderUri(p, uri)
        \/ \E m \in Manager \cup {NoAddress} : setFeeManager(p, m)
        \/ \E limit \in HashLimit : setMaxNumHashes(p, limit)
        \/ \E s \in SeqNo, w \in Word : advanceProviderCommitment(p, s, w)
  BY DEF ProviderNext
<1>2. providers \in [Provider -> ProviderInfo] /\ providers[p] \in ProviderInfo
  BY DEF VarsTyped
<1>3. \A q \in Provider : providers[q].sequenceNumber \in Int
  BY <1>2, NextNumbers
<1>4. ASSUME NEW info, providers' = [providers EXCEPT ![p] = info], UNCHANGED events,
             providers[p].sequenceNumber <= info.sequenceNumber
      PROVE  Follows(providers, events, providers', events')
  <2>1. \A q \in Provider : providers[q].sequenceNumber <= providers'[q].sequenceNumber
    BY <1>2, <1>3, <1>4
  <2> QED BY <1>4, <2>1, QuietFollows
<1>5. ASSUME NEW info, setProviderField(p, info),
             info.sequenceNumber = providers[p].sequenceNumber
      PROVE  Follows(providers, events, providers', events')
  <2>1. providers' = [providers EXCEPT ![p] = info] /\ UNCHANGED events
    BY <1>5 DEF setProviderField
  <2>2. providers[p].sequenceNumber <= info.sequenceNumber
    BY <1>3, <1>5
  <2> QED BY <1>4, <2>1, <2>2, Zenon
<1>6. ASSUME NEW amount \in Amount, payOut(p, amount)
      PROVE  Follows(providers, events, providers', events')
  <2> DEFINE info == [providers[p] EXCEPT !.accruedFeesInWei = @ - amount]
  <2>1. providers' = [providers EXCEPT ![p] = info] /\ UNCHANGED events
    BY <1>6 DEF payOut
  <2>2. info.sequenceNumber = providers[p].sequenceNumber
    BY <1>2 DEF ProviderInfo
  <2> HIDE DEF info
  <2>3. providers[p].sequenceNumber <= info.sequenceNumber
    BY <1>3, <2>2
  <2> QED BY <1>4, <2>1, <2>3, Zenon
<1>7. ASSUME NEW fee \in Fee, NEW chain \in Chain, NEW length \in ChainLength,
             NEW uri \in Uri, register(p, fee, chain, length, uri)
      PROVE  Follows(providers, events, providers', events')
  <2> DEFINE start == providers[p].sequenceNumber
             commitment == [chain |-> chain, index |-> 0]
             info == [providers[p] EXCEPT
               !.feeInWei = fee,
               !.originalCommitment = commitment,
               !.originalCommitmentSequenceNumber = start,
               !.currentCommitment = commitment,
               !.currentCommitmentSequenceNumber = start,
               !.endSequenceNumber = start + length,
               !.uri = uri,
               !.sequenceNumber = start + 1]
  <2>1. providers' = [providers EXCEPT ![p] = info] /\ UNCHANGED events
    BY <1>7, Zenon DEF register
  <2>2. info.sequenceNumber = start + 1
    BY <1>2 DEF ProviderInfo
  <2> HIDE DEF info
  <2>3. providers[p].sequenceNumber <= info.sequenceNumber
    BY <1>3, <2>2
  <2> QED BY <1>4, <2>1, <2>3, Zenon
<1>8. ASSUME NEW s \in SeqNo, NEW w \in Word, advanceProviderCommitment(p, s, w)
      PROVE  Follows(providers, events, providers', events')
  <2> DEFINE next == IF s >= providers[p].sequenceNumber
                     THEN s + 1 ELSE providers[p].sequenceNumber
             info == [providers[p] EXCEPT
                        !.currentCommitmentSequenceNumber = s,
                        !.currentCommitment = w,
                        !.sequenceNumber = next]
  <2>1. providers' = [providers EXCEPT ![p] = info] /\ UNCHANGED events
    BY <1>8, Zenon DEF advanceProviderCommitment
  <2>2. info.sequenceNumber = next
    BY <1>2 DEF ProviderInfo
  <2>3. s \in Int
    BY <1>2, NextNumbers
  <2> HIDE DEF info
  <2>4. providers[p].sequenceNumber <= info.sequenceNumber
    BY <1>3, <2>2, <2>3
  <2> QED BY <1>4, <2>1, <2>4, Zenon
<1>9. /\ \A fee : [providers[p] EXCEPT !.feeInWei = fee].sequenceNumber
                    = providers[p].sequenceNumber
      /\ \A uri : [providers[p] EXCEPT !.uri = uri].sequenceNumber
                    = providers[p].sequenceNumber
      /\ \A m : [providers[p] EXCEPT !.feeManager = m].sequenceNumber
                    = providers[p].sequenceNumber
      /\ \A limit : [providers[p] EXCEPT !.maxNumHashes = limit].sequenceNumber
                    = providers[p].sequenceNumber
  BY <1>2 DEF ProviderInfo
<1>10. \/ \E info : setProviderField(p, info) /\ info.sequenceNumber = providers[p].sequenceNumber
       \/ \E amount \in Amount : payOut(p, amount)
       \/ \E fee \in Fee, chain \in Chain, length \in ChainLength, uri \in Uri :
            register(p, fee, chain, length, uri)
       \/ \E s \in SeqNo, w \in Word : advanceProviderCommitment(p, s, w)
  BY <1>1, <1>9, Zenon
  DEF withdraw, withdrawAsFeeManager, setProviderFee, setProviderFeeAsFeeManager,
      setProviderUri, setFeeManager, setMaxNumHashes
<1> QED BY <1>5, <1>6, <1>7, <1>8, <1>10

\* A request opens the log of the provider's next number, which was empty.
LEMMA RequestFollows ==
  ASSUME VarsTyped, VarsTyped', StorageSafe, NEW p \in Provider, NEW r, NEW v, NEW h, NEW b, NEW c,
         requestHelper(p, r, v, h, b, c)
  PROVE  Follows(providers, events, providers', events')
<1> DEFINE n == providers[p].sequenceNumber
           info == [providers[p] EXCEPT
                      !.sequenceNumber = n + 1,
                      !.accruedFeesInWei = providers[p].accruedFeesInWei + providers[p].feeInWei]
<1>1. /\ providers \in [Provider -> ProviderInfo] /\ providers[p] \in ProviderInfo
      /\ n \in SeqNo /\ n \in Int /\ SeqNo \subseteq Int /\ events \in [Key -> Seq(Event)]
  BY NextNumbers DEF VarsTyped, ProviderInfo
<1>2. \E e : events' = [events EXCEPT ![<<p, n>>] = Append(events[<<p, n>>], e)]
  BY Zenon DEF requestHelper
<1>3. PICK e : events' = [events EXCEPT ![<<p, n>>] = Append(events[<<p, n>>], e)]
  BY <1>2
<1>4. providers' = [providers EXCEPT ![p] = info]
  BY Zenon DEF requestHelper
<1>5. info.sequenceNumber = n + 1
  BY <1>1 DEF ProviderInfo
<1> HIDE DEF info
<1>6. \A q \in Provider : providers[q].sequenceNumber <= providers'[q].sequenceNumber
  <2>1. \A q \in Provider : providers[q].sequenceNumber \in Int
    BY <1>1, NextNumbers
  <2> QED BY <1>1, <1>4, <1>5, <2>1
<1>7. events[<<p, n>>] = << >>
  <2>1. Fresh(providers, events)
    BY DEF StorageSafe, Safe
  <2> QED BY <1>1, <2>1 DEF Fresh
<1>8. ASSUME NEW q \in Provider, NEW s \in SeqNo
      PROVE  logStep(events[<<q, s>>], events'[<<q, s>>], s, providers[q].sequenceNumber)
  <2>1. <<q, s>> \in Key /\ <<p, n>> \in Key
    BY <1>1 DEF Key
  <2>2. CASE q = p /\ s = n
    <3>1. events'[<<q, s>>] = Append(<< >>, e)
      BY <1>1, <1>3, <1>7, <2>1, <2>2
    <3>2. Append(<< >>, e) # << >>
      OBVIOUS
    <3> QED BY <1>1, <1>7, <2>2, <3>1, <3>2 DEF logStep
  <2>3. CASE ~(q = p /\ s = n)
    <3>1. events'[<<q, s>>] = events[<<q, s>>]
      BY <1>1, <1>3, <2>1, <2>3
    <3> QED BY <3>1 DEF logStep
  <2> QED BY <2>2, <2>3
<1> QED BY <1>6, <1>8 DEF Follows

\* A reveal adds the answer to the log of a pending request.
LEMMA RevealFollows ==
  ASSUME VarsTyped, VarsTyped', StorageSafe, NEW p \in Provider, NEW s \in SeqNo, NEW u, NEW w,
         isActiveRequest(findRequest(p, s), p, s), revealHelper(findRequest(p, s), u, w)
  PROVE  Follows(providers, events, providers', events')
<1> DEFINE req == findRequest(p, s)
<1>1. /\ providers \in [Provider -> ProviderInfo] /\ providers[p] \in ProviderInfo
      /\ events \in [Key -> Seq(Event)] /\ requests \in [Slot -> Request]
      /\ requestsOverflow \in [Key -> Request] /\ <<p, s>> \in Key
  BY DEF VarsTyped, Key
<1>2. req.provider = p /\ req.sequenceNumber = s
  BY DEF isActiveRequest, holds
<1>3. pending(events[<<p, s>>])
  <2>1. TableIn(requests, requestsOverflow, events)
    BY <1>1, TableFinds DEF StorageSafe, Safe
  <2> QED BY <2>1 DEF TableIn, findRequest
<1> HIDE DEF req
<1>4. PICK e : events' = [events EXCEPT ![<<p, s>>] = Append(events[<<p, s>>], e)]
  <2>1. \E e : events' = [events EXCEPT ![<<req.provider, req.sequenceNumber>>] =
                            Append(events[<<req.provider, req.sequenceNumber>>], e)]
    BY Zenon DEF revealHelper, req
  <2> QED BY <1>2, <2>1
<1>5. \A q \in Provider : providers[q].sequenceNumber <= providers'[q].sequenceNumber
  <2> DEFINE info == [providers[p] EXCEPT !.currentCommitmentSequenceNumber = s,
                                          !.currentCommitment = w]
  <2>1. providers' = [providers EXCEPT ![p] = info] \/ providers' = providers
    BY <1>2, Zenon DEF revealHelper, req
  <2>2. info.sequenceNumber = providers[p].sequenceNumber
    BY <1>1 DEF ProviderInfo
  <2>3. \A q \in Provider : providers[q].sequenceNumber \in Int
    BY <1>1, NextNumbers
  <2> HIDE DEF info
  <2> QED BY <1>1, <2>1, <2>2, <2>3
<1>6. ASSUME NEW q \in Provider, NEW t \in SeqNo
      PROVE  logStep(events[<<q, t>>], events'[<<q, t>>], t, providers[q].sequenceNumber)
  <2>1. <<q, t>> \in Key
    BY DEF Key
  <2>2. CASE q = p /\ t = s
    <3> DEFINE log == events[<<p, s>>]
    <3>1. events'[<<q, t>>] = Append(log, e)
      BY <1>1, <1>4, <2>2
    <3>2. log \in Seq(Event) /\ Len(log) = 1
      BY <1>1, <1>3 DEF pending
    <3> HIDE DEF log
    <3>3. Len(Append(log, e)) = 2 /\ Append(log, e)[1] = log[1]
      BY <3>2
    <3> QED BY <2>2, <3>1, <3>2, <3>3 DEF logStep, log
  <2>3. CASE ~(q = p /\ t = s)
    <3>1. events'[<<q, t>>] = events[<<q, t>>]
      BY <1>1, <1>4, <2>1, <2>3
    <3> QED BY <3>1 DEF logStep
  <2> QED BY <2>2, <2>3
<1> QED BY <1>5, <1>6 DEF Follows

\* Every function of the contract takes the storage to one that follows it.
LEMMA StepFollows ==
  ASSUME IInv, IInv', ProviderNext \/ UserNext \/ GovernanceNext \/ NewBlock
  PROVE  Follows(providers, events, providers', events')
<1>1. VarsTyped /\ VarsTyped' /\ StorageSafe
  BY StorageTyped, StorageTypedNext DEF IInv, TypeOK, StorageSafe
<1>2. CASE ProviderNext
  BY <1>1, <1>2, ProviderFollows
<1>3. CASE UserNext
  <2>1. PICK p \in Provider, u \in UserNumber :
          \/ \E r \in Requester, v \in Value, b \in BOOLEAN :
               request(p, r, v, constructUserCommitment(u), b)
          \/ \E r \in Requester, v \in Value : requestWithCallback(p, r, v, u)
          \/ \E r \in Requester, s \in SeqNo, w \in Word : reveal(r, p, s, u, w)
          \/ \E s \in SeqNo, w \in Word : revealWithCallback(p, s, u, w)
    BY <1>3 DEF UserNext
  <2>2. \/ \E r, v, h, b, c : requestHelper(p, r, v, h, b, c)
        \/ \E s \in SeqNo, w \in Word : /\ isActiveRequest(findRequest(p, s), p, s)
                                        /\ revealHelper(findRequest(p, s), u, w)
    BY <2>1, Zenon DEF request, requestWithCallback, reveal, revealWithCallback
  <2> QED BY <1>1, <2>2, RequestFollows, RevealFollows
<1>4. CASE GovernanceNext \/ NewBlock
  <2>1. UNCHANGED <<providers, events>>
    BY <1>4 DEF GovernanceNext, proposeAdmin, acceptAdmin, setPythFee,
                setDefaultProvider, setGovernance, NewBlock
  <2> QED BY <1>1, <2>1, FollowsSelf DEF VarsTyped
<1> QED BY <1>2, <1>3, <1>4

-----------------------------------------------------------------------------
(* The call stack *)

LedgerInv == IInv /\ FramesFollow

\* The providers in every frame have their types.
LEMMA FramesTyped ==
  ASSUME IInv
  PROVE  /\ callStack \in Seq(StorageType)
         /\ \A i \in DOMAIN callStack : callStack[i].providers \in [Provider -> ProviderInfo]
         /\ providers \in [Provider -> ProviderInfo]
<1>1. callStack \in Seq(StorageType) /\ VarsTyped
  BY StorageTyped DEF IInv, TypeOK
<1>2. \A i \in DOMAIN callStack : callStack[i] \in StorageType
  BY <1>1
<1> QED BY <1>1, <1>2 DEF StorageType, VarsTyped

\* A function that runs in the open calls, and may open another one.
LEMMA CallKeepsFrames ==
  ASSUME LedgerInv, IInv', externalCall \/ UNCHANGED callStack,
         Follows(providers, events, providers', events')
  PROVE  FramesFollow'
<1>1. /\ callStack \in Seq(StorageType)
      /\ \A i \in DOMAIN callStack : callStack[i].providers \in [Provider -> ProviderInfo]
      /\ providers \in [Provider -> ProviderInfo]
  BY FramesTyped DEF LedgerInv
<1>2. providers' \in [Provider -> ProviderInfo]
  BY StorageTypedNext DEF IInv, TypeOK, VarsTyped
<1>3. \A i \in DOMAIN callStack :
        Follows(callStack[i].providers, callStack[i].events, providers', events')
  <2> SUFFICES ASSUME NEW i \in DOMAIN callStack
               PROVE  Follows(callStack[i].providers, callStack[i].events, providers', events')
    OBVIOUS
  <2>1. Follows(callStack[i].providers, callStack[i].events, providers, events)
    BY DEF LedgerInv, FramesFollow
  <2> QED BY <1>1, <1>2, <2>1, FollowsTransitive
<1>4. CASE UNCHANGED callStack
  BY <1>3, <1>4 DEF LedgerInv, FramesFollow
<1>5. CASE externalCall
  <2>1. callStack' = Append(callStack, Storage)
    BY <1>5 DEF externalCall
  <2>2. Storage.providers = providers /\ Storage.events = events
    BY DEF Storage
  <2>3. \A i \in DOMAIN callStack' :
          \/ i \in DOMAIN callStack /\ callStack'[i] = callStack[i]
          \/ i = Len(callStack) + 1 /\ callStack'[i] = Storage
    BY <1>1, <2>1
  <2>4. ASSUME NEW i \in DOMAIN callStack'
        PROVE  Follows(callStack'[i].providers, callStack'[i].events, providers', events')
    BY <1>3, <2>2, <2>3
  <2>5. ASSUME NEW i \in DOMAIN callStack', NEW j \in DOMAIN callStack', i < j
        PROVE  Follows(callStack'[i].providers, callStack'[i].events,
                       callStack'[j].providers, callStack'[j].events)
    <3>1. i \in DOMAIN callStack /\ callStack'[i] = callStack[i]
      BY <1>1, <2>1, <2>3, <2>5
    <3> QED BY <2>2, <2>3, <2>5, <3>1 DEF LedgerInv, FramesFollow
  <2> QED BY <2>4, <2>5 DEF FramesFollow
<1> QED BY <1>4, <1>5

\* A call that returns drops its frame; one that reverts makes its frame the
\* storage, which follows the frames below.
LEMMA EndCallKeepsFrames ==
  ASSUME LedgerInv, ReturnCall \/ RevertCall
  PROVE  FramesFollow'
<1> DEFINE n == Len(callStack)
<1>1. callStack \in Seq(StorageType) /\ callStack # << >> /\ popCall
  BY FramesTyped DEF LedgerInv, ReturnCall, RevertCall, popCall
<1>2. \A i \in DOMAIN callStack' :
        i \in DOMAIN callStack /\ callStack'[i] = callStack[i] /\ i < n
  BY <1>1 DEF popCall
<1>3. n \in DOMAIN callStack
  BY <1>1
<1>4. CASE ReturnCall
  <2>1. UNCHANGED <<providers, events>>
    BY <1>4 DEF ReturnCall
  <2> QED BY <1>2, <2>1 DEF LedgerInv, FramesFollow
<1>5. CASE RevertCall
  <2>1. providers' = callStack[n].providers /\ events' = callStack[n].events
    BY <1>5 DEF RevertCall
  <2> QED BY <1>2, <1>3, <2>1 DEF LedgerInv, FramesFollow
<1> QED BY <1>4, <1>5

\* FramesFollow is inductive with the invariant of the contract.
LEMMA LedgerInductive == LedgerInv /\ [Next]_vars => LedgerInv'
<1> SUFFICES ASSUME LedgerInv, [Next]_vars PROVE LedgerInv'
  OBVIOUS
<1>1. IInv'
  BY Inductive DEF LedgerInv
<1>2. CASE UNCHANGED vars
  BY <1>1, <1>2 DEF vars, LedgerInv, FramesFollow
<1>3. CASE ReturnCall \/ RevertCall
  BY <1>1, <1>3, EndCallKeepsFrames DEF LedgerInv
<1>4. CASE ProviderNext \/ UserNext \/ GovernanceNext \/ NewBlock
  <2>1. Follows(providers, events, providers', events')
    BY <1>1, <1>4, StepFollows DEF LedgerInv
  <2>2. externalCall \/ UNCHANGED callStack \/ ReturnCall \/ RevertCall
    BY <1>4, StackStep DEF Next
  <2> QED BY <1>1, <1>3, <2>1, <2>2, CallKeepsFrames DEF LedgerInv
<1> QED BY <1>2, <1>3, <1>4 DEF Next

-----------------------------------------------------------------------------
(* The ledger *)

\* The entry of a log with no, one or two events.
LEMMA Entries ==
  ASSUME NEW log
  PROVE  /\ Len(log) = 0 => ledgerEntry(log) = Ledger!Unused
         /\ Len(log) = 1 => ledgerEntry(log) = Ledger!Open(log[1].request)
         /\ Len(log) = 2 =>
              ledgerEntry(log) = Ledger!Answered(log[2].request, log[2].randomNumber)
<1>1. ASSUME Len(log) = 0 PROVE ledgerEntry(log) = Ledger!Unused
  BY <1>1 DEF ledgerEntry, Ledger!Unused
<1>2. ASSUME Len(log) = 1 PROVE ledgerEntry(log) = Ledger!Open(log[1].request)
  BY <1>2 DEF ledgerEntry, Ledger!Open
<1>3. ASSUME Len(log) = 2
      PROVE  ledgerEntry(log) = Ledger!Answered(log[2].request, log[2].randomNumber)
  BY <1>3 DEF ledgerEntry, Ledger!Answered
<1> QED BY <1>1, <1>2, <1>3

\* What a storage with a correct log says of one number.
LEMMA LogShape ==
  ASSUME NEW evs \in [Key -> Seq(Event)], LogIn(evs), NEW p \in Provider, NEW s \in SeqNo
  PROVE  /\ evs[<<p, s>>] = << >> <=> Len(evs[<<p, s>>]) = 0
         /\ Len(evs[<<p, s>>]) \in 0..2
<1>1. evs[<<p, s>>] \in Seq(Event)
  BY DEF Key
<1>2. evs[<<p, s>>] # << >> => Len(evs[<<p, s>>]) \in 1..2
  BY DEF LogIn
<1> QED BY <1>1, <1>2

\* The answer in a correct log is one for the request in it: the provider's
\* element is the committed one, the user's number the one hashed.
LEMMA AnswerInLog ==
  ASSUME NEW evs \in [Key -> Seq(Event)], NEW regs, LogIn(evs), OutcomeIn(evs, regs),
         NEW p \in Provider, NEW s \in SeqNo, Len(evs[<<p, s>>]) = 2
  PROVE  /\ evs[<<p, s>>][2].request = evs[<<p, s>>][1].request
         /\ answers(evs[<<p, s>>][2].request, evs[<<p, s>>][2].randomNumber)
<1> DEFINE log == evs[<<p, s>>]
           req == log[1].request
           n == log[2].randomNumber
<1>1. log \in Seq(Event) /\ log # << >>
  BY LogShape DEF Key
<1>2. /\ logsRequest(log, req, p, s) /\ logsReveal(log, req)
  BY <1>1 DEF LogIn
<1>3. log[2] = Revealed(req, n)
  BY <1>2 DEF logsReveal
<1>4. log[2].request = req
  BY <1>3 DEF Revealed
<1>5. req.commitment.user = constructUserCommitment(n.user) /\ n.blockHash = blockhashOf(req)
  BY <1>2 DEF logsReveal
<1>6. PICK reg \in regs[p] :
        /\ bindsTo(req, committedWord(reg, s))
        /\ n.provider = committedWord(reg, s)
  BY <1>1 DEF OutcomeIn
<1>7. req.commitment.provider = constructProviderCommitment(req.numHashes, n.provider)
  BY <1>6 DEF bindsTo
<1>8. req.commitment \in [user : [keccak : UserNumber \cup {NoNumber}],
                          provider : Word \cup {ZeroWord}]
  <2>1. log[1] \in Event
    BY <1>1
  <2>2. req \in Request
    BY <2>1 DEF Event
  <2> QED BY <2>2 DEF Request
<1>9. req.commitment = Commitment(req.commitment.user, req.commitment.provider)
  BY <1>8 DEF Commitment
<1> HIDE DEF req, n
<1>10. answers(req, n)
  BY <1>5, <1>7, <1>9 DEF answers
<1> QED BY <1>4, <1>10 DEF req, n

\* A storage that follows a committed one can be committed in one ledger step.
LEMMA FollowsCommits ==
  ASSUME NEW prov \in [Provider -> ProviderInfo], NEW evs \in [Key -> Seq(Event)],
         NEW prov1, NEW evs1 \in [Key -> Seq(Event)], NEW regs,
         Fresh(prov, evs), LogIn(evs), LogIn(evs1), OutcomeIn(evs1, regs),
         Follows(prov, evs, prov1, evs1), NEW p \in Provider, NEW s \in SeqNo
  PROVE  LET before == ledgerEntry(evs[<<p, s>>])
             after  == ledgerEntry(evs1[<<p, s>>])
         IN  /\ Ledger!entryStep(before, after)
             /\ before = Ledger!Unused /\ after # Ledger!Unused =>
                  \A t \in SeqNo : ledgerEntry(evs[<<p, t>>]) # Ledger!Unused => t < s
             /\ after # before /\ after # Ledger!Unused /\ after.status = "answered"
                  => answers(after.request, after.number)
<1> DEFINE log == evs[<<p, s>>]
           log1 == evs1[<<p, s>>]
           before == ledgerEntry(log)
           after == ledgerEntry(log1)
<1>1. /\ log = << >> <=> Len(log) = 0
      /\ log1 = << >> <=> Len(log1) = 0
      /\ Len(log) \in 0..2 /\ Len(log1) \in 0..2
  BY LogShape
<1>2. logStep(log, log1, s, prov[p].sequenceNumber)
  BY DEF Follows
<1>3. Len(log1) = 2 => /\ log1[2].request = log1[1].request
                       /\ answers(log1[2].request, log1[2].randomNumber)
  BY AnswerInLog
<1>4. log = << >> /\ log1 # << >> =>
        \A t \in SeqNo : ledgerEntry(evs[<<p, t>>]) # Ledger!Unused => t < s
  <2> SUFFICES ASSUME log = << >>, log1 # << >>, NEW t \in SeqNo,
                      ledgerEntry(evs[<<p, t>>]) # Ledger!Unused
               PROVE  t < s
    OBVIOUS
  <2>1. prov[p].sequenceNumber <= s
    BY <1>1, <1>2 DEF logStep
  <2>2. evs[<<p, t>>] # << >>
    BY LogShape, Entries
  <2>3. t < prov[p].sequenceNumber
    BY <2>2 DEF Fresh
  <2>4. prov[p].sequenceNumber \in Int /\ s \in Int /\ t \in Int
    BY NextNumbers
  <2> QED BY <2>1, <2>3, <2>4
<1>5. /\ Len(log) = 0 => before = Ledger!Unused
      /\ Len(log) = 1 => before = Ledger!Open(log[1].request)
      /\ Len(log) = 2 => before = Ledger!Answered(log[2].request, log[2].randomNumber)
      /\ Len(log1) = 0 => after = Ledger!Unused
      /\ Len(log1) = 1 => after = Ledger!Open(log1[1].request)
      /\ Len(log1) = 2 => after = Ledger!Answered(log1[2].request, log1[2].randomNumber)
  BY Entries
<1> HIDE DEF before, after, log, log1
<1>6. \A r, n : /\ Ledger!Open(r) # Ledger!Unused /\ Ledger!Answered(r, n) # Ledger!Unused
                /\ Ledger!Open(r).status = "open" /\ Ledger!Open(r).request = r
                /\ Ledger!Answered(r, n).status = "answered"
                /\ Ledger!Answered(r, n).request = r /\ Ledger!Answered(r, n).number = n
  <2> TAKE r, n
  <2>1. Ledger!Unused.status = "unused"
    BY DEF Ledger!Unused
  <2>2. Ledger!Open(r).status = "open" /\ Ledger!Open(r).request = r
    BY DEF Ledger!Open
  <2>3. /\ Ledger!Answered(r, n).status = "answered"
        /\ Ledger!Answered(r, n).request = r /\ Ledger!Answered(r, n).number = n
    BY DEF Ledger!Answered
  <2> QED BY <2>1, <2>2, <2>3
<1>7. Ledger!entryStep(before, after)
  <2>1. CASE log1 = log
    BY <2>1 DEF Ledger!entryStep, before, after
  <2>2. CASE log = << >>
    <3>1. Len(log) = 0 /\ (Len(log1) = 0 \/ Len(log1) = 1 \/ Len(log1) = 2)
      BY <1>1, <2>2
    <3>2. after = before \/ after.status \in {"open", "answered"}
      BY <1>5, <1>6, <3>1
    <3> QED BY <1>5, <3>1, <3>2, Zenon DEF Ledger!entryStep, Ledger!used
  <2>3. CASE Len(log) = 1 /\ Len(log1) = 2 /\ log1[1] = log[1]
    <3>1. before.status = "open" /\ before.request = log[1].request
      BY <1>5, <1>6, <2>3
    <3>2. /\ after.status = "answered"
          /\ after = Ledger!Answered(log[1].request, after.number)
      BY <1>3, <1>5, <1>6, <2>3
    <3> QED BY <3>1, <3>2, Zenon DEF Ledger!entryStep
  <2> QED BY <1>2, <2>1, <2>2, <2>3 DEF logStep
<1>8. before = Ledger!Unused /\ after # Ledger!Unused => log = << >> /\ log1 # << >>
  <2>1. Len(log) = 0 \/ Len(log) = 1 \/ Len(log) = 2
    BY <1>1
  <2>2. before = Ledger!Unused => Len(log) = 0
    <3>1. CASE Len(log) = 1
      BY <1>5, <1>6, <3>1
    <3>2. CASE Len(log) = 2
      BY <1>5, <1>6, <3>2
    <3> QED BY <2>1, <3>1, <3>2
  <2>3. after # Ledger!Unused => Len(log1) # 0
    BY <1>5
  <2> QED BY <1>1, <2>2, <2>3
<1>9. after.status = "answered" /\ after # Ledger!Unused => answers(after.request, after.number)
  <2> SUFFICES ASSUME after.status = "answered", after # Ledger!Unused
               PROVE  answers(after.request, after.number)
    OBVIOUS
  <2>1. Len(log1) = 2
    BY <1>1, <1>5, <1>6
  <2> QED BY <1>3, <1>5, <1>6, <2>1
<1> QED BY <1>4, <1>7, <1>8, <1>9 DEF before, after, log, log1

theLedger == [k \in Key |-> ledgerEntry(committedEvents[k])]

\* The two ways in which committed storage changes hands: not at all, or to the
\* storage with which the outermost call ends.
LEMMA CommittedStep ==
  ASSUME LedgerInv, LedgerInv', [Next]_vars
  PROVE  \/ committedEvents' = committedEvents
         \/ /\ callStack = << >> /\ callStack' = << >>
            /\ Follows(providers, events, providers', events')
         \/ /\ callStack # << >> /\ callStack' = << >>
            /\ Follows(callStack[1].providers, callStack[1].events, providers', events')
<1>1. callStack \in Seq(StorageType)
  BY FramesTyped DEF LedgerInv
<1>2. CASE UNCHANGED vars
  BY <1>2 DEF vars, committedEvents
<1>3. CASE ReturnCall \/ RevertCall
  <2>1. callStack # << >> /\ callStack' = SubSeq(callStack, 1, Len(callStack) - 1)
    BY <1>3 DEF ReturnCall, RevertCall, popCall
  <2>2. Len(callStack) \in Nat /\ Len(callStack) > 0
    BY <1>1, <2>1
  <2>3. CASE Len(callStack) = 1
    <3>1. callStack' = << >>
      BY <1>1, <2>1, <2>3
    <3>2. CASE ReturnCall
      <4>1. UNCHANGED <<providers, events>>
        BY <3>2 DEF ReturnCall
      <4>2. Follows(callStack[1].providers, callStack[1].events, providers, events)
        BY <1>1, <2>3 DEF LedgerInv, FramesFollow
      <4> QED BY <2>1, <3>1, <4>1, <4>2
    <3>3. CASE RevertCall
      <4>1. events' = callStack[1].events
        BY <2>3, <3>3 DEF RevertCall
      <4> QED BY <2>1, <3>1, <4>1 DEF committedEvents
    <3> QED BY <1>3, <3>2, <3>3
  <2>4. CASE Len(callStack) # 1
    <3>1. callStack' # << >> /\ callStack'[1] = callStack[1]
      <4>1. Len(callStack) - 1 \in 1..Len(callStack)
        <5>1. \A n \in Nat : n > 0 /\ n # 1 => n - 1 \in 1..n
          OBVIOUS
        <5> QED BY <2>2, <2>4, <5>1, Zenon
      <4>2. Len(callStack') = Len(callStack) - 1 /\ callStack'[1] = callStack[1]
        BY <1>1, <2>1, <4>1
      <4> QED BY <4>1, <4>2
    <3> QED BY <2>1, <3>1 DEF committedEvents
  <2> QED BY <2>3, <2>4
<1>4. CASE ProviderNext \/ UserNext \/ GovernanceNext \/ NewBlock
  <2>1. Follows(providers, events, providers', events')
    BY <1>4, StepFollows DEF LedgerInv
  <2>2. CASE UNCHANGED callStack
    <3>1. CASE callStack = << >>
      BY <2>1, <2>2, <3>1
    <3>2. CASE callStack # << >>
      BY <2>2, <3>2 DEF committedEvents
    <3> QED BY <3>1, <3>2
  <2>3. CASE externalCall
    <3>1. callStack' = Append(callStack, Storage)
      BY <2>3 DEF externalCall
    <3>2. callStack' # << >>
      BY <1>1, <3>1
    <3>3. CASE callStack = << >>
      <4>1. callStack'[1] = Storage
        BY <3>1, <3>3
      <4>2. Storage.events = events
        BY DEF Storage
      <4> QED BY <3>2, <3>3, <4>1, <4>2 DEF committedEvents
    <3>4. CASE callStack # << >>
      <4>1. callStack'[1] = callStack[1]
        BY <1>1, <3>1, <3>4
      <4> QED BY <3>2, <3>4, <4>1 DEF committedEvents
    <3> QED BY <3>3, <3>4
  <2> QED BY <1>3, <1>4, <2>2, <2>3, StackStep DEF Next
<1> QED BY <1>2, <1>3, <1>4 DEF Next

\* So every step of the contract is a step of the ledger, or changes nothing
\* in it.
LEMMA StepRefines ==
  ASSUME LedgerInv, LedgerInv', [Next]_vars
  PROVE  Ledger!Commit \/ UNCHANGED theLedger
<1>1. /\ callStack \in Seq(StorageType)
      /\ providers \in [Provider -> ProviderInfo] /\ events \in [Key -> Seq(Event)]
  BY StorageTyped DEF LedgerInv, IInv, TypeOK, VarsTyped
<1>2. events' \in [Key -> Seq(Event)]
  BY StorageTypedNext DEF LedgerInv, IInv, TypeOK, VarsTyped
<1>3. LogIn(events)' /\ OutcomeIn(events, registrations)'
  BY DEF LedgerInv, IInv, Safe
<1>4. ASSUME NEW prov \in [Provider -> ProviderInfo], NEW evs \in [Key -> Seq(Event)],
             Fresh(prov, evs), LogIn(evs), Follows(prov, evs, providers', events'),
             committedEvents = evs, committedEvents' = events'
      PROVE  Ledger!Commit
  <2>1. \A k \in Key : theLedger[k] = ledgerEntry(evs[k]) /\ theLedger'[k] = ledgerEntry(events'[k])
    BY <1>4 DEF theLedger
  <2>2. LogIn(events') /\ OutcomeIn(events', registrations')
    BY <1>3
  <2> SUFFICES ASSUME NEW p \in Provider, NEW s \in SeqNo
               PROVE  LET before == theLedger[<<p, s>>]
                          after  == theLedger'[<<p, s>>]
                      IN  /\ Ledger!entryStep(before, after)
                          /\ ~Ledger!used(before) /\ Ledger!used(after) => Ledger!fresh(p, s)
                          /\ after # before /\ Ledger!used(after) /\ after.status = "answered"
                               => answers(after.request, after.number)
    BY DEF Ledger!Commit, theLedger
  <2> DEFINE before == ledgerEntry(evs[<<p, s>>])
             after == ledgerEntry(events'[<<p, s>>])
  <2>3. /\ Ledger!entryStep(before, after)
        /\ before = Ledger!Unused /\ after # Ledger!Unused =>
             \A t \in SeqNo : ledgerEntry(evs[<<p, t>>]) # Ledger!Unused => t < s
        /\ after # before /\ after # Ledger!Unused /\ after.status = "answered"
             => answers(after.request, after.number)
    BY <1>2, <1>4, <2>2, FollowsCommits, Zenon
  <2>4. theLedger[<<p, s>>] = before /\ theLedger'[<<p, s>>] = after
    BY <2>1 DEF Key
  <2>5. \A t \in SeqNo : theLedger[<<p, t>>] = ledgerEntry(evs[<<p, t>>])
    BY <2>1 DEF Key
  <2> HIDE DEF before, after
  <2>6. before = Ledger!Unused /\ after # Ledger!Unused => Ledger!fresh(p, s)
    BY <2>3, <2>5 DEF Ledger!fresh, Ledger!used, theLedger
  <2> QED BY <2>3, <2>4, <2>6 DEF Ledger!used
<1>5. CASE committedEvents' = committedEvents
  BY <1>5 DEF theLedger
<1>6. CASE /\ callStack = << >> /\ callStack' = << >>
           /\ Follows(providers, events, providers', events')
  <2>1. committedEvents = events /\ committedEvents' = events'
    BY <1>6 DEF committedEvents
  <2>2. Fresh(providers, events) /\ LogIn(events)
    BY DEF LedgerInv, IInv, Safe
  <2> QED BY <1>1, <1>4, <1>6, <2>1, <2>2
<1>7. CASE /\ callStack # << >> /\ callStack' = << >>
           /\ Follows(callStack[1].providers, callStack[1].events, providers', events')
  <2>1. committedEvents = callStack[1].events /\ committedEvents' = events'
    BY <1>7 DEF committedEvents
  <2>2. 1 \in DOMAIN callStack /\ callStack[1] \in StorageType
    BY <1>1, <1>7
  <2>3. /\ callStack[1].providers \in [Provider -> ProviderInfo]
        /\ callStack[1].events \in [Key -> Seq(Event)]
    BY <2>2 DEF StorageType
  <2>4. Fresh(callStack[1].providers, callStack[1].events) /\ LogIn(callStack[1].events)
    BY <2>2 DEF LedgerInv, IInv, FrameSafe, Safe
  <2> QED BY <1>4, <1>7, <2>1, <2>3, <2>4
<1> QED BY <1>5, <1>6, <1>7, CommittedStep

\* Nothing is registered or requested at the start: the ledger is empty.
LEMMA InitRefines == Init => Ledger!Init /\ LedgerInv
<1> SUFFICES ASSUME Init PROVE Ledger!Init /\ LedgerInv
  OBVIOUS
<1>1. callStack = << >> /\ events = [k \in Key |-> << >>]
  BY DEF Init
<1>2. LedgerInv
  BY <1>1, InitSafe DEF LedgerInv, FramesFollow
<1>3. ledgerEntry(<< >>) = Ledger!Unused
  BY Entries
<1>4. theLedger = [k \in Provider \X SeqNo |-> Ledger!Unused]
  BY <1>1, <1>3 DEF theLedger, committedEvents, Key
<1> QED BY <1>2, <1>4 DEF Ledger!Init, theLedger

\* The contract implements the ledger of randomness: for an observer of
\* committed transactions numbers are given out in increasing order, each is
\* answered at most once and for its own request, and no nested call, revert or
\* collision in the table shows.
THEOREM ContractImplementsLedger == Spec => ImplementsLedger
<1>1. Init => Ledger!Init /\ LedgerInv
  BY InitRefines
<1>2. LedgerInv /\ [Next]_vars => LedgerInv'
  BY LedgerInductive
<1>3. LedgerInv /\ LedgerInv' /\ [Next]_vars => [Ledger!Commit]_theLedger
  BY StepRefines
<1>4. Spec => []LedgerInv
  BY <1>1, <1>2, PTL DEF Spec
<1>5. Spec => Ledger!Init /\ [][Ledger!Commit]_theLedger
  BY <1>1, <1>3, <1>4, PTL DEF Spec
<1> QED BY <1>5, PTL DEF ImplementsLedger, Ledger!Spec, theLedger
-----------------------------------------------------------------------------
(* Sums over the providers *)

\* Induction, for sets of numbers.
LEMMA SetInduction ==
  ASSUME NEW S, 0 \in S, \A n \in Nat : n \in S => n + 1 \in S
  PROVE  Nat \subseteq S
<1> DEFINE rest == Nat \ S
           less == {ss \in Nat \X Nat : ss[1] < ss[2]}
<1> SUFFICES ASSUME rest # {} PROVE FALSE
  OBVIOUS
<1>1. IsWellFoundedOn(less, Nat)
  BY NatLessThanWellFounded DEF OpToRel
<1>2. PICK x \in rest : \A y \in rest : <<y, x>> \notin less
  <2>1. rest \subseteq Nat
    OBVIOUS
  <2> HIDE DEF rest, less
  <2>2. \E x \in rest : \A y \in rest : ~ (<<y, x>> \in less)
    BY <1>1, <2>1, WFMin, Zenon
  <2> QED BY <2>2
<1>3. x - 1 \in Nat /\ (x - 1) + 1 = x
  BY <1>2
<1>4. x - 1 \in rest /\ <<x - 1, x>> \in less
  BY <1>3
<1> QED BY <1>2, <1>4

due(prov, p) == prov[p].accruedFeesInWei
pick(s) == CHOOSE x \in s : TRUE

\* The equation of the function with which the fold of Solvency computes.
isTotal(g, prov, D) ==
  g = [s \in D |-> IF s = {} THEN 0 ELSE due(prov, pick(s)) + g[s \ {pick(s)}]]

totals(prov) == CHOOSE g : isTotal(g, prov, SUBSET Provider)

sizeUpTo(n) == {s \in SUBSET Provider : Cardinality(s) <= n}

\* The fold of Solvency is the total over all providers.
LEMMA FoldIsTotal ==
  MapThenSumSet(LAMBDA p : providers[p].accruedFeesInWei, Provider)
    = totals(providers)[Provider]
  BY DEF MapThenSumSet, MapThenFoldSet, totals, isTotal, due, pick

\* Taking one provider out of a set.
LEMMA Removal ==
  ASSUME NEW s \in SUBSET Provider
  PROVE  /\ Cardinality(s) \in Nat /\ (Cardinality(s) = 0 <=> s = {})
         /\ s # {} => pick(s) \in s
         /\ \A x \in s : /\ s \ {x} \in SUBSET Provider
                         /\ Cardinality(s \ {x}) = Cardinality(s) - 1
<1>1. IsFiniteSet(s)
  BY ProvidersFinite, FS_Subset
<1>2. Cardinality(s) \in Nat /\ (Cardinality(s) = 0 <=> s = {})
  BY <1>1, FS_CardinalityType, FS_EmptySet
<1>3. \A x \in s : Cardinality(s \ {x}) = Cardinality(s) - 1
  BY <1>1, FS_RemoveElement
<1> QED BY <1>2, <1>3 DEF pick

\* Sets of all sizes are reached by taking providers out one at a time, so the
\* equation has a solution.
LEMMA TotalsExist ==
  ASSUME NEW prov
  PROVE  \E g : isTotal(g, prov, SUBSET Provider)
<1> DEFINE value(g, s) == IF s = {} THEN 0 ELSE due(prov, pick(s)) + g[s \ {pick(s)}]
           sizes == {n \in Nat : \E g : isTotal(g, prov, sizeUpTo(n))}
<1>1. 0 \in sizes
  <2> DEFINE g == [s \in sizeUpTo(0) |-> 0]
  <2>1. \A s \in sizeUpTo(0) : s = {}
    BY Removal DEF sizeUpTo
  <2>2. g = [s \in sizeUpTo(0) |-> value(g, s)]
    BY <2>1
  <2> QED BY <2>2 DEF isTotal
<1>2. ASSUME NEW n \in Nat, n \in sizes PROVE n + 1 \in sizes
  <2>1. PICK g : isTotal(g, prov, sizeUpTo(n))
    BY <1>2
  <2> DEFINE h == [s \in sizeUpTo(n + 1) |-> value(g, s)]
  <2>2. \A s \in sizeUpTo(n) : s \in sizeUpTo(n + 1) /\ h[s] = g[s]
    <3> SUFFICES ASSUME NEW s \in sizeUpTo(n) PROVE s \in sizeUpTo(n + 1) /\ h[s] = g[s]
      OBVIOUS
    <3>1. s \in sizeUpTo(n + 1)
      BY Removal DEF sizeUpTo
    <3>2. g[s] = value(g, s)
      BY <2>1 DEF isTotal
    <3> QED BY <3>1, <3>2
  <2>3. \A s \in sizeUpTo(n + 1) : s # {} => s \ {pick(s)} \in sizeUpTo(n)
    BY Removal DEF sizeUpTo
  <2>4. \A s \in sizeUpTo(n + 1) : value(g, s) = value(h, s)
    BY <2>2, <2>3
  <2>5. h = [s \in sizeUpTo(n + 1) |-> value(h, s)]
    BY <2>4
  <2>6. isTotal(h, prov, sizeUpTo(n + 1))
    BY <2>5 DEF isTotal
  <2> HIDE DEF h
  <2> QED BY <2>6
<1>3. Nat \subseteq sizes
  <2> HIDE DEF sizes
  <2> QED BY <1>1, <1>2, SetInduction
<1>4. Cardinality(Provider) \in Nat /\ sizeUpTo(Cardinality(Provider)) = SUBSET Provider
  BY ProvidersFinite, FS_Subset, FS_CardinalityType DEF sizeUpTo
<1>5. Cardinality(Provider) \in sizes
  BY <1>3, <1>4
<1> QED BY <1>4, <1>5

\* So the total of a set is that of the set without the provider picked first.
LEMMA TotalsEquation ==
  ASSUME NEW prov, NEW s \in SUBSET Provider
  PROVE  totals(prov)[s] =
           IF s = {} THEN 0 ELSE due(prov, pick(s)) + totals(prov)[s \ {pick(s)}]
<1>1. isTotal(totals(prov), prov, SUBSET Provider)
  BY TotalsExist, Zenon DEF totals
<1> DEFINE g == totals(prov)
<1> HIDE DEF g
<1>2. g[s] = IF s = {} THEN 0 ELSE due(prov, pick(s)) + g[s \ {pick(s)}]
  BY <1>1 DEF isTotal, g
<1> QED BY <1>2 DEF g

\* What is due to a provider is a natural number.
LEMMA DueTyped ==
  ASSUME NEW prov \in [Provider -> ProviderInfo], NEW p \in Provider
  PROVE  due(prov, p) \in Nat
  BY ConstantsAssumption DEF due, ProviderInfo, Wei, ConstantsAssumption

\* Nothing is due to nobody.
LEMMA EmptyTotal ==
  ASSUME NEW prov
  PROVE  totals(prov)[{}] = 0
<1>1. {} \in SUBSET Provider
  OBVIOUS
<1>2. totals(prov)[{}] =
        IF {} = {} THEN 0 ELSE due(prov, pick({})) + totals(prov)[{} \ {pick({})}]
  BY <1>1, TotalsEquation, Zenon
<1> QED BY <1>2

\* So is every total.
LEMMA TotalsTyped ==
  ASSUME NEW prov \in [Provider -> ProviderInfo], NEW s \in SUBSET Provider
  PROVE  totals(prov)[s] \in Nat
<1> DEFINE sizes == {n \in Nat : \A t \in sizeUpTo(n) : totals(prov)[t] \in Nat}
<1>1. 0 \in sizes
  <2> SUFFICES ASSUME NEW t \in sizeUpTo(0) PROVE totals(prov)[t] \in Nat
    OBVIOUS
  <2>1. t \in SUBSET Provider /\ t = {}
    BY Removal DEF sizeUpTo
  <2> QED BY <2>1, EmptyTotal
<1>2. ASSUME NEW n \in Nat, n \in sizes PROVE n + 1 \in sizes
  <2> SUFFICES ASSUME NEW t \in sizeUpTo(n + 1) PROVE totals(prov)[t] \in Nat
    OBVIOUS
  <2>1. t \in SUBSET Provider
    BY DEF sizeUpTo
  <2>2. CASE t = {}
    BY <2>2, EmptyTotal
  <2>3. CASE t # {}
    <3>1. t \ {pick(t)} \in sizeUpTo(n) /\ pick(t) \in Provider
      BY <2>1, <2>3, Removal DEF sizeUpTo
    <3>2. totals(prov)[t \ {pick(t)}] \in Nat /\ due(prov, pick(t)) \in Nat
      BY <1>2, <3>1, DueTyped
    <3> QED BY <2>1, <2>3, <3>2, TotalsEquation
  <2> QED BY <2>2, <2>3
<1>3. Nat \subseteq sizes
  <2> HIDE DEF sizes
  <2> QED BY <1>1, <1>2, SetInduction
<1>4. Cardinality(s) \in Nat /\ s \in sizeUpTo(Cardinality(s))
  BY Removal DEF sizeUpTo
<1> QED BY <1>3, <1>4

\* The order in which providers are taken out does not matter.
LEMMA TotalsAnyOrder ==
  ASSUME NEW prov \in [Provider -> ProviderInfo], NEW s \in SUBSET Provider, NEW x \in s
  PROVE  totals(prov)[s] = due(prov, x) + totals(prov)[s \ {x}]
<1> DEFINE sizes == {n \in Nat : \A t \in sizeUpTo(n) : \A y \in t :
                       totals(prov)[t] = due(prov, y) + totals(prov)[t \ {y}]}
<1>1. 0 \in sizes
  BY Removal DEF sizeUpTo
<1>2. ASSUME NEW n \in Nat, n \in sizes PROVE n + 1 \in sizes
  <2> SUFFICES ASSUME NEW t \in sizeUpTo(n + 1), NEW y \in t
               PROVE  totals(prov)[t] = due(prov, y) + totals(prov)[t \ {y}]
    OBVIOUS
  <2> DEFINE c == pick(t)
             both == (t \ {c}) \ {y}
  <2>1. t \in SUBSET Provider /\ t # {} /\ c \in t /\ y \in Provider /\ c \in Provider
    BY Removal DEF sizeUpTo
  <2>2. totals(prov)[t] = due(prov, c) + totals(prov)[t \ {c}]
    BY <2>1, TotalsEquation
  <2> HIDE DEF c
  <2>3. CASE y = c
    BY <2>2, <2>3
  <2>4. CASE y # c
    <3>1. t \ {c} \in sizeUpTo(n) /\ t \ {y} \in sizeUpTo(n) /\ both \in SUBSET Provider
      BY <2>1, Removal DEF sizeUpTo
    <3>2. totals(prov)[t \ {c}] = due(prov, y) + totals(prov)[both]
      BY <1>2, <2>4, <3>1
    <3>3. (t \ {y}) \ {c} = both
      OBVIOUS
    <3>4. c \in t \ {y}
      BY <2>1, <2>4
    <3>5. totals(prov)[t \ {y}] = due(prov, c) + totals(prov)[both]
      BY <1>2, <3>1, <3>3, <3>4
    <3> HIDE DEF both
    <3>6. due(prov, c) \in Nat /\ due(prov, y) \in Nat /\ totals(prov)[both] \in Nat
      BY <2>1, <3>1, DueTyped, TotalsTyped
    <3> QED BY <2>2, <3>2, <3>5, <3>6
  <2> QED BY <2>3, <2>4
<1>3. Nat \subseteq sizes
  <2> HIDE DEF sizes
  <2> QED BY <1>1, <1>2, SetInduction
<1>4. Cardinality(s) \in Nat /\ s \in sizeUpTo(Cardinality(s))
  BY Removal DEF sizeUpTo
<1> QED BY <1>3, <1>4

\* The total of a set depends only on what is due to its members.
LEMMA TotalsAgree ==
  ASSUME NEW prov, NEW prov1, NEW s \in SUBSET Provider,
         \A x \in s : due(prov, x) = due(prov1, x)
  PROVE  totals(prov)[s] = totals(prov1)[s]
<1> DEFINE sizes == {n \in Nat : \A t \in sizeUpTo(n) : t \subseteq s =>
                       totals(prov)[t] = totals(prov1)[t]}
<1>1. 0 \in sizes
  <2> SUFFICES ASSUME NEW t \in sizeUpTo(0) PROVE totals(prov)[t] = totals(prov1)[t]
    OBVIOUS
  <2>1. t \in SUBSET Provider /\ t = {}
    BY Removal DEF sizeUpTo
  <2> QED BY <2>1, TotalsEquation
<1>2. ASSUME NEW n \in Nat, n \in sizes PROVE n + 1 \in sizes
  <2> SUFFICES ASSUME NEW t \in sizeUpTo(n + 1), t \subseteq s
               PROVE  totals(prov)[t] = totals(prov1)[t]
    OBVIOUS
  <2>1. t \in SUBSET Provider
    BY DEF sizeUpTo
  <2>2. CASE t = {}
    BY <2>1, <2>2, TotalsEquation
  <2>3. CASE t # {}
    <3>1. t \ {pick(t)} \in sizeUpTo(n) /\ pick(t) \in s
      BY <2>1, <2>3, Removal DEF sizeUpTo
    <3>2. /\ totals(prov)[t \ {pick(t)}] = totals(prov1)[t \ {pick(t)}]
          /\ due(prov, pick(t)) = due(prov1, pick(t))
      BY <1>2, <3>1
    <3> QED BY <2>1, <2>3, <3>2, TotalsEquation
  <2> QED BY <2>2, <2>3
<1>3. Nat \subseteq sizes
  <2> HIDE DEF sizes
  <2> QED BY <1>1, <1>2, SetInduction
<1>4. Cardinality(s) \in Nat /\ s \in sizeUpTo(Cardinality(s))
  BY Removal DEF sizeUpTo
<1> QED BY <1>3, <1>4

\* A change of what is due to one provider changes the total by as much.
LEMMA TotalChange ==
  ASSUME NEW prov \in [Provider -> ProviderInfo], NEW prov1 \in [Provider -> ProviderInfo],
         NEW p \in Provider, \A q \in Provider \ {p} : due(prov1, q) = due(prov, q)
  PROVE  /\ totals(prov1)[Provider] - due(prov1, p) = totals(prov)[Provider] - due(prov, p)
         /\ totals(prov1)[Provider] \in Nat /\ totals(prov)[Provider] \in Nat
         /\ due(prov1, p) \in Nat /\ due(prov, p) \in Nat
<1> DEFINE others == Provider \ {p}
<1>1. /\ totals(prov1)[Provider] = due(prov1, p) + totals(prov1)[others]
      /\ totals(prov)[Provider] = due(prov, p) + totals(prov)[others]
  BY TotalsAnyOrder
<1>2. totals(prov1)[others] = totals(prov)[others]
  BY TotalsAgree
<1>3. /\ totals(prov1)[Provider] \in Nat /\ totals(prov)[Provider] \in Nat
      /\ totals(prov)[others] \in Nat
  BY TotalsTyped
<1>4. due(prov1, p) \in Nat /\ due(prov, p) \in Nat
  BY DueTyped
<1> HIDE DEF others
<1> QED BY <1>1, <1>2, <1>3, <1>4

-----------------------------------------------------------------------------
(* Solvency *)

Solvent(wei, pyth, prov) == wei = pyth + totals(prov)[Provider]

\* The contract is solvent now and in every storage that a revert can restore.
SolvencyInv ==
  /\ Solvent(balance, accruedPythFeesInWei, providers)
  /\ \A i \in DOMAIN callStack :
       Solvent(callStack[i].balance, callStack[i].accruedPythFeesInWei,
               callStack[i].providers)

\* Payments in and out move the balance by what they move the fees.
LEMMA PaymentSolvent ==
  ASSUME VarsTyped, VarsTyped', Solvent(balance, accruedPythFeesInWei, providers),
         NEW p \in Provider, NEW info, providers' = [providers EXCEPT ![p] = info],
         NEW pyth \in Int, NEW fees \in Int,
         accruedPythFeesInWei' = accruedPythFeesInWei + pyth,
         info.accruedFeesInWei = providers[p].accruedFeesInWei + fees,
         balance' = balance + (pyth + fees)
  PROVE  Solvent(balance, accruedPythFeesInWei, providers)'
<1>1. /\ providers \in [Provider -> ProviderInfo] /\ providers' \in [Provider -> ProviderInfo]
      /\ accruedPythFeesInWei \in Int
  BY ConstantsAssumption DEF VarsTyped, Wei, ConstantsAssumption
<1>2. due(providers', p) = due(providers, p) + fees
      /\ \A q \in Provider \ {p} : due(providers', q) = due(providers, q)
  BY <1>1 DEF due
<1> DEFINE a == totals(providers)[Provider]  b == totals(providers')[Provider]
           c == due(providers, p)  d == due(providers', p)
<1>3. b - d = a - c /\ b \in Nat /\ a \in Nat /\ d \in Nat /\ c \in Nat
  BY <1>1, <1>2, TotalChange, Zenon
<1>4. d = c + fees
  BY <1>2
<1>5. balance = accruedPythFeesInWei + a
  BY DEF Solvent
<1> HIDE DEF a, b, c, d
<1>6. b = a + fees
  BY <1>3, <1>4
<1>7. balance' = accruedPythFeesInWei' + b
  BY <1>1, <1>3, <1>5, <1>6
<1> QED BY <1>7 DEF Solvent, b

\* The operations of providers: only withdrawals pay out.
LEMMA ProviderSolvent ==
  ASSUME VarsTyped, VarsTyped', Solvent(balance, accruedPythFeesInWei, providers), ProviderNext
  PROVE  Solvent(balance, accruedPythFeesInWei, providers)'
<1> DEFINE solvent == Solvent(balance, accruedPythFeesInWei, providers)'
<1>1. PICK p \in Provider :
        \/ \E fee \in Fee, chain \in Chain, length \in ChainLength, uri \in Uri :
             register(p, fee, chain, length, uri)
        \/ \E amount \in Amount : withdraw(p, amount)
        \/ \E m \in Manager, amount \in Amount : withdrawAsFeeManager(m, p, amount)
        \/ \E fee \in Fee : setProviderFee(p, fee)
        \/ \E m \in Manager, fee \in Fee : setProviderFeeAsFeeManager(m, p, fee)
        \/ \E uri \in Uri : setProviderUri(p, uri)
        \/ \E m \in Manager \cup {NoAddress} : setFeeManager(p, m)
        \/ \E limit \in HashLimit : setMaxNumHashes(p, limit)
        \/ \E s \in SeqNo, w \in Word : advanceProviderCommitment(p, s, w)
  BY DEF ProviderNext
<1>2. /\ providers[p] \in ProviderInfo /\ providers[p].accruedFeesInWei \in Int
      /\ balance \in Int /\ accruedPythFeesInWei \in Int
  BY ConstantsAssumption DEF VarsTyped, ProviderInfo, Wei, ConstantsAssumption
<1>3. ASSUME NEW info, providers' = [providers EXCEPT ![p] = info],
             UNCHANGED <<balance, accruedPythFeesInWei>>,
             info.accruedFeesInWei = providers[p].accruedFeesInWei
      PROVE  solvent
  <2>1. /\ 0 \in Int /\ accruedPythFeesInWei' = accruedPythFeesInWei + 0
        /\ info.accruedFeesInWei = providers[p].accruedFeesInWei + 0
        /\ balance' = balance + (0 + 0)
    BY <1>2, <1>3
  <2> QED BY <1>3, <2>1, PaymentSolvent, Zenon
<1>4. ASSUME NEW info, setProviderField(p, info),
             info.accruedFeesInWei = providers[p].accruedFeesInWei
      PROVE  solvent
  BY <1>3, <1>4, Zenon DEF setProviderField
<1>5. ASSUME NEW amount \in Amount, payOut(p, amount)
      PROVE  solvent
  <2> DEFINE info == [providers[p] EXCEPT !.accruedFeesInWei = @ - amount]
  <2>1. /\ providers' = [providers EXCEPT ![p] = info]
        /\ balance' = balance - amount /\ UNCHANGED accruedPythFeesInWei
    BY <1>5 DEF payOut
  <2>2. info.accruedFeesInWei = providers[p].accruedFeesInWei - amount
    BY <1>2 DEF ProviderInfo
  <2>3. amount \in Int
    BY ConstantsAssumption DEF ConstantsAssumption
  <2> HIDE DEF info
  <2>4. /\ -amount \in Int
        /\ 0 \in Int /\ accruedPythFeesInWei' = accruedPythFeesInWei + 0
        /\ info.accruedFeesInWei = providers[p].accruedFeesInWei + (-amount)
        /\ balance' = balance + (0 + (-amount))
    BY <1>2, <2>1, <2>2, <2>3
  <2> QED BY <2>1, <2>4, PaymentSolvent, Zenon
<1>6. ASSUME NEW fee \in Fee, NEW chain \in Chain, NEW length \in ChainLength,
             NEW uri \in Uri, register(p, fee, chain, length, uri)
      PROVE  solvent
  <2> DEFINE start == providers[p].sequenceNumber
             commitment == [chain |-> chain, index |-> 0]
             info == [providers[p] EXCEPT
               !.feeInWei = fee,
               !.originalCommitment = commitment,
               !.originalCommitmentSequenceNumber = start,
               !.currentCommitment = commitment,
               !.currentCommitmentSequenceNumber = start,
               !.endSequenceNumber = start + length,
               !.uri = uri,
               !.sequenceNumber = start + 1]
  <2>1. providers' = [providers EXCEPT ![p] = info] /\ UNCHANGED <<balance, accruedPythFeesInWei>>
    BY <1>6, Zenon DEF register
  <2>2. info.accruedFeesInWei = providers[p].accruedFeesInWei
    BY <1>2 DEF ProviderInfo
  <2> HIDE DEF info
  <2> QED BY <1>3, <2>1, <2>2, Zenon
<1>7. ASSUME NEW s \in SeqNo, NEW w \in Word, advanceProviderCommitment(p, s, w)
      PROVE  solvent
  <2> DEFINE info == [providers[p] EXCEPT
                        !.currentCommitmentSequenceNumber = s,
                        !.currentCommitment = w,
                        !.sequenceNumber = IF s >= providers[p].sequenceNumber
                                           THEN s + 1 ELSE providers[p].sequenceNumber]
  <2>1. providers' = [providers EXCEPT ![p] = info] /\ UNCHANGED <<balance, accruedPythFeesInWei>>
    BY <1>7, Zenon DEF advanceProviderCommitment
  <2>2. info.accruedFeesInWei = providers[p].accruedFeesInWei
    BY <1>2 DEF ProviderInfo
  <2> HIDE DEF info
  <2> QED BY <1>3, <2>1, <2>2, Zenon
<1>8. /\ \A fee : [providers[p] EXCEPT !.feeInWei = fee].accruedFeesInWei
                    = providers[p].accruedFeesInWei
      /\ \A uri : [providers[p] EXCEPT !.uri = uri].accruedFeesInWei
                    = providers[p].accruedFeesInWei
      /\ \A m : [providers[p] EXCEPT !.feeManager = m].accruedFeesInWei
                    = providers[p].accruedFeesInWei
      /\ \A limit : [providers[p] EXCEPT !.maxNumHashes = limit].accruedFeesInWei
                    = providers[p].accruedFeesInWei
  BY <1>2 DEF ProviderInfo
<1>9. \/ \E info : setProviderField(p, info)
                   /\ info.accruedFeesInWei = providers[p].accruedFeesInWei
      \/ \E amount \in Amount : payOut(p, amount)
      \/ \E fee \in Fee, chain \in Chain, length \in ChainLength, uri \in Uri :
           register(p, fee, chain, length, uri)
      \/ \E s \in SeqNo, w \in Word : advanceProviderCommitment(p, s, w)
  BY <1>1, <1>8, Zenon
  DEF withdraw, withdrawAsFeeManager, setProviderFee, setProviderFeeAsFeeManager,
      setProviderUri, setFeeManager, setMaxNumHashes
<1> HIDE DEF solvent
<1>10. solvent
  BY <1>4, <1>5, <1>6, <1>7, <1>9
<1> QED BY <1>10 DEF solvent

\* A request splits what it is paid between the provider and Pyth; a reveal
\* pays nothing.
LEMMA UserSolvent ==
  ASSUME VarsTyped, VarsTyped', Solvent(balance, accruedPythFeesInWei, providers), UserNext
  PROVE  Solvent(balance, accruedPythFeesInWei, providers)'
<1> DEFINE solvent == Solvent(balance, accruedPythFeesInWei, providers)'
<1>1. PICK p \in Provider, u \in UserNumber :
        \/ \E r \in Requester, v \in Value, b \in BOOLEAN :
             request(p, r, v, constructUserCommitment(u), b)
        \/ \E r \in Requester, v \in Value : requestWithCallback(p, r, v, u)
        \/ \E r \in Requester, s \in SeqNo, w \in Word : reveal(r, p, s, u, w)
        \/ \E s \in SeqNo, w \in Word : revealWithCallback(p, s, u, w)
  BY DEF UserNext
<1>2. /\ providers[p] \in ProviderInfo /\ providers[p].accruedFeesInWei \in Int
      /\ providers[p].feeInWei \in Int
      /\ balance \in Int /\ accruedPythFeesInWei \in Int
  BY ConstantsAssumption DEF VarsTyped, ProviderInfo, Wei, ConstantsAssumption
<1>3. ASSUME NEW r, NEW v \in Value, NEW h, NEW b, NEW c, requestHelper(p, r, v, h, b, c)
      PROVE  solvent
  <2> DEFINE info == [providers[p] EXCEPT
                        !.sequenceNumber = providers[p].sequenceNumber + 1,
                        !.accruedFeesInWei = providers[p].accruedFeesInWei + providers[p].feeInWei]
  <2>1. /\ providers' = [providers EXCEPT ![p] = info]
        /\ balance' = balance + v
        /\ accruedPythFeesInWei' = accruedPythFeesInWei + (v - providers[p].feeInWei)
    BY <1>3, Zenon DEF requestHelper
  <2>2. info.accruedFeesInWei = providers[p].accruedFeesInWei + providers[p].feeInWei
    BY <1>2 DEF ProviderInfo
  <2>3. v \in Int
    BY ConstantsAssumption DEF ConstantsAssumption
  <2> HIDE DEF info
  <2>4. /\ v - providers[p].feeInWei \in Int
        /\ balance' = balance + ((v - providers[p].feeInWei) + providers[p].feeInWei)
    BY <1>2, <2>1, <2>3
  <2> QED BY <1>2, <2>1, <2>2, <2>4, PaymentSolvent
<1>4. ASSUME NEW s \in SeqNo, NEW w \in Word,
             isActiveRequest(findRequest(p, s), p, s), revealHelper(findRequest(p, s), u, w),
             UNCHANGED <<balance, accruedPythFeesInWei>>
      PROVE  solvent
  <2> DEFINE req == findRequest(p, s)
             info == [providers[p] EXCEPT !.currentCommitmentSequenceNumber = s,
                                          !.currentCommitment = w]
  <2>1. req.provider = p /\ req.sequenceNumber = s
    BY <1>4 DEF isActiveRequest, holds
  <2>2. providers' = [providers EXCEPT ![p] = info] \/ providers' = providers
    <3> HIDE DEF req
    <3> QED BY <1>4, <2>1, Zenon DEF revealHelper, req
  <2>3. info.accruedFeesInWei = providers[p].accruedFeesInWei
    BY <1>2 DEF ProviderInfo
  <2> HIDE DEF info
  <2>4. /\ 0 \in Int /\ accruedPythFeesInWei' = accruedPythFeesInWei + 0
        /\ info.accruedFeesInWei = providers[p].accruedFeesInWei + 0
        /\ balance' = balance + (0 + 0)
    BY <1>2, <1>4, <2>3
  <2>5. CASE providers' = [providers EXCEPT ![p] = info]
    BY <2>4, <2>5, PaymentSolvent, Zenon
  <2>6. CASE providers' = providers
    BY <1>4, <2>6 DEF Solvent
  <2> QED BY <2>2, <2>5, <2>6
<1>5. \/ \E v \in Value : \E r, h, b, c : requestHelper(p, r, v, h, b, c)
      \/ \E s \in SeqNo, w \in Word : /\ isActiveRequest(findRequest(p, s), p, s)
                                      /\ revealHelper(findRequest(p, s), u, w)
                                      /\ UNCHANGED <<balance, accruedPythFeesInWei>>
  BY <1>1, Zenon DEF request, requestWithCallback, reveal, revealWithCallback
<1> HIDE DEF solvent
<1>6. solvent
  BY <1>3, <1>4, <1>5
<1> QED BY <1>6 DEF solvent

\* Every step keeps the contract, and what it could revert to, solvent.
LEMMA SolvencyInductive ==
  ASSUME IInv, IInv', SolvencyInv, [Next]_vars
  PROVE  SolvencyInv'
<1>1. VarsTyped /\ VarsTyped' /\ callStack \in Seq(StorageType)
  BY StorageTyped, StorageTypedNext DEF IInv, TypeOK
<1>2. Solvent(balance, accruedPythFeesInWei, providers)
  BY DEF SolvencyInv
<1>3. CASE UNCHANGED vars
  BY <1>3 DEF vars, SolvencyInv, Solvent
<1>4. CASE ReturnCall \/ RevertCall
  <2> DEFINE n == Len(callStack)
  <2>1. callStack # << >> /\ popCall
    BY <1>4 DEF ReturnCall, RevertCall, popCall
  <2>2. \A i \in DOMAIN callStack' : i \in DOMAIN callStack /\ callStack'[i] = callStack[i]
    BY <1>1, <2>1 DEF popCall
  <2>3. n \in DOMAIN callStack
    BY <1>1, <2>1
  <2>4. \/ UNCHANGED <<balance, accruedPythFeesInWei, providers>>
        \/ /\ balance' = callStack[n].balance
           /\ accruedPythFeesInWei' = callStack[n].accruedPythFeesInWei
           /\ providers' = callStack[n].providers
    BY <1>4 DEF ReturnCall, RevertCall
  <2> HIDE DEF n
  <2>5. Solvent(balance, accruedPythFeesInWei, providers)'
    BY <2>3, <2>4 DEF SolvencyInv, Solvent
  <2> QED BY <2>2, <2>5 DEF SolvencyInv
<1>5. CASE ProviderNext \/ UserNext \/ GovernanceNext \/ NewBlock
  <2>1. Solvent(balance, accruedPythFeesInWei, providers)'
    <3>1. CASE ProviderNext
      BY <1>1, <1>2, <3>1, ProviderSolvent
    <3>2. CASE UserNext
      BY <1>1, <1>2, <3>2, UserSolvent
    <3>3. CASE GovernanceNext \/ NewBlock
      <4>1. UNCHANGED <<balance, accruedPythFeesInWei, providers>>
        BY <3>3 DEF GovernanceNext, proposeAdmin, acceptAdmin, setPythFee,
                    setDefaultProvider, setGovernance, NewBlock
      <4> QED BY <1>2, <4>1 DEF Solvent
    <3> QED BY <1>5, <3>1, <3>2, <3>3
  <2>2. CASE UNCHANGED callStack
    BY <2>1, <2>2 DEF SolvencyInv
  <2>3. CASE externalCall
    <3>1. callStack' = Append(callStack, Storage)
      BY <2>3 DEF externalCall
    <3>2. \A i \in DOMAIN callStack' :
            (i \in DOMAIN callStack /\ callStack'[i] = callStack[i]) \/ callStack'[i] = Storage
      BY <1>1, <3>1
    <3>3. Solvent(Storage.balance, Storage.accruedPythFeesInWei, Storage.providers)
      BY <1>2 DEF Storage
    <3> QED BY <2>1, <3>2, <3>3 DEF SolvencyInv
  <2> QED BY <1>4, <1>5, <2>2, <2>3, StackStep DEF Next
<1> QED BY <1>3, <1>4, <1>5 DEF Next

\* The contract starts with no wei and owes none.
LEMMA InitSolvent == Init => SolvencyInv
<1> SUFFICES ASSUME Init PROVE SolvencyInv
  OBVIOUS
<1>1. /\ balance = 0 /\ accruedPythFeesInWei = 0 /\ callStack = << >>
      /\ \A p \in Provider : due(providers, p) = 0
  BY DEF Init, ZeroProviderInfo, due
<1>2. totals(providers)[Provider] = 0
  <2> DEFINE sizes == {n \in Nat : \A t \in sizeUpTo(n) : totals(providers)[t] = 0}
  <2>1. 0 \in sizes
    <3>1. \A t \in sizeUpTo(0) : t = {}
      BY Removal DEF sizeUpTo
    <3> QED BY <3>1, EmptyTotal
  <2>2. ASSUME NEW n \in Nat, n \in sizes PROVE n + 1 \in sizes
    <3> SUFFICES ASSUME NEW t \in sizeUpTo(n + 1) PROVE totals(providers)[t] = 0
      OBVIOUS
    <3>1. t \in SUBSET Provider
      BY DEF sizeUpTo
    <3>2. CASE t = {}
      BY <3>2, EmptyTotal
    <3>3. CASE t # {}
      <4>1. t \ {pick(t)} \in sizeUpTo(n) /\ pick(t) \in Provider
        BY <3>1, <3>3, Removal DEF sizeUpTo
      <4>2. totals(providers)[t \ {pick(t)}] = 0 /\ due(providers, pick(t)) = 0
        BY <1>1, <2>2, <4>1
      <4> QED BY <3>1, <3>3, <4>2, TotalsEquation
    <3> QED BY <3>2, <3>3
  <2>3. Nat \subseteq sizes
    <3> HIDE DEF sizes
    <3> QED BY <2>1, <2>2, SetInduction
  <2>4. Cardinality(Provider) \in Nat /\ Provider \in sizeUpTo(Cardinality(Provider))
    BY Removal DEF sizeUpTo
  <2> QED BY <2>3, <2>4
<1> QED BY <1>1, <1>2 DEF SolvencyInv, Solvent

\* The contract always holds exactly the wei it owes, for any number of
\* providers, fees, payments and withdrawals, at any depth of nested calls and
\* whichever of them revert.
THEOREM SolvencyCorrect == Spec => []Solvency
<1>1. Init => IInv /\ SolvencyInv
  BY InitSafe, InitSolvent
<1>2. IInv /\ SolvencyInv /\ [Next]_vars => (IInv /\ SolvencyInv)'
  BY Inductive, SolvencyInductive
<1>3. SolvencyInv => Solvency
  BY FoldIsTotal DEF SolvencyInv, Solvent, Solvency
<1> QED BY <1>1, <1>2, <1>3, PTL DEF Spec

=============================================================================
