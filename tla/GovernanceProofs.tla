-------------------------- MODULE GovernanceProofs --------------------------
(***************************************************************************)
(* Proofs about governance, for any requests, limits and failures.  The    *)
(* relay to Pythnet: a relayer that does not skip failed messages gets     *)
(* every message for Pythnet executed, once and in order.  Proposing: the  *)
(* proposals of a request hold its instructions in order, none is missing  *)
(* from one that can be voted on, and every batch fits.                    *)
(***************************************************************************)
EXTENDS Governance, TLAPS, SequenceTheorems, WellFoundedInduction

isSequence(s) == s \in Seq({s[k] : k \in DOMAIN s})

\* Types of the relay.  A message, once posted, is never changed, so what
\* was true of it stays true.
RelayTyped ==
  /\ isSequence(messages)
  /\ remote \in Seq(Nat)
  /\ claim \in Int /\ claim >= -1 /\ claim < Len(messages)
  /\ relayer \in Int /\ relayer < Len(messages)
  /\ relayer # Stopped => relayer >= -1
  /\ relayFlight \subseteq 0..Len(messages) - 1

\* Every message for Pythnet from number 1 to n has been executed.
executedUpTo(n) == \A m \in 1..n : forPythnet(m) => m <= claim

\* The relayer, and a relay that it gave up, are beyond no message for
\* Pythnet that was not executed: it is this that a late relay preserves.
RelayBehindClaim ==
  ~skipFailed =>
    /\ relayer # Stopped => executedUpTo(relayer)
    /\ \A n \in relayFlight : forPythnet(n) /\ executedUpTo(n - 1)

\* The executed messages are those up to the claim record.
ExecutedUpToClaim ==
  ~skipFailed =>
    /\ \A n \in Nat : (\E i \in DOMAIN remote : remote[i] = n)
                        <=> n \in 1..claim /\ forPythnet(n)
    /\ \A i, j \in DOMAIN remote : i < j => remote[i] < remote[j]

RelayInv == RelayTyped /\ RelayBehindClaim /\ ExecutedUpToClaim

-----------------------------------------------------------------------------
\* The larger of two numbers.
LEMMA MaxOfTwo ==
  ASSUME NEW a \in Int, NEW b \in Int
  PROVE  Max({a, b}) = IF a >= b THEN a ELSE b
<1> DEFINE m == IF a >= b THEN a ELSE b
<1>1. m \in {a, b} /\ \A y \in {a, b} : m >= y
  OBVIOUS
<1>2. \A x \in {a, b} : (\A y \in {a, b} : x >= y) => x = m
  OBVIOUS
<1> HIDE DEF m
<1>3. (CHOOSE x \in {a, b} : \A y \in {a, b} : x >= y) = m
  BY <1>1, <1>2
<1> QED BY <1>3 DEF Max, m

\* A sequence followed by any value.
LEMMA AppendAny ==
  ASSUME NEW s, isSequence(s), NEW e
  PROVE  /\ isSequence(Append(s, e)) /\ Len(s) \in Nat
         /\ Len(Append(s, e)) = Len(s) + 1
         /\ \A k \in 1..Len(s) : Append(s, e)[k] = s[k]
<1> DEFINE S == {s[k] : k \in DOMAIN s} \cup {e}
           t == Append(s, e)
<1>1. s \in Seq(S)
  <2>1. s \in Seq({s[k] : k \in DOMAIN s})
    BY DEF isSequence
  <2> QED BY <2>1
<1>2. e \in S
  OBVIOUS
<1> HIDE DEF S
<1>3. /\ t \in Seq(S) /\ Len(s) \in Nat /\ Len(t) = Len(s) + 1
      /\ \A k \in 1..Len(s) : t[k] = s[k]
  BY <1>1, <1>2
<1> HIDE DEF t
<1>4. t \in Seq({t[k] : k \in DOMAIN t})
  BY <1>3
<1> QED BY <1>3, <1>4 DEF isSequence, t

-----------------------------------------------------------------------------
(* The vault posts messages *)

\* The vault appends a message or none, and the relay stands still.
Posting ==
  /\ \/ messages' = messages \/ \E e : messages' = Append(messages, e)
  /\ UNCHANGED relayVars

\* What was said of the messages up to now stays true when one is added.
LEMMA PostingKeeps ==
  ASSUME RelayInv, Posting
  PROVE  RelayInv'
<1>1. /\ isSequence(messages') /\ Len(messages) \in Nat
      /\ Len(messages') \in Nat /\ Len(messages') >= Len(messages)
      /\ \A k \in 1..Len(messages) : messages'[k] = messages[k]
  <2>1. isSequence(messages)
    BY DEF RelayInv, RelayTyped
  <2>2. CASE messages' = messages
    <3>1. Len(messages) \in Nat
      BY <2>1 DEF isSequence
    <3> QED BY <2>1, <2>2, <3>1
  <2>3. CASE \E e : messages' = Append(messages, e)
    BY <2>1, <2>3, AppendAny
  <2> QED BY <2>2, <2>3 DEF Posting
<1>2. /\ relayer' = relayer /\ skipFailed' = skipFailed /\ claim' = claim
      /\ relayFlight' = relayFlight /\ remote' = remote
  BY DEF Posting, relayVars
<1>3. RelayTyped'
  BY <1>1, <1>2 DEF RelayInv, RelayTyped
<1>4. \A n \in 0..Len(messages) - 1 : forPythnet(n)' <=> forPythnet(n)
  <2> TAKE n \in 0..Len(messages) - 1
  <2>1. n + 1 \in 1..Len(messages)
    BY <1>1
  <2> QED BY <1>1, <2>1 DEF forPythnet
<1>5. \A n \in Int : n < Len(messages) =>
        \A m \in 1..n : forPythnet(m)' <=> forPythnet(m)
  BY <1>1, <1>4
<1>6. RelayBehindClaim'
  <2> SUFFICES ASSUME ~skipFailed PROVE RelayBehindClaim'
    BY <1>2 DEF RelayBehindClaim
  <2>1. relayer # Stopped => executedUpTo(relayer)'
    BY <1>2, <1>5 DEF RelayInv, RelayTyped, RelayBehindClaim, executedUpTo
  <2>2. ASSUME NEW n \in relayFlight
        PROVE  forPythnet(n)' /\ \A m \in 1..(n - 1) : forPythnet(m)' => m <= claim
    <3>1. n \in 0..Len(messages) - 1 /\ n - 1 \in Int /\ n - 1 < Len(messages)
      BY <1>1 DEF RelayInv, RelayTyped
    <3>2. forPythnet(n) /\ executedUpTo(n - 1)
      BY DEF RelayInv, RelayBehindClaim
    <3> QED BY <1>4, <1>5, <3>1, <3>2 DEF executedUpTo
  <2> QED BY <1>2, <2>1, <2>2 DEF RelayBehindClaim, executedUpTo
<1>7. ExecutedUpToClaim'
  <2>1. \A m \in 1..claim : forPythnet(m)' <=> forPythnet(m)
    BY <1>5 DEF RelayInv, RelayTyped
  <2> QED BY <1>2, <2>1 DEF RelayInv, ExecutedUpToClaim
<1> QED BY <1>3, <1>6, <1>7 DEF RelayInv

-----------------------------------------------------------------------------
(* The relay *)

\* The relayer moves to a message without executing it, stops, or gives a
\* relay up.
LEMMA MoveKeeps ==
  ASSUME RelayInv, UNCHANGED <<messages, skipFailed, claim, remote>>,
         NEW n \in 0..Len(messages) - 1,
         relayFlight' \subseteq relayFlight \cup {n},
         ~skipFailed /\ relayFlight' # relayFlight =>
           (n \in relayFlight' /\ n \notin relayFlight =>
              forPythnet(n) /\ executedUpTo(n - 1)),
         \/ relayer' = relayer
         \/ relayer' = Stopped
         \/ /\ relayer' \in Int /\ relayer' >= -1 /\ relayer' < Len(messages)
            /\ ~skipFailed => executedUpTo(relayer')
  PROVE  RelayInv'
<1>1. Len(messages) \in Nat
  BY DEF RelayInv, RelayTyped, isSequence
<1>2. RelayTyped'
  BY <1>1 DEF RelayInv, RelayTyped, Stopped
<1>3. RelayBehindClaim'
  BY DEF RelayInv, RelayBehindClaim, executedUpTo, forPythnet
<1>4. ExecutedUpToClaim'
  BY DEF RelayInv, ExecutedUpToClaim, forPythnet
<1> QED BY <1>2, <1>3, <1>4 DEF RelayInv

\* A message that is executed is the first one for Pythnet after the claim
\* record, so that the executed ones are again those up to the record.
LEMMA ExecuteKeeps ==
  ASSUME RelayInv, NEW n \in 0..Len(messages) - 1, execute_posted_vaa(n),
         ~skipFailed => forPythnet(n) /\ executedUpTo(n - 1),
         relayer' = relayer \/ relayer' = n,
         relayFlight' \subseteq relayFlight, UNCHANGED <<messages, skipFailed>>
  PROVE  RelayInv'
<1>0. /\ Len(messages) \in Nat /\ claim \in Int /\ claim >= -1
      /\ remote \in Seq(Nat) /\ n \in Nat
  BY DEF RelayInv, RelayTyped, isSequence
<1>1. /\ n > claim /\ n > 0 /\ claim' = n /\ remote' = Append(remote, n)
  <2>1. n > Max({claim, 0})
    BY DEF execute_posted_vaa, accepted
  <2> QED BY <1>0, <2>1, MaxOfTwo DEF execute_posted_vaa
<1>2. RelayTyped'
  BY <1>0, <1>1 DEF RelayInv, RelayTyped, Stopped
<1> DEFINE l == Len(remote)
<1>3. /\ l \in Nat /\ DOMAIN remote = 1..l /\ DOMAIN remote' = 1..(l + 1)
      /\ remote'[l + 1] = n /\ \A i \in 1..l : remote'[i] = remote[i]
      /\ \A i \in 1..l : remote[i] \in Nat
  BY <1>0, <1>1
<1>s. CASE skipFailed
  BY <1>2, <1>s DEF RelayInv, RelayBehindClaim, ExecutedUpToClaim
<1>n. CASE ~skipFailed
  <2>f. \A m : forPythnet(m)' <=> forPythnet(m)
    BY DEF forPythnet
  <2>1. executedUpTo(n - 1) /\ forPythnet(n)
    BY <1>n
  <2>2. RelayBehindClaim'
    <3>1. ASSUME NEW k \in Int, executedUpTo(k)
          PROVE  \A m \in 1..k : forPythnet(m)' => m <= claim'
      BY <1>0, <1>1, <2>f, <3>1 DEF executedUpTo
    <3>2. \A m \in 1..n : forPythnet(m)' => m <= claim'
      BY <1>0, <1>1
    <3>3. relayer' # Stopped => \A m \in 1..relayer' : forPythnet(m)' => m <= claim'
      BY <1>n, <3>1, <3>2 DEF RelayInv, RelayTyped, RelayBehindClaim
    <3>4. \A k \in relayFlight' : /\ forPythnet(k)'
                                  /\ \A m \in 1..(k - 1) : forPythnet(m)' => m <= claim'
      <4> TAKE k \in relayFlight'
      <4>1. k - 1 \in Int
        BY <1>0 DEF RelayInv, RelayTyped
      <4>2. forPythnet(k) /\ executedUpTo(k - 1)
        BY <1>n DEF RelayInv, RelayBehindClaim
      <4> QED BY <2>f, <3>1, <4>1, <4>2
    <3> QED BY <3>3, <3>4 DEF RelayBehindClaim, executedUpTo
  <2>3. ASSUME NEW m \in Nat
        PROVE  (\E i \in DOMAIN remote' : remote'[i] = m)
                 <=> m \in 1..claim' /\ forPythnet(m)'
    <3>1. (\E i \in 1..l : remote[i] = m) <=> m \in 1..claim /\ forPythnet(m)
      BY <1>n, <1>3 DEF RelayInv, ExecutedUpToClaim
    <3>2. (\E i \in DOMAIN remote' : remote'[i] = m)
            <=> (\E i \in 1..l : remote[i] = m) \/ m = n
      <4>1. \A i \in 1..(l + 1) : i \in 1..l \/ i = l + 1
        BY <1>3
      <4>2. l + 1 \in 1..(l + 1) /\ \A i \in 1..l : i \in 1..(l + 1)
        BY <1>3
      <4> QED BY <1>3, <4>1, <4>2
    <3>3. m \in 1..n /\ forPythnet(m) <=> (m \in 1..claim /\ forPythnet(m)) \/ m = n
      <4>1. ASSUME m \in 1..n, forPythnet(m), m # n PROVE m \in 1..claim
        <5>1. m \in 1..(n - 1)
          BY <1>0, <4>1
        <5>2. m <= claim
          BY <2>1, <4>1, <5>1 DEF executedUpTo
        <5> QED BY <1>0, <5>1, <5>2
      <4>2. n \in 1..n
        BY <1>0, <1>1
      <4>3. m \in 1..claim => m \in 1..n
        BY <1>0, <1>1
      <4> QED BY <2>1, <4>1, <4>2, <4>3
    <3> QED BY <1>1, <2>f, <3>1, <3>2, <3>3
  <2>4. \A i, j \in DOMAIN remote' : i < j => remote'[i] < remote'[j]
    <3>1. \A i \in 1..l : remote[i] <= claim
      <4> TAKE i \in 1..l
      <4>1. remote[i] \in 1..claim
        BY <1>n, <1>3 DEF RelayInv, ExecutedUpToClaim
      <4> QED BY <1>0, <4>1
    <3>2. \A i \in 1..l : remote[i] < n
      BY <1>0, <1>1, <1>3, <3>1
    <3> SUFFICES ASSUME NEW i \in 1..(l + 1), NEW j \in 1..(l + 1), i < j
                 PROVE  remote'[i] < remote'[j]
      BY <1>3
    <3>3. i \in 1..l /\ (j \in 1..l \/ j = l + 1)
      BY <1>3
    <3> QED BY <1>n, <1>3, <3>2, <3>3 DEF RelayInv, ExecutedUpToClaim
  <2>5. ExecutedUpToClaim'
    BY <2>3, <2>4 DEF ExecutedUpToClaim
  <2> QED BY <1>2, <2>2, <2>5 DEF RelayInv
<1> QED BY <1>s, <1>n

\* Every step of the relayer and every late relay keeps the invariant.
LEMMA RelayKeeps ==
  ASSUME RelayInv, Relay
  PROVE  RelayInv'
<1>t. /\ Len(messages) \in Nat /\ claim \in Int /\ claim >= -1
      /\ claim < Len(messages) /\ relayer \in Int
      /\ relayer # Stopped => relayer >= -1
      /\ relayFlight \subseteq 0..Len(messages) - 1
  BY DEF RelayInv, RelayTyped, isSequence
<1> USE DEF relayUnchanged
<1>m. Max({claim, OFFSET}) = claim
  BY <1>t, MaxOfTwo DEF OFFSET
<1>1. CASE relayStart
  <2>1. relayer' = claim /\ claim + 1 < Len(messages)
    BY <1>1, <1>m DEF relayStart
  <2>2. executedUpTo(claim)
    BY <1>t DEF executedUpTo
  <2>3. 0 \in 0..Len(messages) - 1
    BY <1>t, <2>1
  <2> QED BY <1>1, <1>t, <2>1, <2>2, <2>3, MoveKeeps DEF relayStart
<1>n. ASSUME relayer # Stopped, nextSequence < Len(messages)
      PROVE  /\ nextSequence \in 0..Len(messages) - 1 /\ nextSequence \in Int
             /\ ~skipFailed => executedUpTo(nextSequence - 1)
  <2>1. nextSequence - 1 = relayer
    BY <1>t DEF nextSequence
  <2> QED BY <1>n, <1>t, <2>1 DEF nextSequence, RelayInv, RelayBehindClaim
<1>2. CASE relayOther
  <2>1. /\ nextSequence \in 0..Len(messages) - 1 /\ relayer' = nextSequence
        /\ ~forPythnet(nextSequence)
        /\ ~skipFailed => executedUpTo(nextSequence - 1)
    BY <1>2, <1>n DEF relayOther
  <2>2. ~skipFailed => executedUpTo(nextSequence)
    <3>1. \A m \in 1..nextSequence : m \in 1..(nextSequence - 1) \/ m = nextSequence
      BY <2>1, <1>t
    <3> QED BY <2>1, <3>1 DEF executedUpTo
  <2>3. relayer' \in Int /\ relayer' >= -1 /\ relayer' < Len(messages)
    BY <1>t, <2>1
  <2> QED BY <1>2, <2>1, <2>2, <2>3, MoveKeeps DEF relayOther
<1>3. CASE relayExecute
  BY <1>3, <1>n, ExecuteKeeps DEF relayExecute
<1>a. skipFailed \/ afterFailure = Stopped
  BY DEF afterFailure
<1>4. CASE relayRejected
  <2>1. /\ nextSequence \in 0..Len(messages) - 1
        /\ relayer' = nextSequence \/ relayer' = Stopped
        /\ skipFailed \/ relayer' = Stopped
    BY <1>4, <1>n DEF relayRejected, afterFailure
  <2>2. nextSequence >= -1 /\ nextSequence < Len(messages) /\ nextSequence \in Int
    BY <1>t, <2>1
  <2> QED BY <1>4, <2>1, <2>2, MoveKeeps DEF relayRejected
<1>5. CASE relayUnconfirmed
  <2>1. /\ nextSequence \in 0..Len(messages) - 1
        /\ relayer' = nextSequence \/ relayer' = Stopped
        /\ skipFailed \/ relayer' = Stopped
        /\ forPythnet(nextSequence)
        /\ ~skipFailed => executedUpTo(nextSequence - 1)
        /\ relayFlight' = relayFlight \cup {nextSequence}
    BY <1>5, <1>n DEF relayUnconfirmed, afterFailure
  <2>2. nextSequence >= -1 /\ nextSequence < Len(messages) /\ nextSequence \in Int
    BY <1>t, <2>1
  <2> QED BY <1>5, <2>1, <2>2, MoveKeeps DEF relayUnconfirmed
<1>6. CASE relayEnd
  <2>1. relayer' = Stopped /\ UNCHANGED <<messages, skipFailed, claim, remote, relayFlight>>
    BY <1>6 DEF relayEnd
  <2> QED BY <2>1 DEF RelayInv, RelayTyped, RelayBehindClaim,
                      ExecutedUpToClaim, executedUpTo, forPythnet, Stopped
<1>7. CASE relayLandLate
  <2>1. PICK n \in relayFlight :
          /\ relayFlight' = relayFlight \ {n} /\ relayer' = relayer
          /\ UNCHANGED <<messages, skipFailed>>
          /\ execute_posted_vaa(n) \/ UNCHANGED <<claim, remote>>
    BY <1>7 DEF relayLandLate
  <2>2. n \in 0..Len(messages) - 1
    BY <1>t
  <2>3. ~skipFailed => forPythnet(n) /\ executedUpTo(n - 1)
    BY DEF RelayInv, RelayBehindClaim
  <2>4. CASE execute_posted_vaa(n)
    BY <2>1, <2>2, <2>3, <2>4, ExecuteKeeps
  <2>5. CASE UNCHANGED <<claim, remote>>
    BY <2>1, <2>2, <2>5, MoveKeeps
  <2> QED BY <2>1, <2>4, <2>5
<1> QED BY <1>1, <1>2, <1>3, <1>4, <1>5, <1>6, <1>7 DEF Relay

-----------------------------------------------------------------------------
(* Everyone else *)

\* A transaction that lands posts at most one message.
LEMMA LandPosts ==
  ASSUME NEW ops, NEW r, land(ops, r)
  PROVE  messages' = messages \/ \E e : messages' = Append(messages, e)
  BY DEF land, posted

\* The clients, the members and the crank only post messages.
LEMMA OthersPost ==
  ASSUME (\E r \in Req : Propose(r)) \/ Members \/ Crank
  PROVE  Posting
<1>1. CASE messages' = messages /\ UNCHANGED relayVars
  BY <1>1 DEF Posting
<1>2. ASSUME NEW r \in Req, Propose(r) PROVE Posting
  <2>1. UNCHANGED relayVars
    BY <1>2 DEF Propose, propose, resume, sendConfirmed, sendRejected, sendUnconfirmed
  <2>2. CASE sendConfirmed(r)
    BY <2>1, <2>2, LandPosts DEF sendConfirmed, Posting
  <2>3. CASE ~sendConfirmed(r)
    BY <1>1, <1>2, <2>1, <2>3
       DEF Propose, propose, resume, sendRejected, sendUnconfirmed
  <2> QED BY <2>2, <2>3
<1>3. CASE Members
  <2>1. UNCHANGED relayVars
    BY <1>3 DEF Members, approveByMembers, cancelByMember, executeByOther, landLate
  <2>2. CASE executeByOther
    BY <2>1, <2>2, LandPosts DEF executeByOther, Posting
  <2>3. CASE landLate
    BY <1>1, <2>1, <2>3, LandPosts DEF landLate, Posting
  <2>4. CASE approveByMembers \/ cancelByMember
    BY <1>1, <2>1, <2>4 DEF approveByMembers, cancelByMember
  <2> QED BY <1>3, <2>2, <2>3, <2>4 DEF Members
<1>4. CASE Crank
  <2>1. UNCHANGED relayVars
    BY <1>4 DEF Crank, crankStart, executeProposal, executeRejected, executeUnconfirmed
  <2>2. CASE executeProposal
    BY <2>1, <2>2, LandPosts DEF executeProposal, Posting
  <2>3. CASE crankStart \/ executeRejected \/ executeUnconfirmed
    BY <1>1, <2>1, <2>3 DEF crankStart, executeRejected, executeUnconfirmed
  <2> QED BY <1>4, <2>2, <2>3 DEF Crank
<1> QED BY <1>2, <1>3, <1>4

\* Nothing was relayed at the start.
LEMMA InitRelay == Init => RelayInv
<1> SUFFICES ASSUME Init PROVE RelayInv
  OBVIOUS
<1>1. isSequence(messages) /\ Len(messages) \in Nat
  <2>1. CASE messages = <<>>
    <3>1. messages \in Seq({}) /\ DOMAIN messages = {}
      BY <2>1
    <3> QED BY <3>1 DEF isSequence
  <2>2. CASE messages = <<[kind |-> "wormhole", ixs |-> <<>>]>>
    <3> DEFINE e == [kind |-> "wormhole", ixs |-> <<>>]
    <3> HIDE DEF e
    <3>1. messages = <<e>>
      BY <2>2 DEF e
    <3>2. messages \in Seq({e}) /\ DOMAIN messages = {1} /\ messages[1] = e
      BY <3>1
    <3>3. {messages[k] : k \in DOMAIN messages} = {e}
      BY <3>2
    <3> QED BY <3>2, <3>3 DEF isSequence
  <2> QED BY <2>1, <2>2 DEF Init
<1>2. claim = -1 /\ relayer = Stopped /\ relayFlight = {} /\ remote = <<>>
  BY DEF Init
<1>3. RelayTyped
  BY <1>1, <1>2 DEF RelayTyped, Stopped
<1>4. RelayBehindClaim
  BY <1>2 DEF RelayBehindClaim
<1>5. ExecutedUpToClaim
  BY <1>2 DEF ExecutedUpToClaim
<1> QED BY <1>3, <1>4, <1>5 DEF RelayInv

\* The invariant of the relay is inductive.
LEMMA RelayInvInductive == Spec => []RelayInv
<1>1. RelayInv /\ [Next]_vars => RelayInv'
  <2> SUFFICES ASSUME RelayInv, [Next]_vars PROVE RelayInv'
    OBVIOUS
  <2>1. CASE UNCHANGED vars
    <3>1. Posting
      BY <2>1 DEF vars, Posting
    <3> QED BY <3>1, PostingKeeps
  <2>2. CASE (\E r \in Req : Propose(r)) \/ Members \/ Crank
    BY <2>2, OthersPost, PostingKeeps
  <2>3. CASE Relay
    BY <2>3, RelayKeeps
  <2> QED BY <2>1, <2>2, <2>3 DEF Next
<1> QED BY <1>1, InitRelay, PTL DEF Spec

\* With a relayer that does not skip failed messages, exactly the messages
\* for Pythnet up to the claim record were executed, each once and in order,
\* whatever relays fail, are given up or land late.
THEOREM EveryMessageExecuted == Spec => []NoMessageSkipped
<1>1. RelayInv => NoMessageSkipped
  <2> SUFFICES ASSUME RelayInv, ~skipFailed
               PROVE  /\ Range(remote) = {n \in 1..Max({claim, 0}) : forPythnet(n)}
                      /\ \A i, j \in DOMAIN remote : i < j => remote[i] < remote[j]
    BY DEF NoMessageSkipped
  <2>1. claim \in Int /\ remote \in Seq(Nat)
    BY DEF RelayInv, RelayTyped
  <2>2. \A n \in Nat : n \in 1..Max({claim, 0}) <=> n \in 1..claim
    BY <2>1, MaxOfTwo
  <2>3. Max({claim, 0}) \in Int
    BY <2>1, MaxOfTwo
  <2>4. \A n \in 1..Max({claim, 0}) : n \in Nat
    BY <2>3
  <2>5. \A i \in DOMAIN remote : remote[i] \in Nat
    BY <2>1
  <2>6. Range(remote) = {n \in 1..Max({claim, 0}) : forPythnet(n)}
    BY <2>2, <2>4, <2>5 DEF Range, RelayInv, ExecutedUpToClaim
  <2> QED BY <2>6 DEF RelayInv, ExecutedUpToClaim
<1> QED BY <1>1, RelayInvInductive, PTL

-----------------------------------------------------------------------------
(* Induction, and the recursive functions inside the folds *)

\* Induction on the natural numbers, for a set instead of a predicate.
LEMMA SetInduction ==
  ASSUME NEW S, 0 \in S, \A n \in Nat : n \in S => n + 1 \in S
  PROVE  Nat \subseteq S
<1> DEFINE rest == Nat \ S
           less == {ss \in Nat \X Nat : ss[1] < ss[2]}
<1> SUFFICES ASSUME rest # {} PROVE FALSE
  OBVIOUS
<1>1. IsWellFoundedOn(less, Nat)
  BY NatLessThanWellFounded DEF OpToRel
<1>2. PICK x \in rest : \A y \in rest : <<y, x>> \notin less
  <2>1. rest \subseteq Nat
    OBVIOUS
  <2> HIDE DEF rest, less
  <2>2. \E x \in rest : \A y \in rest : ~ (<<y, x>> \in less)
    BY <1>1, <2>1, WFMin, Zenon
  <2> QED BY <2>2
<1>3. x - 1 \in Nat /\ (x - 1) + 1 = x
  BY <1>2
<1>4. x - 1 \in rest /\ <<x - 1, x>> \in less
  BY <1>3
<1> QED BY <1>2, <1>4

\* A set of positions that is not empty has a last one.
LEMMA LastPosition ==
  ASSUME NEW n \in Nat, NEW s \in SUBSET (1..n), s # {}
  PROVE  Max(s) \in s /\ \A y \in s : Max(s) >= y
<1> DEFINE hasMax(t) == \E x \in t : \A y \in t : x >= y
           good == {m \in Nat : \A t \in SUBSET (1..m) : t # {} => hasMax(t)}
<1>1. 0 \in good
  <2>1. 1..0 = {}
    OBVIOUS
  <2> QED BY <2>1
<1>2. ASSUME NEW m \in Nat, m \in good PROVE m + 1 \in good
  <2> SUFFICES ASSUME NEW t \in SUBSET (1..(m + 1)), t # {} PROVE hasMax(t)
    OBVIOUS
  <2>1. CASE m + 1 \in t
    <3>1. \A y \in t : m + 1 >= y
      OBVIOUS
    <3> QED BY <2>1, <3>1
  <2>2. CASE m + 1 \notin t
    <3>1. t \in SUBSET (1..m)
      BY <2>2
    <3> QED BY <1>2, <3>1
  <2> QED BY <2>1, <2>2
<1>3. Nat \subseteq good
  <2> HIDE DEF good
  <2> QED BY <1>1, <1>2, SetInduction
<1>4. hasMax(s)
  BY <1>3
<1> QED BY <1>4, Zenon DEF Max

\* Taking the last position out of a set of positions, and out of 1..n + 1.
LEMMA WithoutLast ==
  ASSUME NEW n \in Nat
  PROVE  /\ \A s \in SUBSET (1..(n + 1)) : s # {} => s \ {Max(s)} \in SUBSET (1..n)
         /\ 1..(n + 1) # {} /\ Max(1..(n + 1)) = n + 1
         /\ (1..(n + 1)) \ {n + 1} = 1..n
<1>1. ASSUME NEW s \in SUBSET (1..(n + 1)), s # {}
      PROVE  s \ {Max(s)} \in SUBSET (1..n)
  <2>0. n + 1 \in Nat
    OBVIOUS
  <2>1. Max(s) \in s /\ \A y \in s : Max(s) >= y
    BY <1>1, <2>0, LastPosition, Zenon
  <2>2. Max(s) \in 1..(n + 1)
    BY <2>1
  <2>3. \A y \in s : y # Max(s) => y \in 1..n
    BY <2>1, <2>2
  <2> QED BY <2>3
<1>2. n + 1 \in 1..(n + 1)
  OBVIOUS
<1>3. Max(1..(n + 1)) \in 1..(n + 1) /\ Max(1..(n + 1)) >= n + 1
  <2>1. n + 1 \in Nat /\ 1..(n + 1) \in SUBSET (1..(n + 1)) /\ 1..(n + 1) # {}
    BY <1>2
  <2> QED BY <1>2, <2>1, LastPosition, Zenon
<1>4. Max(1..(n + 1)) = n + 1
  BY <1>3
<1>5. (1..(n + 1)) \ {n + 1} = 1..n
  OBVIOUS
<1> QED BY <1>1, <1>2, <1>4, <1>5

-----------------------------------------------------------------------------
(* Flattened sequences *)

isFlat(g, seqs, n) == g = [i \in 1..n |-> IF i = 1 THEN seqs[i] ELSE g[i - 1] \o seqs[i]]
flat(seqs) == CHOOSE g : isFlat(g, seqs, Len(seqs))

\* The function with which FlattenSeq computes exists.
LEMMA FlatExists ==
  ASSUME NEW seqs, NEW n \in Nat
  PROVE  \E g : isFlat(g, seqs, n)
<1> DEFINE value(g, i) == IF i = 1 THEN seqs[i] ELSE g[i - 1] \o seqs[i]
           good == {m \in Nat : \E g : isFlat(g, seqs, m)}
<1>1. 0 \in good
  <2> DEFINE g == [i \in 1..0 |-> 0]
  <2>1. g = [i \in 1..0 |-> value(g, i)]
    OBVIOUS
  <2> QED BY <2>1 DEF isFlat
<1>2. ASSUME NEW m \in Nat, m \in good PROVE m + 1 \in good
  <2>1. PICK g : isFlat(g, seqs, m)
    BY <1>2
  <2> DEFINE h == [i \in 1..(m + 1) |-> value(g, i)]
  <2>2. \A i \in 1..m : h[i] = g[i]
    <3> TAKE i \in 1..m
    <3>1. g[i] = value(g, i)
      BY <2>1 DEF isFlat
    <3>2. i \in 1..(m + 1)
      OBVIOUS
    <3> QED BY <3>1, <3>2
  <2>3. \A i \in 1..(m + 1) : i # 1 => i - 1 \in 1..m
    OBVIOUS
  <2>4. \A i \in 1..(m + 1) : value(g, i) = value(h, i)
    BY <2>2, <2>3
  <2>5. h = [i \in 1..(m + 1) |-> value(h, i)]
    BY <2>4
  <2>6. isFlat(h, seqs, m + 1)
    BY <2>5 DEF isFlat
  <2> HIDE DEF h
  <2> QED BY <2>6
<1>3. Nat \subseteq good
  <2> HIDE DEF good
  <2> QED BY <1>1, <1>2, SetInduction
<1> QED BY <1>3

\* What FlattenSeq returns, one sequence after the other.
LEMMA FlatSteps ==
  ASSUME NEW seqs, Len(seqs) \in Nat
  PROVE  /\ FlattenSeq(seqs) = IF Len(seqs) = 0 THEN seqs ELSE flat(seqs)[Len(seqs)]
         /\ Len(seqs) > 0 => flat(seqs)[1] = seqs[1]
         /\ \A i \in 1..Len(seqs) - 1 : flat(seqs)[i + 1] = flat(seqs)[i] \o seqs[i + 1]
<1>1. FlattenSeq(seqs) = IF Len(seqs) = 0 THEN seqs ELSE flat(seqs)[Len(seqs)]
  BY DEF FlattenSeq, flat, isFlat
<1> DEFINE g == flat(seqs)
<1>2. isFlat(g, seqs, Len(seqs))
  BY FlatExists, Zenon DEF flat
<1> HIDE DEF g
<1>3. \A i \in 1..Len(seqs) : g[i] = IF i = 1 THEN seqs[i] ELSE g[i - 1] \o seqs[i]
  BY <1>2 DEF isFlat
<1>4. Len(seqs) > 0 => g[1] = seqs[1]
  BY <1>3
<1>5. \A i \in 1..Len(seqs) - 1 : g[i + 1] = g[i] \o seqs[i + 1]
  <2> TAKE i \in 1..Len(seqs) - 1
  <2>1. i + 1 \in 1..Len(seqs) /\ i + 1 # 1 /\ (i + 1) - 1 = i
    OBVIOUS
  <2>2. g[i + 1] = g[(i + 1) - 1] \o seqs[i + 1]
    BY <1>3, <2>1, Zenon
  <2> QED BY <2>1, <2>2
<1> QED BY <1>1, <1>4, <1>5 DEF g

-----------------------------------------------------------------------------
(* Executor payloads *)

isSplit(g, ixs, D) ==
  g = [i \in D |-> IF i > Len(ixs) THEN <<>>
                   ELSE <<SubSeq(ixs, i, batchEnd(ixs, i))>> \o g[batchEnd(ixs, i) + 1]]
split(ixs) == CHOOSE g : isSplit(g, ixs, 1..Len(ixs) + 1)

\* The last n + 1 places at which a batch may start.
lastStarts(ixs, n) == {i \in 1..Len(ixs) + 1 : i + n >= Len(ixs) + 1}

\* A batch is not empty, ends with an instruction that there is, and fits
\* when it has more than one.
LEMMA BatchEndRange ==
  ASSUME NEW X, NEW ixs \in Seq(X), NEW i \in 1..Len(ixs)
  PROVE  /\ batchEnd(ixs, i) \in i..Len(ixs)
         /\ \/ batchEnd(ixs, i) = i
            \/ getSizeOfExecutorInstructions(SubSeq(ixs, i, batchEnd(ixs, i)))
                 <= MAX_EXECUTOR_PAYLOAD_SIZE
<1> DEFINE fitting(m) == getSizeOfExecutorInstructions(SubSeq(ixs, i, m))
                           <= MAX_EXECUTOR_PAYLOAD_SIZE
           ends == {i} \cup {m \in i + 1..Len(ixs) - 1 : fitting(m)}
<1> HIDE DEF fitting
<1>1. Len(ixs) \in Nat
  OBVIOUS
<1>2. ends \in SUBSET (1..Len(ixs)) /\ ends # {}
  BY <1>1
<1>3. \A m \in ends : m \in i..Len(ixs) /\ (m = i \/ fitting(m))
  BY <1>1
<1>4. batchEnd(ixs, i) = Max(ends)
  BY DEF batchEnd, fitting
<1> HIDE DEF ends
<1>5. Max(ends) \in ends
  BY <1>1, <1>2, LastPosition, Zenon
<1>6. batchEnd(ixs, i) \in i..Len(ixs) /\ (batchEnd(ixs, i) = i \/ fitting(batchEnd(ixs, i)))
  BY <1>3, <1>4, <1>5
<1> QED BY <1>6 DEF fitting

\* The place after a batch is one of the last n + 1 when the batch starts at
\* one of the last n + 2.
LEMMA StartsLater ==
  ASSUME NEW X, NEW ixs \in Seq(X), NEW n \in Nat
  PROVE  /\ lastStarts(ixs, n) \subseteq lastStarts(ixs, n + 1)
         /\ \A i \in lastStarts(ixs, n + 1) :
              i <= Len(ixs) => batchEnd(ixs, i) + 1 \in lastStarts(ixs, n)
<1>1. Len(ixs) \in Nat
  OBVIOUS
<1>2. lastStarts(ixs, n) \subseteq lastStarts(ixs, n + 1)
  BY <1>1 DEF lastStarts
<1>3. ASSUME NEW i \in lastStarts(ixs, n + 1), i <= Len(ixs)
      PROVE  batchEnd(ixs, i) + 1 \in lastStarts(ixs, n)
  <2>1. i \in 1..Len(ixs) /\ i + (n + 1) >= Len(ixs) + 1
    BY <1>1, <1>3 DEF lastStarts
  <2>2. batchEnd(ixs, i) \in i..Len(ixs)
    BY <2>1, BatchEndRange
  <2> HIDE DEF lastStarts
  <2>3. \A e \in i..Len(ixs) : e + 1 \in lastStarts(ixs, n)
    BY <1>1, <2>1 DEF lastStarts
  <2> QED BY <2>2, <2>3
<1> QED BY <1>2, <1>3

\* The function with which batchIntoExecutorPayload computes exists.
LEMMA SplitExists ==
  ASSUME NEW X, NEW ixs \in Seq(X)
  PROVE  \E g : isSplit(g, ixs, 1..Len(ixs) + 1)
<1> DEFINE value(g, i) ==
             IF i > Len(ixs) THEN <<>>
             ELSE <<SubSeq(ixs, i, batchEnd(ixs, i))>> \o g[batchEnd(ixs, i) + 1]
           good == {m \in Nat : \E g : isSplit(g, ixs, lastStarts(ixs, m))}
<1>0. Len(ixs) \in Nat
  OBVIOUS
<1>1. 0 \in good
  <2> DEFINE g == [i \in lastStarts(ixs, 0) |-> <<>>]
  <2>1. \A i \in lastStarts(ixs, 0) : i > Len(ixs)
    BY <1>0 DEF lastStarts
  <2>2. g = [i \in lastStarts(ixs, 0) |-> value(g, i)]
    BY <2>1
  <2> QED BY <2>2 DEF isSplit
<1>2. ASSUME NEW m \in Nat, m \in good PROVE m + 1 \in good
  <2>1. PICK g : isSplit(g, ixs, lastStarts(ixs, m))
    BY <1>2
  <2> DEFINE h == [i \in lastStarts(ixs, m + 1) |-> value(g, i)]
  <2>2. \A i \in lastStarts(ixs, m) : h[i] = g[i]
    <3> TAKE i \in lastStarts(ixs, m)
    <3>1. g[i] = value(g, i)
      BY <2>1 DEF isSplit
    <3>2. i \in lastStarts(ixs, m + 1)
      BY StartsLater
    <3> QED BY <3>1, <3>2
  <2>3. \A i \in lastStarts(ixs, m + 1) : i > Len(ixs) \/ batchEnd(ixs, i) + 1 \in lastStarts(ixs, m)
    <3> TAKE i \in lastStarts(ixs, m + 1)
    <3>1. i > Len(ixs) \/ i <= Len(ixs)
      BY <1>0 DEF lastStarts
    <3> QED BY <3>1, StartsLater
  <2>4. \A i \in lastStarts(ixs, m + 1) : value(g, i) = value(h, i)
    BY <2>2, <2>3
  <2>5. h = [i \in lastStarts(ixs, m + 1) |-> value(h, i)]
    BY <2>4
  <2>6. isSplit(h, ixs, lastStarts(ixs, m + 1))
    BY <2>5 DEF isSplit
  <2> HIDE DEF h
  <2> QED BY <2>6
<1>3. Nat \subseteq good
  <2> HIDE DEF good
  <2> QED BY <1>1, <1>2, SetInduction
<1>4. lastStarts(ixs, Len(ixs)) = 1..Len(ixs) + 1
  BY <1>0 DEF lastStarts
<1>5. Len(ixs) \in good
  BY <1>0, <1>3
<1> QED BY <1>4, <1>5

\* Batches bs cut the instructions from i on at the places e, and each has one
\* instruction or fits.
cuts(ixs, i, bs, e) ==
  /\ e \in [0..Len(bs) -> 0..Len(ixs)] /\ e[0] = i - 1 /\ e[Len(bs)] = Len(ixs)
  /\ \A m \in 1..Len(bs) :
       /\ e[m - 1] < e[m] /\ bs[m] = SubSeq(ixs, e[m - 1] + 1, e[m])
       /\ \/ e[m] = e[m - 1] + 1
          \/ getSizeOfExecutorInstructions(bs[m]) <= MAX_EXECUTOR_PAYLOAD_SIZE

\* A batch put in front of batches that cut the rest.
LEMMA CutsBefore ==
  ASSUME NEW X, NEW ixs \in Seq(X), NEW i \in 1..Len(ixs), NEW j \in i..Len(ixs),
         j = i \/ getSizeOfExecutorInstructions(SubSeq(ixs, i, j))
                    <= MAX_EXECUTOR_PAYLOAD_SIZE,
         NEW bs \in Seq(Seq(X)), NEW e, cuts(ixs, j + 1, bs, e)
  PROVE  /\ <<SubSeq(ixs, i, j)>> \o bs \in Seq(Seq(X))
         /\ \E d : cuts(ixs, i, <<SubSeq(ixs, i, j)>> \o bs, d)
<1> DEFINE b == SubSeq(ixs, i, j)
           cs == <<b>> \o bs
           n == Len(bs)
           d == [m \in 0..n + 1 |-> IF m = 0 THEN i - 1 ELSE e[m - 1]]
<1>1. /\ Len(ixs) \in Nat /\ n \in Nat /\ b \in Seq(X)
  BY SubSeqProperties
<1> HIDE DEF b
<1>2. /\ cs \in Seq(Seq(X)) /\ Len(cs) = n + 1 /\ cs[1] = b
      /\ \A m \in 1..n : cs[m + 1] = bs[m]
  BY <1>1
<1> HIDE DEF cs, n
<1>3. /\ e \in [0..n -> 0..Len(ixs)] /\ e[0] = j /\ e[n] = Len(ixs)
      /\ \A m \in 1..n : /\ e[m - 1] < e[m] /\ bs[m] = SubSeq(ixs, e[m - 1] + 1, e[m])
                         /\ \/ e[m] = e[m - 1] + 1
                            \/ getSizeOfExecutorInstructions(bs[m]) <= MAX_EXECUTOR_PAYLOAD_SIZE
  BY DEF cuts, n
<1>4. /\ d \in [0..n + 1 -> 0..Len(ixs)] /\ d[0] = i - 1
      /\ \A m \in 0..n : d[m + 1] = e[m]
  BY <1>1, <1>3
<1> HIDE DEF d
<1>5. d[n + 1] = Len(ixs) /\ d[1] = j
  <2>1. n \in 0..n /\ 0 \in 0..n /\ 0 + 1 = 1
    BY <1>1
  <2> QED BY <1>3, <1>4, <2>1
<1>6. ASSUME NEW m \in 1..n + 1
      PROVE  /\ d[m - 1] < d[m] /\ cs[m] = SubSeq(ixs, d[m - 1] + 1, d[m])
             /\ \/ d[m] = d[m - 1] + 1
                \/ getSizeOfExecutorInstructions(cs[m]) <= MAX_EXECUTOR_PAYLOAD_SIZE
  <2>1. CASE m = 1
    <3>1. d[m - 1] = i - 1 /\ d[m] = j /\ cs[m] = b /\ (i - 1) + 1 = i
      BY <1>2, <1>4, <1>5, <2>1
    <3>2. d[m - 1] < d[m] /\ d[m - 1] + 1 = i
      BY <3>1
    <3> QED BY <3>1, <3>2 DEF b
  <2>2. CASE m # 1
    <3> DEFINE q == m - 1
    <3>1. q \in 1..n /\ q \in 0..n /\ q - 1 \in 0..n /\ m = q + 1 /\ (q - 1) + 1 = q
      BY <1>1, <2>2
    <3> HIDE DEF q
    <3>2. d[m] = e[q] /\ d[q] = e[q - 1] /\ cs[m] = bs[q] /\ m - 1 = q
      <4>1. d[q + 1] = e[q] /\ d[(q - 1) + 1] = e[q - 1] /\ cs[q + 1] = bs[q]
        BY <1>2, <1>4, <3>1, Zenon
      <4> QED BY <3>1, <4>1
    <3> QED BY <1>3, <3>1, <3>2
  <2> QED BY <2>1, <2>2
<1>7. cuts(ixs, i, cs, d)
  BY <1>2, <1>4, <1>5, <1>6 DEF cuts
<1> QED BY <1>2, <1>7 DEF cs, b

\* The batches of batchIntoExecutorPayload cut the instructions: they hold
\* each one once and in order, and fit.
LEMMA PayloadsCut ==
  ASSUME NEW X, NEW ixs \in Seq(X)
  PROVE  /\ batchIntoExecutorPayload(ixs) \in Seq(Seq(X))
         /\ \E e : cuts(ixs, 1, batchIntoExecutorPayload(ixs), e)
<1> DEFINE g == split(ixs)
           right(i) == g[i] \in Seq(Seq(X)) /\ \E e : cuts(ixs, i, g[i], e)
           good == {m \in Nat : \A i \in lastStarts(ixs, m) : right(i)}
<1>0. Len(ixs) \in Nat
  OBVIOUS
<1>1. batchIntoExecutorPayload(ixs) = g[1]
  BY DEF batchIntoExecutorPayload, split, isSplit
<1>2. isSplit(g, ixs, 1..Len(ixs) + 1)
  BY SplitExists, Zenon DEF split
<1> HIDE DEF g
<1>3. \A i \in 1..Len(ixs) + 1 :
        g[i] = IF i > Len(ixs) THEN <<>>
               ELSE <<SubSeq(ixs, i, batchEnd(ixs, i))>> \o g[batchEnd(ixs, i) + 1]
  BY <1>2 DEF isSplit
<1>4. ASSUME NEW i \in 1..Len(ixs) + 1, i > Len(ixs) PROVE right(i)
  <2>0. g[i] = <<>>
    BY <1>3, <1>4, Zenon
  <2>1. g[i] = <<>> /\ i - 1 = Len(ixs)
    BY <1>0, <1>4, <2>0
  <2> DEFINE e == [m \in 0..0 |-> Len(ixs)]
  <2>2. e \in [0..0 -> 0..Len(ixs)] /\ e[0] = Len(ixs)
    BY <1>0
  <2> HIDE DEF e
  <2>3. Len(g[i]) = 0 /\ g[i] \in Seq(Seq(X))
    BY <2>1
  <2>4. cuts(ixs, i, g[i], e)
    BY <2>1, <2>2, <2>3 DEF cuts
  <2> QED BY <2>3, <2>4
<1>5. 0 \in good
  <2>1. \A i \in lastStarts(ixs, 0) : i \in 1..Len(ixs) + 1 /\ i > Len(ixs)
    BY <1>0 DEF lastStarts
  <2> HIDE DEF right
  <2> QED BY <1>4, <2>1
<1>6. ASSUME NEW n \in Nat, n \in good PROVE n + 1 \in good
  <2> SUFFICES ASSUME NEW i \in lastStarts(ixs, n + 1), i <= Len(ixs) PROVE right(i)
    <3>1. \A i \in lastStarts(ixs, n + 1) :
            i \in 1..Len(ixs) + 1 /\ (i > Len(ixs) \/ i <= Len(ixs))
      BY <1>0 DEF lastStarts
    <3> HIDE DEF right
    <3> QED BY <1>4, <3>1
  <2> DEFINE j == batchEnd(ixs, i)
  <2>1. i \in 1..Len(ixs) /\ i \in 1..Len(ixs) + 1 /\ ~(i > Len(ixs))
    BY <1>0 DEF lastStarts
  <2>2. /\ j \in i..Len(ixs)
        /\ j = i \/ getSizeOfExecutorInstructions(SubSeq(ixs, i, j))
                      <= MAX_EXECUTOR_PAYLOAD_SIZE
    BY <2>1, BatchEndRange
  <2>3. right(j + 1)
    <3>1. j + 1 \in lastStarts(ixs, n)
      BY StartsLater
    <3> HIDE DEF right, j
    <3> QED BY <1>6, <3>1
  <2>4. g[i] = <<SubSeq(ixs, i, j)>> \o g[j + 1]
    BY <1>3, <2>1
  <2> HIDE DEF j
  <2>5. PICK e : cuts(ixs, j + 1, g[j + 1], e)
    BY <2>3
  <2>6. g[j + 1] \in Seq(Seq(X))
    BY <2>3
  <2>7. /\ <<SubSeq(ixs, i, j)>> \o g[j + 1] \in Seq(Seq(X))
        /\ \E d : cuts(ixs, i, <<SubSeq(ixs, i, j)>> \o g[j + 1], d)
    BY <2>1, <2>2, <2>5, <2>6, CutsBefore, Zenon
  <2> QED BY <2>4, <2>7
<1>7. Nat \subseteq good
  <2> HIDE DEF good
  <2> QED BY <1>5, <1>6, SetInduction
<1>8. 1 \in lastStarts(ixs, Len(ixs)) /\ Len(ixs) \in good
  <2>1. 1 \in lastStarts(ixs, Len(ixs))
    BY <1>0 DEF lastStarts
  <2> QED BY <1>0, <1>7, <2>1
<1>9. right(1)
  <2> HIDE DEF right
  <2> QED BY <1>8
<1> QED BY <1>1, <1>9

-----------------------------------------------------------------------------
(* What a request writes *)

Instruction == [req : Req, n : Nat, size : Nat]
Payload == Seq(Instruction)

\* A request has instructions, numbered from 1, and what it writes for them
\* cuts them into payloads.
LEMMA ContentsCut ==
  ASSUME input \in Inputs, NEW r \in Req
  PROVE  /\ Instructions(r) \in Seq(Instruction)
         /\ Len(Instructions(r)) = Len(input[r].sizes) /\ Len(input[r].sizes) \in Nat \ {0}
         /\ \A i \in 1..Len(input[r].sizes) : Instructions(r)[i].n = i
         /\ contents(r) \in Seq(Payload) \ {<<>>}
         /\ \E e : cuts(Instructions(r), 1, contents(r), e)
<1> DEFINE ixs == Instructions(r)
           l == Len(input[r].sizes)
<1>1. input[r].sizes \in Seq(Nat) /\ input[r].sizes # <<>>
  <2>1. input[r] \in [kind : {"local", "remote", "wormhole"}, sizes : Seq(Nat) \ {<<>>}]
    BY GovernanceAssumption DEF GovernanceAssumption
  <2> QED BY <2>1
<1>2. l \in Nat \ {0}
  BY <1>1
<1>3. ixs \in Seq(Instruction) /\ Len(ixs) = l /\ \A i \in 1..l : ixs[i].n = i
  <2>1. \A i \in 1..l : Ix(r, i) \in Instruction /\ Ix(r, i).n = i
    BY <1>1 DEF Ix, Instruction
  <2>2. ixs = [i \in 1..l |-> Ix(r, i)]
    BY DEF Instructions
  <2> HIDE DEF ixs
  <2>3. ixs \in [1..l -> Instruction] /\ \A i \in 1..l : ixs[i].n = i
    BY <2>1, <2>2
  <2>4. ixs \in Seq(Instruction) /\ Len(ixs) = l
    BY <1>2, <2>3
  <2> QED BY <2>3, <2>4
<1>4. contents(r) \in Seq(Payload) /\ \E e : cuts(ixs, 1, contents(r), e)
  <2>1. CASE input[r].kind = "remote"
    <3>1. contents(r) = batchIntoExecutorPayload(ixs)
      BY <2>1 DEF contents
    <3> HIDE DEF ixs
    <3> QED BY <1>3, <3>1, PayloadsCut, Zenon DEF Payload
  <2>2. CASE input[r].kind # "remote"
    <3> DEFINE cs == [i \in 1..l |-> <<ixs[i]>>]
               e == [m \in 0..l |-> m]
    <3>1. contents(r) = cs
      BY <1>3, <2>2 DEF contents
    <3> HIDE DEF ixs
    <3>2. \A i \in 1..l : <<ixs[i]>> \in Payload
      BY <1>3 DEF Payload
    <3>3. cs \in Seq(Payload) /\ Len(cs) = l
      <4>1. cs \in [1..l -> Payload]
        BY <3>2
      <4> HIDE DEF cs
      <4> QED BY <1>2, <4>1
    <3>4. \A m \in 1..l : cs[m] = <<ixs[m]>>
      OBVIOUS
    <3>5. /\ e \in [0..l -> 0..l] /\ e[0] = 0 /\ e[l] = l
          /\ \A m \in 1..l : e[m] = m /\ e[m - 1] = m - 1
      BY <1>2
    <3> HIDE DEF cs, e, l
    <3>6. ASSUME NEW m \in 1..l
          PROVE  /\ e[m - 1] < e[m] /\ cs[m] = SubSeq(ixs, e[m - 1] + 1, e[m])
                 /\ e[m] = e[m - 1] + 1
      <4>1. e[m] = m /\ e[m - 1] = m - 1 /\ m \in Int
        BY <1>2, <3>5
      <4>2. (m - 1) + 1 = m /\ m - 1 < m
        BY <4>1
      <4>3. SubSeq(ixs, m, m) = <<ixs[m]>>
        <5>1. \A i \in m..m : ixs[i] \in Instruction
          BY <1>2, <1>3
        <5>2. /\ SubSeq(ixs, m, m) \in Seq(Instruction)
              /\ Len(SubSeq(ixs, m, m)) = 1
              /\ \A i \in 1..1 : SubSeq(ixs, m, m)[i] = ixs[m + i - 1]
          <6>1. (m <= m) /\ m - m + 1 = 1
            BY <4>1
          <6> QED BY <4>1, <5>1, <6>1, SubSeqProperties
        <5> DEFINE q == SubSeq(ixs, m, m)
        <5>3. q[1] = ixs[m]
          <6>1. m + 1 - 1 = m /\ 1 \in 1..1
            BY <4>1
          <6> QED BY <5>2, <6>1
        <5>4. q \in Seq(Instruction) /\ Len(q) = 1
          BY <5>2
        <5> HIDE DEF q
        <5>5. q = <<q[1]>>
          BY <5>4
        <5> QED BY <5>3, <5>5 DEF q
      <4> QED BY <3>4, <4>1, <4>2, <4>3
    <3>7. cuts(ixs, 1, cs, e)
      BY <1>3, <3>3, <3>5, <3>6 DEF cuts
    <3> QED BY <3>1, <3>3, <3>7
  <2> QED BY <2>1, <2>2
<1>5. contents(r) # <<>>
  <2>1. PICK e : cuts(ixs, 1, contents(r), e)
    BY <1>4
  <2> HIDE DEF ixs, l
  <2> SUFFICES ASSUME contents(r) = <<>> PROVE FALSE
    OBVIOUS
  <2>2. Len(contents(r)) = 0
    OBVIOUS
  <2>3. e[0] = 0 /\ e[0] = l
    BY <1>3, <2>1, <2>2 DEF cuts
  <2> QED BY <1>2, <2>3
<1> QED BY <1>2, <1>3, <1>4, <1>5

\* A payload with more than one instruction fits.
LEMMA ContentsFit ==
  ASSUME input \in Inputs, NEW r \in Req, NEW m \in 1..Len(contents(r)),
         Len(contents(r)[m]) > 1
  PROVE  getSizeOfExecutorInstructions(contents(r)[m]) <= MAX_EXECUTOR_PAYLOAD_SIZE
<1> DEFINE cs == contents(r)
           ixs == Instructions(r)
<1>1. PICK e : cuts(ixs, 1, cs, e)
  BY ContentsCut
<1>2. ixs \in Seq(Instruction) /\ cs \in Seq(Payload)
  BY ContentsCut
<1> HIDE DEF cs, ixs
<1>3. /\ m \in 1..Len(cs) /\ Len(cs[m]) > 1
  BY DEF cs
<1>4. /\ e \in [0..Len(cs) -> 0..Len(ixs)]
      /\ cs[m] = SubSeq(ixs, e[m - 1] + 1, e[m])
      /\ \/ e[m] = e[m - 1] + 1
         \/ getSizeOfExecutorInstructions(cs[m]) <= MAX_EXECUTOR_PAYLOAD_SIZE
  BY <1>1, <1>3 DEF cuts
<1>5. ASSUME e[m] = e[m - 1] + 1 PROVE FALSE
  <2>1. Len(ixs) \in Nat /\ Len(cs) \in Nat /\ m \in 0..Len(cs) /\ m - 1 \in 0..Len(cs)
    BY <1>2, <1>3
  <2>2. e[m] \in 1..Len(ixs)
    <3>1. e[m - 1] \in 0..Len(ixs) /\ e[m] \in 0..Len(ixs)
      BY <1>4, <2>1
    <3> QED BY <1>5, <2>1, <3>1
  <2> DEFINE q == e[m]
  <2>3. q \in Int /\ \A i \in q..q : ixs[i] \in Instruction
    BY <1>2, <2>1, <2>2
  <2>4. cs[m] = SubSeq(ixs, q, q)
    BY <1>4, <1>5
  <2> HIDE DEF q
  <2>5. Len(SubSeq(ixs, q, q)) = IF q <= q THEN q - q + 1 ELSE 0
    BY <2>3, SubSeqProperties
  <2> QED BY <1>3, <2>3, <2>4, <2>5
<1> QED BY <1>4, <1>5 DEF cs

\* Consecutive payloads, flattened, are consecutive instructions.
LEMMA FlattenSlice ==
  ASSUME NEW X, NEW ixs \in Seq(X), NEW bs \in Seq(Seq(X)), NEW e, cuts(ixs, 1, bs, e),
         NEW a \in Nat, NEW ps \in Seq(Seq(X)), a + Len(ps) <= Len(bs),
         \A i \in 1..Len(ps) : ps[i] = bs[a + i]
  PROVE  /\ FlattenSeq(ps) = SubSeq(ixs, e[a] + 1, e[a + Len(ps)])
         /\ e[a] <= e[a + Len(ps)]
<1> DEFINE n == Len(ps)
           piece(i) == SubSeq(ixs, e[a] + 1, e[a + i])
           good == {i \in Nat : i + 1 <= n =>
                      flat(ps)[i + 1] = piece(i + 1) /\ e[a] <= e[a + (i + 1)]}
<1>1. n \in Nat /\ Len(bs) \in Nat /\ Len(ixs) \in Nat
  OBVIOUS
<1>2. /\ FlattenSeq(ps) = IF n = 0 THEN ps ELSE flat(ps)[n]
      /\ n > 0 => flat(ps)[1] = ps[1]
      /\ \A i \in 1..n - 1 : flat(ps)[i + 1] = flat(ps)[i] \o ps[i + 1]
  BY <1>1, FlatSteps
<1>3. /\ e \in [0..Len(bs) -> 0..Len(ixs)]
      /\ \A m \in 1..Len(bs) : e[m - 1] < e[m] /\ bs[m] = SubSeq(ixs, e[m - 1] + 1, e[m])
  BY DEF cuts
<1> HIDE DEF n
<1>4. ASSUME NEW i \in 0..n PROVE a + i \in 0..Len(bs) /\ e[a + i] \in 0..Len(ixs)
  <2>1. a + i \in 0..Len(bs)
    BY <1>1 DEF n
  <2> QED BY <1>3, <2>1
<1>5. ASSUME NEW i \in 1..n
      PROVE  ps[i] = SubSeq(ixs, e[a + (i - 1)] + 1, e[a + i]) /\ e[a + (i - 1)] < e[a + i]
  <2>1. a + i \in 1..Len(bs) /\ (a + i) - 1 = a + (i - 1)
    BY <1>1 DEF n
  <2>2. e[(a + i) - 1] < e[a + i] /\ bs[a + i] = SubSeq(ixs, e[(a + i) - 1] + 1, e[a + i])
    BY <1>3, <2>1, Zenon
  <2> QED BY <2>1, <2>2 DEF n
<1>a. a + 0 = a /\ e[a] \in 0..Len(ixs)
  <2>1. a + 0 = a /\ 0 \in 0..n
    BY <1>1
  <2> QED BY <1>4, <2>1
<1>6. 0 \in good
  <2> SUFFICES ASSUME 1 <= n PROVE flat(ps)[1] = piece(1) /\ e[a] <= e[a + 1]
    OBVIOUS
  <2>1. 1 \in 1..n /\ 1 - 1 = 0 /\ a + (1 - 1) = a /\ 1 \in 0..n
    BY <1>1
  <2>2. ps[1] = SubSeq(ixs, e[a] + 1, e[a + 1]) /\ e[a] < e[a + 1]
    <3>1. ps[1] = SubSeq(ixs, e[a + (1 - 1)] + 1, e[a + 1]) /\ e[a + (1 - 1)] < e[a + 1]
      BY <1>5, <2>1, Zenon
    <3> QED BY <2>1, <3>1
  <2>3. e[a] \in Int /\ e[a + 1] \in Int
    BY <1>4, <1>a, <2>1
  <2>4. flat(ps)[1] = ps[1]
    BY <1>1, <1>2
  <2>5. e[a] <= e[a + 1]
    BY <2>2, <2>3
  <2> QED BY <2>2, <2>4, <2>5
<1>7. ASSUME NEW i \in Nat, i \in good PROVE i + 1 \in good
  <2> DEFINE j == i + 1
  <2> SUFFICES ASSUME j + 1 <= n PROVE flat(ps)[j + 1] = piece(j + 1) /\ e[a] <= e[a + (j + 1)]
    OBVIOUS
  <2>0. j \in 1..n - 1 /\ j \in 0..n /\ j + 1 \in 0..n /\ j + 1 \in 1..n /\ (j + 1) - 1 = j /\ j <= n
    BY <1>1
  <2>1. flat(ps)[j] = piece(j) /\ e[a] <= e[a + j]
    BY <1>7, <2>0
  <2> HIDE DEF j
  <2>2. ps[j + 1] = SubSeq(ixs, e[a + j] + 1, e[a + (j + 1)]) /\ e[a + j] < e[a + (j + 1)]
    <3>1. /\ ps[j + 1] = SubSeq(ixs, e[a + ((j + 1) - 1)] + 1, e[a + (j + 1)])
          /\ e[a + ((j + 1) - 1)] < e[a + (j + 1)]
      BY <1>5, <2>0, Zenon
    <3> QED BY <2>0, <3>1
  <2>3. flat(ps)[j + 1] = flat(ps)[j] \o ps[j + 1]
    BY <1>2, <2>0
  <2> DEFINE x == e[a]
             y == e[a + j]
             z == e[a + (j + 1)]
  <2>4. x \in 0..Len(ixs) /\ y \in 0..Len(ixs) /\ z \in 0..Len(ixs) /\ x <= y /\ y < z
    BY <1>4, <1>a, <2>0, <2>1, <2>2
  <2>5. /\ flat(ps)[j] = SubSeq(ixs, x + 1, y) /\ ps[j + 1] = SubSeq(ixs, y + 1, z)
        /\ piece(j + 1) = SubSeq(ixs, x + 1, z)
    BY <2>1, <2>2
  <2> HIDE DEF x, y, z, piece
  <2>6. /\ x + 1 \in 1..Len(ixs) + 1 /\ y \in (x + 1) - 1..Len(ixs) /\ z \in y..Len(ixs)
    BY <1>1, <2>4
  <2>7. SubSeq(ixs, x + 1, y) \o SubSeq(ixs, y + 1, z) = SubSeq(ixs, x + 1, z)
    BY <2>6, ConcatAdjacentSubSeq, Zenon
  <2>8. x <= z
    BY <1>1, <2>4
  <2> QED BY <2>3, <2>5, <2>7, <2>8 DEF x, z
<1>8. Nat \subseteq good
  <2> HIDE DEF good
  <2> QED BY <1>6, <1>7, SetInduction
<1>9. CASE n = 0
  <2>1. a + n = a /\ ps = <<>> /\ e[a] < e[a] + 1 /\ e[a] \in Int /\ e[a] <= e[a]
    BY <1>1, <1>9, <1>a DEF n
  <2>2. SubSeq(ixs, e[a] + 1, e[a]) = <<>>
    <3>1. e[a] + 1 \in Int
      BY <2>1
    <3> QED BY <2>1, <3>1, SubSeqEmpty
  <2> QED BY <1>2, <1>9, <2>1, <2>2 DEF n
<1>10. CASE n # 0
  <2>1. n - 1 \in Nat /\ (n - 1) + 1 = n /\ n <= n
    BY <1>1, <1>10
  <2>2. flat(ps)[(n - 1) + 1] = piece((n - 1) + 1) /\ e[a] <= e[a + ((n - 1) + 1)]
    BY <1>8, <2>1
  <2> QED BY <1>2, <1>10, <2>1, <2>2 DEF n
<1> QED BY <1>9, <1>10

-----------------------------------------------------------------------------
(* What a request has planned, and how far the proposals are with it.      *)

Operation ==
  [type : {"create", "add", "activate", "approve", "execute"}, k : Nat, i : Nat, ix : Payload]
Proposal ==
  [owner : Req, status : Status, ixs : Seq(Payload), executed : Nat, cancelled : BOOLEAN]
Plan == [base : Nat, cs : Seq(Payload) \ {<<>>}]

\* The number of payloads that go into the proposals of plan P before k, and
\* into proposal k itself.
start(P, k) == (k - P.base - 1) * MAX_INSTRUCTIONS_PER_PROPOSAL
planned(P, k) ==
  IF start(P, k) + MAX_INSTRUCTIONS_PER_PROPOSAL <= Len(P.cs)
  THEN MAX_INSTRUCTIONS_PER_PROPOSAL ELSE Len(P.cs) - start(P, k)
inPlan(P, k) == k \in Nat /\ k > P.base /\ start(P, k) < Len(P.cs)

\* Operation op writes what plan P says.
planOp(P, op) ==
  /\ op \in Operation /\ op.type # "execute" /\ inPlan(P, op.k)
  /\ op.type = "add" => /\ op.i \in 1..planned(P, op.k)
                        /\ op.ix = P.cs[start(P, op.k) + op.i]

\* Plan P goes on with operation b after operation a.
link(P, a, b) ==
  \/ a.type = "create" /\ b.type = "add" /\ b.k = a.k /\ b.i = 1
  \/ a.type = "add" /\ b.type = "add" /\ b.k = a.k /\ b.i = a.i + 1
  \/ a.type = "add" /\ b.type = "activate" /\ b.k = a.k /\ a.i = planned(P, a.k)
  \/ a.type = "activate" /\ b.type = "approve" /\ b.k = a.k
  \/ a.type = "approve" /\ b.type = "create" /\ b.k = a.k + 1

chain(P, ops) ==
  /\ ops \in Seq(Operation) \ {<<>>}
  /\ \A n \in 1..Len(ops) : planOp(P, ops[n])
  /\ \A n \in 1..Len(ops) - 1 : link(P, ops[n], ops[n + 1])

queue(P, batch) ==
  /\ batch \in Seq(Seq(Operation)) \ {<<>>}
  /\ \A n \in 1..Len(batch) : chain(P, batch[n])
  /\ \A n \in 1..Len(batch) - 1 :
       link(P, batch[n][Len(batch[n])], batch[n + 1][1])

begun(ps, r, k) == k \in 1..Len(ps) /\ ps[k].owner = r
complete(ps, P, r, k) == begun(ps, r, k) /\ Len(ps[k].ixs) = planned(P, k)

\* The proposals ps are at least as far as request r is when it comes to op.
due(ps, P, r, op) ==
  CASE op.type = "create" -> op.k = P.base + 1 \/ complete(ps, P, r, op.k - 1)
    [] op.type = "add" -> begun(ps, r, op.k) /\ Len(ps[op.k].ixs) >= op.i - 1
    [] OTHER -> complete(ps, P, r, op.k)

\* Proposal p, number k, holds a slice of plan P, all of it before it can be
\* voted on, and something before it can be executed.
slice(p, P, k) ==
  /\ inPlan(P, k)
  /\ Len(p.ixs) <= planned(P, k)
  /\ \A i \in 1..Len(p.ixs) : p.ixs[i] = P.cs[start(P, k) + i]
  /\ p.status # "draft" => Len(p.ixs) = planned(P, k)
  /\ p.status \in {"draft", "active"} => p.executed = 0
  /\ p.status = "ready" => p.executed < Len(p.ixs)
  /\ p.executed <= Len(p.ixs)

\* Proposal k of request r is the first of its plan, or follows a complete one.
follows(ps, P, r, k) == k = P.base + 1 \/ complete(ps, P, r, k - 1)

Sound(ps, pl, A) ==
  /\ ps \in Seq(Proposal)
  /\ \A k \in 1..Len(ps) :
       LET r == ps[k].owner IN
       r \in A /\ slice(ps[k], pl[r], k) /\ follows(ps, pl[r], r, k)

plans == [r \in Req |-> [base |-> base[r], cs |-> contents(r)]]
Active ==
  {r \in Req : /\ pc[r] # "idle"
               /\ input[r].kind = "wormhole" =>
                    Len(contents(r)) <= MAX_INSTRUCTIONS_PER_PROPOSAL}

\* A transaction that was given up executes an instruction, or is of a request
\* and no further than the proposals.
executes(ops) == \E k, i : ops = <<Op("execute", k, i, <<>>)>>
sentFor(f, ps, pl, A) ==
  \/ executes(f.ops)
  \/ /\ f.req \in A /\ chain(pl[f.req], f.ops)
     /\ due(ps, pl[f.req], f.req, f.ops[1])
sent(f) == sentFor(f, proposals, plans, Active)

\* What request r still has to send goes on where the proposals are.
goesOn(r, batch, ps, pl, A) ==
  r \in A /\ queue(pl[r], batch) /\ due(ps, pl[r], r, batch[1][1])
Sending(r) == retries[r] < TIMEOUT /\ goesOn(r, txs[r], proposals, plans, Active)

ClientsTyped ==
  /\ input \in Inputs
  /\ pc \in [Req -> {"idle", "sending", "done", "failed"}]
  /\ base \in [Req -> Nat] /\ retries \in [Req -> Nat]
  /\ txs \in [Req -> Seq(Seq(Operation))]
  /\ \A r \in Req : retries[r] <= TIMEOUT /\ base[r] <= Len(proposals)
fit(batch) ==
  \A n \in 1..Len(batch) :
    Len(batch[n]) > 1 => getSizeOfTransaction(batch[n]) + 2 <= PACKET_DATA_SIZE
\* The inductive invariant: the proposals hold slices of the plans of their
\* owners, what clients have yet to send and what may still land goes on no
\* further than the proposals are, and the transactions fit.
ProposeInv ==
  /\ ClientsTyped
  /\ Sound(proposals, plans, Active)
  /\ \A r \in Req : pc[r] = "sending" => Sending(r)
  /\ \A f \in flight : sent(f)
  /\ \A r \in Req : fit(txs[r])

-----------------------------------------------------------------------------
(* Transactions *)

isBatching(g, ops, D) ==
  g = [s \in D |-> IF s = {} THEN <<>>
                   ELSE addInstruction(g[s \ {Max(s)}], ops[Max(s)])]
batching(ops) == CHOOSE g : isBatching(g, ops, SUBSET DOMAIN ops)

\* The function with which the fold over the operations computes exists.
LEMMA BatchingExists ==
  ASSUME NEW ops, NEW n \in Nat
  PROVE  \E g : isBatching(g, ops, SUBSET (1..n))
<1> DEFINE value(g, s) == IF s = {} THEN <<>>
                          ELSE addInstruction(g[s \ {Max(s)}], ops[Max(s)])
           good == {m \in Nat : \E g : isBatching(g, ops, SUBSET (1..m))}
<1>1. 0 \in good
  <2> DEFINE g == [s \in SUBSET (1..0) |-> <<>>]
  <2>1. \A s \in SUBSET (1..0) : s = {}
    OBVIOUS
  <2>2. g = [s \in SUBSET (1..0) |-> value(g, s)]
    BY <2>1
  <2> QED BY <2>2 DEF isBatching
<1>2. ASSUME NEW m \in Nat, m \in good PROVE m + 1 \in good
  <2>1. PICK g : isBatching(g, ops, SUBSET (1..m))
    BY <1>2
  <2> DEFINE h == [s \in SUBSET (1..(m + 1)) |-> value(g, s)]
  <2>2. \A s \in SUBSET (1..m) : h[s] = g[s]
    <3> TAKE s \in SUBSET (1..m)
    <3>1. g[s] = value(g, s)
      BY <2>1 DEF isBatching
    <3>2. s \in SUBSET (1..(m + 1))
      OBVIOUS
    <3> QED BY <3>1, <3>2
  <2>3. \A s \in SUBSET (1..(m + 1)) : s # {} => s \ {Max(s)} \in SUBSET (1..m)
    BY WithoutLast
  <2>4. \A s \in SUBSET (1..(m + 1)) : value(g, s) = value(h, s)
    BY <2>2, <2>3
  <2>5. h = [s \in SUBSET (1..(m + 1)) |-> value(h, s)]
    BY <2>4
  <2>6. isBatching(h, ops, SUBSET (1..(m + 1)))
    BY <2>5 DEF isBatching
  <2> HIDE DEF h
  <2> QED BY <2>6
<1>3. Nat \subseteq good
  <2> HIDE DEF good
  <2> QED BY <1>1, <1>2, SetInduction
<1> QED BY <1>3

\* The transactions after the first n operations.
batched(ops, n) == batching(ops)[1..n]

\* The transactions are built from the operations one at a time.
LEMMA BatchingSteps ==
  ASSUME NEW X, NEW ops \in Seq(X)
  PROVE  /\ batchIntoLegacyTransactions(ops) = batched(ops, Len(ops))
         /\ batched(ops, 0) = <<>>
         /\ \A n \in 0..Len(ops) - 1 :
              batched(ops, n + 1) = addInstruction(batched(ops, n), ops[n + 1])
<1> DEFINE g == batching(ops)
<1>0. DOMAIN ops = 1..Len(ops) /\ Len(ops) \in Nat
  OBVIOUS
<1>1. batchIntoLegacyTransactions(ops) = g[DOMAIN ops]
  BY DEF batchIntoLegacyTransactions, FoldLeft, MapThenFoldSet, batching, isBatching
<1>2. isBatching(g, ops, SUBSET (1..Len(ops)))
  BY <1>0, BatchingExists DEF batching
<1> HIDE DEF g
<1>3. \A s \in SUBSET (1..Len(ops)) :
        g[s] = IF s = {} THEN <<>> ELSE addInstruction(g[s \ {Max(s)}], ops[Max(s)])
  BY <1>2 DEF isBatching
<1>4. g[1..0] = <<>>
  <2>1. 1..0 = {} /\ 1..0 \in SUBSET (1..Len(ops))
    OBVIOUS
  <2> QED BY <1>3, <2>1
<1>5. ASSUME NEW n \in 0..Len(ops) - 1
      PROVE  g[1..(n + 1)] = addInstruction(g[1..n], ops[n + 1])
  <2>1. n \in Nat /\ 1..(n + 1) \in SUBSET (1..Len(ops))
    BY <1>0
  <2>2. 1..(n + 1) # {} /\ Max(1..(n + 1)) = n + 1 /\ (1..(n + 1)) \ {n + 1} = 1..n
    BY <2>1, WithoutLast
  <2>3. g[1..(n + 1)] = addInstruction(g[(1..(n + 1)) \ {Max(1..(n + 1))}],
                                       ops[Max(1..(n + 1))])
    BY <1>3, <2>1, <2>2, Zenon
  <2> QED BY <2>2, <2>3
<1> QED BY <1>0, <1>1, <1>4, <1>5 DEF batched, g

\* The operation with which the last transaction ends.
lastOp(batch) == batch[Len(batch)][Len(batch[Len(batch)])]

\* The transactions of a chain of operations go on with the next one.
LEMMA AddKeepsQueue ==
  ASSUME NEW P, NEW batch, NEW op, queue(P, batch), fit(batch),
         planOp(P, op), link(P, lastOp(batch), op)
  PROVE  LET b == addInstruction(batch, op) IN
         queue(P, b) /\ fit(b) /\ b[1][1] = batch[1][1] /\ lastOp(b) = op
<1> DEFINE b == addInstruction(batch, op)
           l == Len(batch)
           t == batch[l]
<1>0. /\ batch \in Seq(Seq(Operation)) /\ l \in Nat \ {0} /\ op \in Operation
      /\ \A n \in 1..l : chain(P, batch[n])
      /\ \A n \in 1..l - 1 : link(P, batch[n][Len(batch[n])], batch[n + 1][1])
  BY DEF queue, planOp
<1>1. t \in Seq(Operation) /\ t # <<>> /\ chain(P, t) /\ Len(t) \in Nat \ {0}
  <2>1. l \in 1..l
    BY <1>0
  <2>2. chain(P, t)
    BY <1>0, <2>1
  <2> HIDE DEF t
  <2> QED BY <2>2 DEF chain
<1>2. CASE ~(batch # <<>> /\ getSizeOfTransaction(Append(Last(batch), op)) + 2 <= PACKET_DATA_SIZE)
  <2>1. b = Append(batch, <<op>>)
    BY <1>2 DEF addInstruction
  <2>2. <<op>> \in Seq(Operation) /\ Len(<<op>>) = 1 /\ <<op>>[1] = op
    BY <1>0
  <2> DEFINE u == <<op>>
  <2> HIDE DEF b, u, l, t
  <2>3. /\ b \in Seq(Seq(Operation)) /\ Len(b) = l + 1 /\ b[l + 1] = u
        /\ \A n \in 1..l : b[n] = batch[n]
    BY <1>0, <2>1, <2>2 DEF u, l
  <2>4. chain(P, u)
    <3>1. /\ u \in Seq(Operation) /\ Len(u) = 1 /\ u[1] = op /\ u # <<>>
      BY <2>2 DEF u
    <3> QED BY <3>1 DEF chain
  <2>5. \A n \in 1..l + 1 : chain(P, b[n])
    BY <1>0, <2>3, <2>4
  <2>6. ASSUME NEW n \in 1..l PROVE link(P, b[n][Len(b[n])], b[n + 1][1])
    <3>1. CASE n = l
      <4>1. b[n] = t /\ b[n + 1] = u /\ u[1] = op
        BY <2>2, <2>3, <3>1 DEF u, t
      <4> QED BY <4>1 DEF lastOp, t, l
    <3>2. CASE n # l
      <4>1. n \in 1..l - 1 /\ n + 1 \in 1..l
        BY <1>0, <3>2
      <4>2. b[n] = batch[n] /\ b[n + 1] = batch[n + 1]
        BY <2>3, <4>1
      <4> QED BY <1>0, <4>1, <4>2
    <3> QED BY <3>1, <3>2
  <2>7. (l + 1) - 1 = l /\ l + 1 # 0 /\ b # <<>> /\ 1 \in 1..l
    BY <1>0, <2>3
  <2>8. queue(P, b)
    BY <2>3, <2>5, <2>6, <2>7 DEF queue
  <2>9. fit(b)
    <3> SUFFICES ASSUME NEW n \in 1..l + 1, Len(b[n]) > 1
                 PROVE  getSizeOfTransaction(b[n]) + 2 <= PACKET_DATA_SIZE
      BY <2>3 DEF fit
    <3>0. Len(u) = 1
      BY <2>2 DEF u
    <3>1. ASSUME n = l + 1 PROVE FALSE
      <4>1. Len(b[n]) = 1
        BY <2>3, <3>0, <3>1
      <4> QED BY <4>1
    <3>2. n \in 1..l
      BY <1>0, <3>1
    <3> QED BY <2>3, <3>2 DEF fit, l
  <2>10. b[1][1] = batch[1][1] /\ lastOp(b) = op
    BY <2>2, <2>3, <2>7 DEF lastOp, u
  <2> QED BY <2>8, <2>9, <2>10 DEF b
<1>3. CASE batch # <<>> /\ getSizeOfTransaction(Append(Last(batch), op)) + 2 <= PACKET_DATA_SIZE
  <2> DEFINE u == Append(t, op)
  <2>1. b = SubSeq(batch, 1, l - 1) \o <<u>> /\ getSizeOfTransaction(u) + 2 <= PACKET_DATA_SIZE
    BY <1>3 DEF addInstruction, Front, Last
  <2> HIDE DEF t
  <2>2. /\ u \in Seq(Operation) /\ Len(u) = Len(t) + 1 /\ u[Len(t) + 1] = op
        /\ \A n \in 1..Len(t) : u[n] = t[n]
    BY <1>0, <1>1
  <2> HIDE DEF b, u, l
  <2>3. /\ SubSeq(batch, 1, l - 1) \in Seq(Seq(Operation))
        /\ Len(SubSeq(batch, 1, l - 1)) = l - 1
        /\ \A n \in 1..l - 1 : SubSeq(batch, 1, l - 1)[n] = batch[n]
    <3>1. 1 \in Int /\ l - 1 \in Int /\ \A n \in 1..l - 1 : batch[n] \in Seq(Operation)
      BY <1>0 DEF l
    <3>2. /\ SubSeq(batch, 1, l - 1) \in Seq(Seq(Operation))
          /\ Len(SubSeq(batch, 1, l - 1)) = IF 1 <= l - 1 THEN (l - 1) - 1 + 1 ELSE 0
          /\ \A n \in 1..(l - 1) - 1 + 1 : SubSeq(batch, 1, l - 1)[n] = batch[1 + n - 1]
      BY <3>1, SubSeqProperties
    <3>3. (l - 1) - 1 + 1 = l - 1 /\ (IF 1 <= l - 1 THEN l - 1 ELSE 0) = l - 1
      BY <1>0
    <3>4. \A n \in 1..l - 1 : 1 + n - 1 = n
      BY <1>0
    <3> QED BY <3>2, <3>3, <3>4
  <2>4. /\ b \in Seq(Seq(Operation)) /\ Len(b) = l /\ b[l] = u
        /\ \A n \in 1..l - 1 : b[n] = batch[n]
    <3> DEFINE f == SubSeq(batch, 1, l - 1)
    <3>1. f \in Seq(Seq(Operation)) /\ Len(f) = l - 1 /\ b = f \o <<u>>
      BY <2>1, <2>3
    <3> HIDE DEF f
    <3>2. /\ f \o <<u>> \in Seq(Seq(Operation)) /\ Len(f \o <<u>>) = l
          /\ (f \o <<u>>)[l] = u /\ \A n \in 1..l - 1 : (f \o <<u>>)[n] = f[n]
      BY <1>0, <2>2, <3>1
    <3> QED BY <2>3, <3>1, <3>2 DEF f
  <2>5. chain(P, u)
    <3>1. \A n \in 1..Len(u) : n \in 1..Len(t) \/ n = Len(t) + 1
      BY <1>1, <2>2
    <3>2. \A n \in 1..Len(u) : planOp(P, u[n])
      BY <1>1, <2>2, <3>1 DEF chain
    <3>3. ASSUME NEW n \in 1..Len(u) - 1 PROVE link(P, u[n], u[n + 1])
      <4>1. n \in 1..Len(t)
        BY <1>1, <2>2
      <4>2. CASE n = Len(t)
        <5>1. u[n] = lastOp(batch) /\ u[n + 1] = op
          BY <2>2, <4>1, <4>2 DEF lastOp, t, l
        <5> QED BY <5>1
      <4>3. CASE n # Len(t)
        <5>1. n \in 1..Len(t) - 1 /\ n + 1 \in 1..Len(t)
          BY <1>1, <4>1, <4>3
        <5> QED BY <1>1, <2>2, <4>1, <5>1 DEF chain
      <4> QED BY <4>2, <4>3
    <3>4. u # <<>>
      BY <1>1, <2>2
    <3> QED BY <2>2, <3>2, <3>3, <3>4 DEF chain
  <2>6. \A n \in 1..l : n \in 1..l - 1 \/ n = l
    BY <1>0
  <2>7. \A n \in 1..l : chain(P, b[n])
    BY <1>0, <2>4, <2>5, <2>6
  <2>8. 1 \in 1..Len(t) /\ u[1] = t[1]
    BY <1>1, <2>2
  <2>9. \A n \in 1..l : b[n][1] = batch[n][1]
    BY <2>4, <2>6, <2>8 DEF t
  <2>10. ASSUME NEW n \in 1..l - 1 PROVE link(P, b[n][Len(b[n])], b[n + 1][1])
    <3>1. n + 1 \in 1..l
      BY <1>0
    <3>2. b[n] = batch[n] /\ b[n + 1][1] = batch[n + 1][1]
      BY <2>4, <2>9, <3>1
    <3> QED BY <1>0, <3>2
  <2>11. b # <<>> /\ 1 \in 1..l
    BY <1>0, <2>4
  <2>12. queue(P, b)
    BY <2>4, <2>7, <2>10, <2>11 DEF queue
  <2>13. fit(b)
    BY <2>1, <2>4, <2>6 DEF fit, l
  <2>14. b[1][1] = batch[1][1] /\ lastOp(b) = op
    BY <2>2, <2>4, <2>9, <2>11 DEF lastOp
  <2> QED BY <2>12, <2>13, <2>14 DEF b
<1> QED BY <1>2, <1>3

\* The transactions of a chain of operations form a queue that starts with
\* its first operation, and fit.
LEMMA BatchedIsQueue ==
  ASSUME NEW P, NEW ops, chain(P, ops)
  PROVE  LET b == batchIntoLegacyTransactions(ops) IN
         queue(P, b) /\ fit(b) /\ b[1][1] = ops[1]
<1> DEFINE l == Len(ops)
           right(b, n) == queue(P, b) /\ fit(b) /\ b[1][1] = ops[1] /\ lastOp(b) = ops[n]
           good == {n \in Nat : n + 1 <= l => right(batched(ops, n + 1), n + 1)}
<1>0. ops \in Seq(Operation) /\ l \in Nat \ {0}
  BY DEF chain
<1>1. /\ batchIntoLegacyTransactions(ops) = batched(ops, l) /\ batched(ops, 0) = <<>>
      /\ \A n \in 0..l - 1 : batched(ops, n + 1) = addInstruction(batched(ops, n), ops[n + 1])
  BY <1>0, BatchingSteps
<1>2. \A n \in 1..l : planOp(P, ops[n])
  BY DEF chain
<1> HIDE DEF l
<1>3. 0 \in good
  <2> DEFINE op == ops[1]
             b == <<<<op>>>>
  <2>1. 0 \in 0..l - 1 /\ 0 + 1 = 1 /\ 1 \in 1..l
    BY <1>0
  <2>2. batched(ops, 1) = b
    <3>1. batched(ops, 0 + 1) = addInstruction(batched(ops, 0), ops[0 + 1])
      BY <1>1, <2>1, Zenon
    <3>2. batched(ops, 1) = addInstruction(<<>>, op)
      BY <1>1, <2>1, <3>1
    <3>3. addInstruction(<<>>, op) = Append(<<>>, <<op>>)
      BY DEF addInstruction
    <3> QED BY <3>2, <3>3
  <2>3. planOp(P, op) /\ op \in Operation
    BY <1>2, <2>1 DEF planOp
  <2> HIDE DEF op
  <2>4. /\ <<op>> \in Seq(Operation) /\ Len(<<op>>) = 1 /\ <<op>>[1] = op /\ <<op>> # <<>>
    BY <2>3
  <2>5. chain(P, <<op>>)
    <3> DEFINE u == <<op>>
    <3> HIDE DEF u
    <3>1. /\ u \in Seq(Operation) /\ Len(u) = 1 /\ u[1] = op /\ u # <<>>
      BY <2>4 DEF u
    <3>2. chain(P, u)
      BY <2>3, <3>1 DEF chain
    <3> QED BY <3>2 DEF u
  <2>6. /\ b \in Seq(Seq(Operation)) /\ Len(b) = 1 /\ b[1] = <<op>> /\ b # <<>>
    <3> DEFINE u == <<op>>
    <3> HIDE DEF u
    <3>1. <<u>> \in Seq(Seq(Operation)) /\ Len(<<u>>) = 1 /\ <<u>>[1] = u /\ <<u>> # <<>>
      BY <2>4 DEF u
    <3> QED BY <3>1 DEF u
  <2> HIDE DEF b
  <2>7. queue(P, b)
    BY <2>5, <2>6 DEF queue
  <2>8. fit(b)
    <3>1. \A n \in 1..Len(b) : n = 1
      BY <2>6
    <3>2. \A n \in 1..Len(b) : Len(b[n]) = 1
      BY <2>4, <2>6, <3>1
    <3> QED BY <3>2 DEF fit
  <2>9. b[1][1] = op /\ lastOp(b) = op
    BY <2>4, <2>6 DEF lastOp
  <2>10. right(batched(ops, 1), 1)
    BY <2>2, <2>7, <2>8, <2>9 DEF op
  <2> HIDE DEF right
  <2> QED BY <2>1, <2>10
<1>4. ASSUME NEW n \in Nat, n \in good PROVE n + 1 \in good
  <2> DEFINE m == n + 1
  <2> SUFFICES ASSUME m + 1 <= l PROVE right(batched(ops, m + 1), m + 1)
    OBVIOUS
  <2>1. m \in 0..l - 1 /\ m \in 1..Len(ops) - 1 /\ m + 1 \in 1..l /\ m <= l
    BY <1>0 DEF l
  <2>2. right(batched(ops, m), m)
    <3> HIDE DEF right
    <3> QED BY <1>4, <2>1
  <2> HIDE DEF m
  <2>3. batched(ops, m + 1) = addInstruction(batched(ops, m), ops[m + 1])
    BY <1>1, <2>1
  <2>4. planOp(P, ops[m + 1]) /\ link(P, ops[m], ops[m + 1])
    BY <1>2, <2>1 DEF chain
  <2>5. LET b == addInstruction(batched(ops, m), ops[m + 1]) IN
        queue(P, b) /\ fit(b) /\ b[1][1] = batched(ops, m)[1][1] /\ lastOp(b) = ops[m + 1]
    BY <2>2, <2>4, AddKeepsQueue
  <2> QED BY <2>2, <2>3, <2>5
<1>5. Nat \subseteq good
  <2> HIDE DEF good
  <2> QED BY <1>3, <1>4, SetInduction
<1>6. l - 1 \in Nat /\ (l - 1) + 1 = l /\ l <= l
  BY <1>0
<1>7. right(batched(ops, l), l)
  <2> HIDE DEF right
  <2>1. right(batched(ops, (l - 1) + 1), (l - 1) + 1)
    BY <1>5, <1>6
  <2> QED BY <1>6, <2>1
<1> QED BY <1>1, <1>7

-----------------------------------------------------------------------------
(* The operations of a plan *)

\* Arithmetic of the slices.
LEMMA PlanFacts ==
  ASSUME NEW P \in Plan, NEW k \in Nat, k > P.base
  PROVE  /\ P.base \in Nat /\ Len(P.cs) \in Nat \ {0} /\ P.cs \in Seq(Payload)
         /\ start(P, k) \in Nat /\ start(P, k + 1) = start(P, k) + MAX_INSTRUCTIONS_PER_PROPOSAL
         /\ inPlan(P, k) =>
              /\ planned(P, k) \in Nat \ {0} /\ start(P, k) + planned(P, k) <= Len(P.cs)
              /\ \/ planned(P, k) = MAX_INSTRUCTIONS_PER_PROPOSAL
                 \/ start(P, k) + planned(P, k) = Len(P.cs)
<1> DEFINE m == MAX_INSTRUCTIONS_PER_PROPOSAL
<1>1. P.base \in Nat /\ Len(P.cs) \in Nat \ {0} /\ P.cs \in Seq(Payload)
  BY DEF Plan
<1>2. m \in Nat \ {0}
  BY GovernanceAssumption DEF GovernanceAssumption
<1> DEFINE j == k - P.base - 1
<1>3. j \in Nat /\ (k + 1) - P.base - 1 = j + 1
  BY <1>1
<1> HIDE DEF m, j
<1>4. j * m \in Nat /\ (j + 1) * m = j * m + m
  BY <1>2, <1>3
<1>5. start(P, k) \in Nat /\ start(P, k + 1) = start(P, k) + m
  BY <1>3, <1>4 DEF start, m, j
<1>6. inPlan(P, k) => start(P, k) < Len(P.cs)
  BY DEF inPlan
<1> QED BY <1>1, <1>2, <1>5, <1>6 DEF planned, m

\* A plan starts with its first slice, and a slice that is followed by another
\* one is full.
LEMMA PlanOrder ==
  ASSUME NEW P \in Plan
  PROVE  /\ start(P, P.base + 1) = 0 /\ inPlan(P, P.base + 1)
         /\ \A k \in Nat : k > P.base + 1 /\ inPlan(P, k) =>
              /\ inPlan(P, k - 1) /\ planned(P, k - 1) = MAX_INSTRUCTIONS_PER_PROPOSAL
              /\ start(P, k) = start(P, k - 1) + planned(P, k - 1)
<1> DEFINE m == MAX_INSTRUCTIONS_PER_PROPOSAL
<1>1. P.base \in Nat /\ Len(P.cs) \in Nat \ {0}
  BY DEF Plan
<1>2. m \in Nat \ {0}
  BY GovernanceAssumption DEF GovernanceAssumption
<1>3. start(P, P.base + 1) = 0
  <2>1. (P.base + 1) - P.base - 1 = 0 /\ 0 * m = 0
    BY <1>1, <1>2
  <2> QED BY <2>1 DEF start
<1>4. inPlan(P, P.base + 1)
  BY <1>1, <1>3 DEF inPlan
<1>5. ASSUME NEW k \in Nat, k > P.base + 1, inPlan(P, k)
      PROVE  /\ inPlan(P, k - 1) /\ planned(P, k - 1) = m
             /\ start(P, k) = start(P, k - 1) + planned(P, k - 1)
  <2>1. k - 1 \in Nat /\ k - 1 > P.base /\ (k - 1) + 1 = k
    BY <1>1, <1>5
  <2>2. start(P, k - 1) \in Nat /\ start(P, (k - 1) + 1) = start(P, k - 1) + m
    BY <2>1, PlanFacts
  <2>3. start(P, k) < Len(P.cs) /\ start(P, k) = start(P, k - 1) + m
    BY <1>5, <2>1, <2>2 DEF inPlan
  <2> HIDE DEF m
  <2>4. start(P, k - 1) < Len(P.cs) /\ start(P, k - 1) + m <= Len(P.cs)
    BY <1>1, <1>2, <2>2, <2>3
  <2> QED BY <2>1, <2>3, <2>4 DEF inPlan, planned, m
<1> QED BY <1>3, <1>4, <1>5

\* A function on the first c positions is a sequence.
LEMMA FunctionIsSeq ==
  ASSUME NEW S, NEW c \in Nat, NEW s \in [1..c -> S]
  PROVE  s \in Seq(S) /\ Len(s) = c
  OBVIOUS

firstOf(s) == s[1]
lastOf(s) == s[Len(s)]

\* Two chains, one going on where the other ends, are one chain.
LEMMA JoinChain ==
  ASSUME NEW P, NEW s, NEW t, chain(P, s), chain(P, t), link(P, lastOf(s), firstOf(t))
  PROVE  /\ chain(P, s \o t) /\ firstOf(s \o t) = firstOf(s)
         /\ lastOf(s \o t) = lastOf(t)
<1> DEFINE u == s \o t
           l == Len(s)
<1>1. /\ s \in Seq(Operation) /\ t \in Seq(Operation)
      /\ l \in Nat \ {0} /\ Len(t) \in Nat \ {0}
  BY DEF chain
<1>2. /\ u \in Seq(Operation) /\ Len(u) = l + Len(t)
      /\ \A i \in 1..l + Len(t) : u[i] = IF i <= l THEN s[i] ELSE t[i - l]
  BY <1>1, ConcatProperties
<1> HIDE DEF u
<1>3. \A i \in 1..l : u[i] = s[i]
  <2> TAKE i \in 1..l
  <2>1. i \in 1..l + Len(t) /\ i <= l
    BY <1>1
  <2> QED BY <1>2, <2>1, Zenon
<1>4. \A i \in 1..Len(t) : u[l + i] = t[i]
  <2> TAKE i \in 1..Len(t)
  <2>1. l + i \in 1..l + Len(t) /\ ~(l + i <= l) /\ (l + i) - l = i
    BY <1>1
  <2>2. u[l + i] = t[(l + i) - l]
    BY <1>2, <2>1, Zenon
  <2> QED BY <2>1, <2>2
<1>5. ASSUME NEW n \in 1..Len(u) PROVE n \in 1..l \/ \E i \in 1..Len(t) : n = l + i
  <2>1. CASE n <= l
    BY <1>1, <2>1
  <2>2. CASE n > l
    <3>1. n - l \in 1..Len(t) /\ n = l + (n - l)
      BY <1>1, <1>2, <2>2
    <3> QED BY <3>1
  <2> QED BY <1>1, <1>2, <2>1, <2>2
<1>6. \A n \in 1..Len(u) : planOp(P, u[n])
  BY <1>3, <1>4, <1>5 DEF chain
<1>7. ASSUME NEW n \in 1..Len(u) - 1 PROVE link(P, u[n], u[n + 1])
  <2>0. n \in 1..Len(u)
    BY <1>1, <1>2
  <2>1. CASE n \in 1..l /\ n # l
    <3>1. n \in 1..Len(s) - 1 /\ n + 1 \in 1..l
      BY <1>1, <2>1
    <3> QED BY <1>3, <2>1, <3>1 DEF chain
  <2>2. CASE n = l
    <3>1. 1 \in 1..Len(t) /\ l \in 1..l
      BY <1>1
    <3>2. link(P, s[l], t[1])
      BY DEF firstOf, lastOf
    <3> QED BY <1>3, <1>4, <2>2, <3>1, <3>2
  <2>3. ASSUME NEW i \in 1..Len(t), n = l + i PROVE link(P, u[n], u[n + 1])
    <3>1. i \in 1..Len(t) - 1 /\ i + 1 \in 1..Len(t) /\ n + 1 = l + (i + 1)
      BY <1>1, <1>2, <2>3
    <3>2. u[n] = t[i] /\ u[n + 1] = t[i + 1]
      BY <1>4, <2>3, <3>1
    <3> QED BY <3>1, <3>2 DEF chain
  <2> QED BY <1>5, <2>0, <2>1, <2>2, <2>3
<1>8. u # <<>> /\ u[1] = s[1] /\ u[Len(u)] = t[Len(t)]
  <2>1. 1 \in 1..l /\ Len(t) \in 1..Len(t)
    BY <1>1
  <2> QED BY <1>1, <1>2, <1>3, <1>4, <2>1
<1>9. chain(P, u) /\ firstOf(u) = firstOf(s) /\ lastOf(u) = lastOf(t)
  BY <1>2, <1>6, <1>7, <1>8 DEF chain, firstOf, lastOf
<1> QED BY <1>9 DEF u

\* A single operation.
LEMMA SingleChain ==
  ASSUME NEW P, NEW op, planOp(P, op)
  PROVE  chain(P, <<op>>) /\ firstOf(<<op>>) = op /\ lastOf(<<op>>) = op
<1> DEFINE u == <<op>>
<1>1. op \in Operation
  BY DEF planOp
<1>2. u \in Seq(Operation) /\ Len(u) = 1 /\ u[1] = op /\ u # <<>>
  BY <1>1
<1> HIDE DEF u
<1>3. chain(P, u)
  BY <1>2 DEF chain
<1>4. firstOf(u) = op /\ lastOf(u) = op
  BY <1>2 DEF firstOf, lastOf
<1> QED BY <1>3, <1>4 DEF u

\* The operations that end a proposal.
LEMMA FinishChain ==
  ASSUME NEW P \in Plan, NEW k, inPlan(P, k)
  PROVE  /\ chain(P, finish(k)) /\ firstOf(finish(k)) = Op("activate", k, 0, <<>>)
         /\ lastOf(finish(k)) = Op("approve", k, 0, <<>>)
<1> DEFINE a == Op("activate", k, 0, <<>>)
           b == Op("approve", k, 0, <<>>)
<1>1. a.type = "activate" /\ b.type = "approve" /\ a.k = k /\ b.k = k
  BY DEF Op
<1>2. a \in Operation /\ b \in Operation
  <2>1. k \in Nat /\ <<>> \in Payload
    BY DEF inPlan, Payload
  <2> QED BY <2>1 DEF Op, Operation
<1> HIDE DEF a, b
<1>3. planOp(P, a) /\ planOp(P, b) /\ link(P, a, b)
  BY <1>1, <1>2 DEF planOp, link
<1> DEFINE s == <<a>>
           t == <<b>>
<1>4. chain(P, s) /\ firstOf(s) = a /\ lastOf(s) = a /\ chain(P, t) /\ firstOf(t) = b /\ lastOf(t) = b
  BY <1>3, SingleChain
<1>5. finish(k) = s \o t
  <2>1. finish(k) = <<a, b>>
    BY DEF finish, a, b
  <2>2. <<a, b>> = Append(<<a>>, b) /\ <<a>> \in Seq(Operation)
    BY <1>2
  <2>3. Append(<<a>>, b) = <<a>> \o <<b>>
    BY <1>2, <2>2, AppendIsConcat, Zenon
  <2> QED BY <2>1, <2>2, <2>3
<1> HIDE DEF s, t
<1>6. chain(P, s \o t) /\ firstOf(s \o t) = firstOf(s) /\ lastOf(s \o t) = lastOf(t)
  BY <1>3, <1>4, JoinChain
<1> QED BY <1>4, <1>5, <1>6 DEF a, b

\* The operations that add c payloads of proposal k after the first d.
addsFrom(P, k, d, c) ==
  [n \in 1..c |-> Op("add", k, d + n, P.cs[start(P, k) + (d + n)])]

\* The operations that add the payloads of proposal k after the first d, and
\* end it.
LEMMA AddsChain ==
  ASSUME NEW P \in Plan, NEW k, inPlan(P, k), NEW d \in Nat, NEW c \in Nat,
         d + c = planned(P, k)
  PROVE  LET adds == addsFrom(P, k, d, c) IN
         /\ chain(P, adds \o finish(k))
         /\ firstOf(adds \o finish(k)) = IF c = 0 THEN Op("activate", k, 0, <<>>)
                                     ELSE Op("add", k, d + 1, P.cs[start(P, k) + (d + 1)])
         /\ lastOf(adds \o finish(k)) = Op("approve", k, 0, <<>>)
         /\ c > 0 => chain(P, adds) /\ lastOf(adds).type = "add"
<1> DEFINE add(n) == Op("add", k, d + n, P.cs[start(P, k) + (d + n)])
           f == finish(k)
           adds == addsFrom(P, k, d, c)
<1> HIDE DEF adds
<1>1. /\ chain(P, f) /\ firstOf(f) = Op("activate", k, 0, <<>>)
      /\ lastOf(f) = Op("approve", k, 0, <<>>)
  BY FinishChain
<1>2. /\ k \in Nat /\ k > P.base /\ P.cs \in Seq(Payload) /\ Len(P.cs) \in Nat
      /\ start(P, k) \in Nat /\ planned(P, k) \in Nat
      /\ start(P, k) + planned(P, k) <= Len(P.cs)
  <2>1. k \in Nat /\ k > P.base
    BY DEF inPlan
  <2> QED BY <2>1, PlanFacts
<1>3. \A n \in 1..c : /\ add(n).type = "add" /\ add(n).k = k /\ add(n).i = d + n
                      /\ add(n).ix = P.cs[start(P, k) + (d + n)]
  BY DEF Op
<1>4. ASSUME NEW n \in 1..c PROVE planOp(P, add(n))
  <2>1. d + n \in 1..planned(P, k) /\ start(P, k) + (d + n) \in 1..Len(P.cs) /\ d + n \in Nat
    BY <1>2
  <2>2. P.cs[start(P, k) + (d + n)] \in Payload
    BY <1>2, <2>1
  <2>3. add(n) \in Operation
    BY <1>2, <2>1, <2>2 DEF Op, Operation
  <2> HIDE DEF add
  <2> QED BY <1>3, <2>1, <2>3 DEF planOp
<1>5. CASE c = 0
  <2>1. adds = <<>>
    BY <1>5 DEF adds, addsFrom
  <2>2. f \in Seq(Operation)
    BY <1>1 DEF chain
  <2>3. adds \o f = f
    BY <2>1, <2>2
  <2>4. ~(c > 0)
    BY <1>5
  <2> HIDE DEF f
  <2>5. /\ chain(P, adds \o f) /\ firstOf(adds \o f) = Op("activate", k, 0, <<>>)
        /\ lastOf(adds \o f) = Op("approve", k, 0, <<>>)
    BY <1>1, <2>3
  <2> QED BY <1>5, <2>4, <2>5, Zenon DEF f, adds
<1>6. CASE c # 0
  <2>1. c \in 1..c /\ 1 \in 1..c /\ c > 0
    BY <1>6
  <2>2. adds \in Seq(Operation) /\ Len(adds) = c /\ \A n \in 1..c : adds[n] = add(n)
    <3>1. \A n \in 1..c : add(n) \in Operation
      BY <1>4 DEF planOp
    <3> HIDE DEF add
    <3>2. adds = [n \in 1..c |-> add(n)]
      BY DEF add, adds, addsFrom
    <3>3. adds \in [1..c -> Operation] /\ \A n \in 1..c : adds[n] = add(n)
      BY <3>1, <3>2
    <3>4. adds \in Seq(Operation) /\ Len(adds) = c
      BY <3>3, FunctionIsSeq, Zenon
    <3> QED BY <3>3, <3>4
  <2> HIDE DEF add, f
  <2>3. ASSUME NEW n \in 1..c - 1 PROVE link(P, adds[n], adds[n + 1])
    <3>1. n \in 1..c /\ n + 1 \in 1..c /\ d + (n + 1) = (d + n) + 1
      OBVIOUS
    <3> QED BY <1>3, <2>2, <3>1 DEF link
  <2>4. chain(P, adds)
    <3>1. adds # <<>>
      BY <2>1, <2>2
    <3> QED BY <1>4, <2>2, <2>3, <3>1 DEF chain
  <2>5. link(P, lastOf(adds), firstOf(f))
    <3>1. lastOf(adds) = add(c)
      BY <2>1, <2>2 DEF lastOf
    <3>2. firstOf(f).type = "activate" /\ firstOf(f).k = k
      BY <1>1 DEF Op
    <3> QED BY <1>3, <2>1, <3>1, <3>2 DEF link
  <2>6. /\ chain(P, adds \o f) /\ firstOf(adds \o f) = firstOf(adds)
        /\ lastOf(adds \o f) = lastOf(f)
    <3>1. chain(P, f)
      BY <1>1
    <3> QED BY <2>4, <2>5, <3>1, JoinChain
  <2>7. lastOf(adds).type = "add" /\ firstOf(adds) = add(1)
    BY <1>3, <2>1, <2>2 DEF firstOf, lastOf
  <2>8. firstOf(adds \o f) = add(1) /\ lastOf(adds \o f) = Op("approve", k, 0, <<>>)
    BY <1>1, <2>6, <2>7
  <2> QED BY <1>6, <2>4, <2>6, <2>7, <2>8, Zenon DEF add, f, adds
<1> QED BY <1>5, <1>6

\* The operations that write one proposal of a plan.
LEMMA WriteChain ==
  ASSUME NEW P \in Plan, NEW j \in Nat, inPlan(P, P.base + (j + 1))
  PROVE  LET k == P.base + (j + 1)
             w == writeProposal(k, P.cs, j)
         IN  /\ chain(P, w) /\ firstOf(w).type = "create" /\ firstOf(w).k = k
             /\ lastOf(w).type = "approve" /\ lastOf(w).k = k
<1> DEFINE d == 0
<1> DEFINE m == MAX_INSTRUCTIONS_PER_PROPOSAL
           k == P.base + (j + 1)
           st == start(P, k)
           c == planned(P, k)
           cr == Op("create", k, 0, <<>>)
           adds == addsFrom(P, k, d, c)
<1>1. P.base \in Nat /\ k \in Nat /\ k > P.base
  BY DEF Plan
<1>2. /\ Len(P.cs) \in Nat \ {0} /\ st \in Nat /\ start(P, k + 1) = st + m
      /\ c \in Nat \ {0} /\ st + c <= Len(P.cs)
  BY <1>1, PlanFacts
<1>3. m \in Nat \ {0}
  BY GovernanceAssumption DEF GovernanceAssumption
<1>4. j * m = st /\ (j + 1) * m = st + m
  <2>1. k - P.base - 1 = j /\ (k + 1) - P.base - 1 = j + 1
    BY <1>1
  <2> QED BY <1>2, <2>1 DEF start
<1>5. Min({(j + 1) * m, Len(P.cs)}) = st + c
  <2> DEFINE a == st + m
             b == Len(P.cs)
             x == IF a <= b THEN a ELSE b
  <2>1. a \in Int /\ b \in Int
    BY <1>2, <1>3
  <2>2. x = st + c
    <3>1. c = IF a <= b THEN m ELSE b - st
      BY DEF planned
    <3> QED BY <1>2, <1>3, <3>1
  <2> HIDE DEF a, b
  <2>3. Min({a, b}) = x
    <3>1. x \in {a, b} /\ \A y \in {a, b} : x <= y
      BY <2>1
    <3>2. \A z \in {a, b} : (\A y \in {a, b} : z <= y) => z = x
      BY <2>1
    <3> HIDE DEF x
    <3>3. (CHOOSE z \in {a, b} : \A y \in {a, b} : z <= y) = x
      BY <3>1, <3>2
    <3> QED BY <3>3 DEF Min
  <2> QED BY <1>4, <2>2, <2>3 DEF a, b
<1>6. addAll(k, P.cs, j * m + 1, Min({(j + 1) * m, Len(P.cs)})) = adds
  <2>1. (st + c) - (st + 1) + 1 = c
    BY <1>2
  <2>2. \A n \in 1..c : (st + 1) + n - 1 = st + (d + n) /\ d + n = n
    BY <1>2
  <2>3. addAll(k, P.cs, st + 1, st + c)
          = [n \in 1..c |-> Op("add", k, n, P.cs[(st + 1) + n - 1])]
    BY <2>1 DEF addAll
  <2>4. [n \in 1..c |-> Op("add", k, n, P.cs[(st + 1) + n - 1])] = adds
    BY <2>2 DEF addsFrom
  <2> QED BY <1>4, <1>5, <2>3, <2>4
<1> HIDE DEF cr, adds
<1>7. writeProposal(k, P.cs, j) = (<<cr>> \o adds) \o finish(k)
  BY <1>6 DEF writeProposal, cr
<1> HIDE DEF k, c, st, d
<1>8. inPlan(P, k) /\ d + c = planned(P, k) /\ c \in Nat /\ c > 0 /\ d \in Nat
  BY <1>2 DEF k, c, d
<1>10. /\ chain(P, adds \o finish(k))
       /\ firstOf(adds \o finish(k)) = Op("add", k, d + 1, P.cs[start(P, k) + (d + 1)])
       /\ lastOf(adds \o finish(k)) = Op("approve", k, 0, <<>>)
       /\ chain(P, adds)
  <2>1. c # 0
    BY <1>8
  <2>2. /\ chain(P, adds \o finish(k))
        /\ firstOf(adds \o finish(k)) = IF c = 0 THEN Op("activate", k, 0, <<>>)
                                    ELSE Op("add", k, d + 1, P.cs[start(P, k) + (d + 1)])
        /\ lastOf(adds \o finish(k)) = Op("approve", k, 0, <<>>)
        /\ c > 0 => chain(P, adds) /\ lastOf(adds).type = "add"
    BY <1>8, AddsChain, Zenon DEF adds
  <2> QED BY <1>8, <2>1, <2>2, Zenon
<1>11. cr.type = "create" /\ cr.k = k /\ planOp(P, cr)
  <2>1. cr.type = "create" /\ cr.k = k
    BY DEF cr, Op
  <2>2. cr \in Operation
    <3>1. k \in Nat /\ <<>> \in Payload
      BY <1>1 DEF Payload, k
    <3> QED BY <3>1 DEF cr, Op, Operation
  <2> QED BY <1>8, <2>1, <2>2 DEF planOp
<1> DEFINE t == adds \o finish(k)
           s == <<cr>>
<1>12. chain(P, s) /\ firstOf(s) = cr /\ lastOf(s) = cr
  BY <1>11, SingleChain
<1>13. link(P, cr, firstOf(t))
  <2>1. firstOf(t).type = "add" /\ firstOf(t).k = k /\ firstOf(t).i = 1
    BY <1>10 DEF Op, d
  <2> HIDE DEF t
  <2> QED BY <1>11, <2>1 DEF link
<1>14. (s \o adds) \o finish(k) = s \o t
  <2>1. s \in Seq(Operation) /\ adds \in Seq(Operation) /\ finish(k) \in Seq(Operation)
    BY <1>8, <1>10, <1>12, FinishChain DEF chain
  <2> HIDE DEF s
  <2> QED BY <2>1, ConcatAssociative
<1>15. lastOf(t).type = "approve" /\ lastOf(t).k = k
  BY <1>10 DEF Op
<1>16. chain(P, t)
  BY <1>10
<1> HIDE DEF s, t
<1>17. chain(P, s \o t) /\ firstOf(s \o t) = firstOf(s) /\ lastOf(s \o t) = lastOf(t)
  BY <1>12, <1>13, <1>16, JoinChain
<1>18. writeProposal(k, P.cs, j) = s \o t
  BY <1>7, <1>14 DEF s
<1>19. LET w == writeProposal(k, P.cs, j)
       IN  /\ chain(P, w) /\ firstOf(w).type = "create" /\ firstOf(w).k = k
           /\ lastOf(w).type = "approve" /\ lastOf(w).k = k
  BY <1>11, <1>12, <1>15, <1>17, <1>18
<1> QED BY <1>19 DEF k


\* Everything that proposeInstructions sends for a plan.
LEMMA ProposedChain ==
  ASSUME NEW P \in Plan
  PROVE  LET max == MAX_INSTRUCTIONS_PER_PROPOSAL
             ops == FlattenSeq([j \in 1..(Len(P.cs) + max - 1) \div max |->
                                  writeProposal(P.base + j, P.cs, j - 1)])
         IN  chain(P, ops) /\ firstOf(ops).type = "create" /\ firstOf(ops).k = P.base + 1
<1> DEFINE m == MAX_INSTRUCTIONS_PER_PROPOSAL
           c == (Len(P.cs) + m - 1) \div m
           w(j) == writeProposal(P.base + j, P.cs, j - 1)
           seqs == [j \in 1..c |-> w(j)]
<1>1. P.base \in Nat /\ Len(P.cs) \in Nat \ {0} /\ m \in Nat \ {0}
  BY GovernanceAssumption DEF GovernanceAssumption, Plan
<1> HIDE DEF m
<1>2. c \in Nat /\ c * m <= Len(P.cs) + m - 1 /\ Len(P.cs) + m - 1 < c * m + m
  <2>1. Len(P.cs) + m - 1 \in Nat
    BY <1>1
  <2> DEFINE a == Len(P.cs) + m - 1
  <2> HIDE DEF a
  <2>2. a \in Nat
    BY <2>1 DEF a
  <2>3. a \div m \in Nat /\ (a \div m) * m <= a /\ a < (a \div m) * m + m
    BY <1>1, <2>2
  <2> QED BY <2>3 DEF a
<1> HIDE DEF c
<1>3. c # 0
  <2>1. c = 0 => c * m = 0
    BY <1>1
  <2> QED BY <1>1, <1>2, <2>1
<1>4. ASSUME NEW j \in 1..c
      PROVE  /\ chain(P, w(j)) /\ firstOf(w(j)).type = "create" /\ firstOf(w(j)).k = P.base + j
             /\ lastOf(w(j)).type = "approve" /\ lastOf(w(j)).k = P.base + j
  <2> DEFINE i == j - 1
  <2>1. i \in Nat /\ i + 1 = j /\ (P.base + j) - P.base - 1 = i /\ i < c
    BY <1>1, <1>2
  <2> HIDE DEF i
  <2>2. i * m \in Nat /\ i * m + m <= c * m
    BY <1>1, <1>2, <2>1
  <2>3. i * m < Len(P.cs)
    BY <1>1, <1>2, <2>2
  <2>4. inPlan(P, P.base + (i + 1))
    <3>1. start(P, P.base + j) = i * m
      BY <2>1 DEF start, m
    <3>2. P.base + j \in Nat /\ P.base + j > P.base
      BY <1>1
    <3> QED BY <2>1, <2>3, <3>1, <3>2 DEF inPlan
  <2>5. LET k == P.base + (i + 1)
            v == writeProposal(k, P.cs, i)
        IN  /\ chain(P, v) /\ firstOf(v).type = "create" /\ firstOf(v).k = k
            /\ lastOf(v).type = "approve" /\ lastOf(v).k = k
    BY <2>1, <2>4, WriteChain
  <2>6. w(j) = writeProposal(P.base + (i + 1), P.cs, i)
    BY <2>1 DEF i
  <2> HIDE DEF w
  <2> QED BY <2>1, <2>5, <2>6
<1> HIDE DEF w
<1>5. Len(seqs) = c /\ \A j \in 1..c : seqs[j] = w(j)
  <2>1. seqs \in [1..c -> {w(j) : j \in 1..c}] /\ \A j \in 1..c : seqs[j] = w(j)
    OBVIOUS
  <2> HIDE DEF seqs
  <2> QED BY <1>2, <2>1, FunctionIsSeq
<1> HIDE DEF seqs
<1>6. /\ FlattenSeq(seqs) = flat(seqs)[c] /\ flat(seqs)[1] = seqs[1]
      /\ \A i \in 1..c - 1 : flat(seqs)[i + 1] = flat(seqs)[i] \o seqs[i + 1]
  <2>1. Len(seqs) \in Nat /\ Len(seqs) # 0 /\ Len(seqs) > 0
    BY <1>2, <1>3, <1>5
  <2> QED BY <1>5, <2>1, FlatSteps
<1> DEFINE right(u, n) ==
             /\ chain(P, u) /\ firstOf(u).type = "create" /\ firstOf(u).k = P.base + 1
             /\ lastOf(u).type = "approve" /\ lastOf(u).k = P.base + n
           good == {n \in Nat : n + 1 <= c => right(flat(seqs)[n + 1], n + 1)}
<1>7. 0 \in good
  <2>1. 0 + 1 = 1 /\ 1 \in 1..c
    BY <1>2, <1>3
  <2>2. right(flat(seqs)[1], 1)
    BY <1>4, <1>5, <1>6, <2>1
  <2> HIDE DEF right
  <2> QED BY <2>1, <2>2
<1>8. ASSUME NEW n \in Nat, n \in good PROVE n + 1 \in good
  <2> DEFINE i == n + 1
  <2> SUFFICES ASSUME i + 1 <= c PROVE right(flat(seqs)[i + 1], i + 1)
    OBVIOUS
  <2>1. i \in 1..c - 1 /\ i + 1 \in 1..c /\ i <= c /\ P.base + (i + 1) = (P.base + i) + 1
    BY <1>1, <1>2
  <2>2. right(flat(seqs)[i], i)
    <3> HIDE DEF right
    <3> QED BY <1>8, <2>1
  <2> HIDE DEF i
  <2> DEFINE s == flat(seqs)[i]
             t == w(i + 1)
  <2>3. flat(seqs)[i + 1] = s \o t
    BY <1>5, <1>6, <2>1
  <2>4. /\ chain(P, t) /\ firstOf(t).type = "create" /\ firstOf(t).k = P.base + (i + 1)
        /\ lastOf(t).type = "approve" /\ lastOf(t).k = P.base + (i + 1)
    BY <1>4, <2>1
  <2>5. chain(P, s) /\ link(P, lastOf(s), firstOf(t))
    BY <2>1, <2>2, <2>4 DEF link
  <2>6. firstOf(s).type = "create" /\ firstOf(s).k = P.base + 1
    BY <2>2
  <2> HIDE DEF s, t
  <2>7. chain(P, s \o t) /\ firstOf(s \o t) = firstOf(s) /\ lastOf(s \o t) = lastOf(t)
    BY <2>4, <2>5, JoinChain
  <2> QED BY <2>3, <2>4, <2>6, <2>7
<1>9. Nat \subseteq good
  <2> HIDE DEF good
  <2> QED BY <1>7, <1>8, SetInduction
<1>10. right(flat(seqs)[c], c)
  <2>1. c - 1 \in Nat /\ (c - 1) + 1 = c /\ c <= c
    BY <1>2, <1>3
  <2> HIDE DEF right
  <2>2. right(flat(seqs)[(c - 1) + 1], (c - 1) + 1)
    BY <1>9, <2>1
  <2> QED BY <2>1, <2>2
<1>11. chain(P, FlattenSeq(seqs)) /\ firstOf(FlattenSeq(seqs)).type = "create"
       /\ firstOf(FlattenSeq(seqs)).k = P.base + 1
  BY <1>6, <1>10
<1> QED BY <1>11 DEF seqs, w, c, m

-----------------------------------------------------------------------------
(* The multisig program *)

\* The proposals qs came from ps: none is lost, changes hands or shrinks.
grows(ps, qs) ==
  /\ Len(qs) >= Len(ps)
  /\ \A k \in 1..Len(ps) :
       qs[k].owner = ps[k].owner /\ Len(qs[k].ixs) >= Len(ps[k].ixs)

\* The fields of a proposal.
LEMMA ProposalTyped ==
  ASSUME NEW ps \in Seq(Proposal), NEW k \in 1..Len(ps)
  PROVE  /\ ps[k] \in Proposal /\ ps[k].ixs \in Seq(Payload) /\ Len(ps[k].ixs) \in Nat
         /\ ps[k].executed \in Nat /\ ps[k].owner \in Req /\ ps[k].status \in Status
<1>1. ps[k] \in Proposal
  BY ElementOfSeq
<1> DEFINE p == ps[k]
<1> HIDE DEF p
<1>2. p \in Proposal
  BY <1>1 DEF p
<1>3. /\ p.ixs \in Seq(Payload) /\ p.executed \in Nat /\ p.owner \in Req
      /\ p.status \in Status
  BY <1>2 DEF Proposal
<1> QED BY <1>1, <1>3 DEF p

\* Where the proposals are far enough, they stay far enough.
LEMMA CompleteGrows ==
  ASSUME NEW pl \in [Req -> Plan], NEW A \in SUBSET Req, NEW ps, NEW qs,
         ps \in Seq(Proposal), Sound(qs, pl, A), grows(ps, qs), NEW r, NEW k,
         complete(ps, pl[r], r, k)
  PROVE  complete(qs, pl[r], r, k)
<1>1. k \in 1..Len(ps) /\ ps[k].owner = r /\ Len(ps[k].ixs) = planned(pl[r], k)
  BY DEF complete, begun
<1>2. /\ k \in 1..Len(qs) /\ qs[k].owner = r /\ Len(qs[k].ixs) >= planned(pl[r], k)
      /\ qs \in Seq(Proposal)
  BY <1>1 DEF grows, Sound
<1>3. r \in A /\ slice(qs[k], pl[r], k)
  BY <1>2 DEF Sound
<1>4. Len(qs[k].ixs) <= planned(pl[r], k)
  BY <1>3 DEF slice
<1>5. Len(qs[k].ixs) \in Nat /\ planned(pl[r], k) \in Nat
  BY <1>1, <1>2, ProposalTyped
<1>6. Len(qs[k].ixs) = planned(pl[r], k)
  BY <1>2, <1>4, <1>5
<1> QED BY <1>2, <1>6 DEF complete, begun

\* Operations that are due stay due.
LEMMA DueGrows ==
  ASSUME NEW pl \in [Req -> Plan], NEW A \in SUBSET Req, NEW ps, NEW qs,
         ps \in Seq(Proposal), Sound(qs, pl, A), grows(ps, qs), NEW r, NEW op,
         planOp(pl[r], op), due(ps, pl[r], r, op)
  PROVE  due(qs, pl[r], r, op)
<1>1. CASE op.type = "create"
  BY <1>1, CompleteGrows DEF due
<1>2. CASE op.type = "add"
  <2>1. op.k \in 1..Len(ps) /\ ps[op.k].owner = r /\ Len(ps[op.k].ixs) >= op.i - 1
    BY <1>2 DEF due, begun
  <2>2. /\ op.k \in 1..Len(qs) /\ qs[op.k].owner = r /\ qs \in Seq(Proposal)
        /\ Len(qs[op.k].ixs) >= Len(ps[op.k].ixs)
    BY <2>1 DEF grows, Sound
  <2>3. Len(qs[op.k].ixs) \in Nat /\ Len(ps[op.k].ixs) \in Nat /\ op.i \in Nat
    <3>1. Len(qs[op.k].ixs) \in Nat /\ Len(ps[op.k].ixs) \in Nat
      BY <2>1, <2>2, ProposalTyped
    <3> QED BY <3>1 DEF planOp, Operation
  <2>4. Len(qs[op.k].ixs) >= op.i - 1
    BY <2>1, <2>2, <2>3
  <2> QED BY <1>2, <2>2, <2>4 DEF due, begun
<1>3. CASE op.type # "create" /\ op.type # "add"
  BY <1>3, CompleteGrows DEF due
<1> QED BY <1>1, <1>2, <1>3

\* A proposal that is changed, and still holds a slice of its owner's plan.
LEMMA UpdateSound ==
  ASSUME NEW pl \in [Req -> Plan], NEW A \in SUBSET Req, NEW ps, Sound(ps, pl, A),
         NEW k \in 1..Len(ps), NEW p \in Proposal, p.owner = ps[k].owner,
         Len(p.ixs) >= Len(ps[k].ixs), slice(p, pl[p.owner], k)
  PROVE  Sound([ps EXCEPT ![k] = p], pl, A) /\ grows(ps, [ps EXCEPT ![k] = p])
<1> DEFINE qs == [ps EXCEPT ![k] = p]
<1>1. ps \in Seq(Proposal)
  BY DEF Sound
<1>2. /\ qs \in Seq(Proposal) /\ Len(qs) = Len(ps) /\ qs[k] = p
      /\ \A j \in 1..Len(ps) : j # k => qs[j] = ps[j]
  BY <1>1
<1> HIDE DEF qs
<1>3. \A j \in 1..Len(ps) :
        /\ qs[j].owner = ps[j].owner
        /\ Len(ps[j].ixs) \in Nat /\ Len(qs[j].ixs) \in Nat
        /\ Len(qs[j].ixs) >= Len(ps[j].ixs)
  <2> TAKE j \in 1..Len(ps)
  <2>2. Len(ps[j].ixs) \in Nat /\ Len(qs[j].ixs) \in Nat
    BY <1>1, <1>2, ProposalTyped
  <2>3. CASE j = k
    BY <1>2, <2>2, <2>3
  <2>4. CASE j # k
    BY <1>2, <2>2, <2>4
  <2> QED BY <2>3, <2>4
<1>4. grows(ps, qs)
  <2>1. Len(ps) \in Nat
    BY <1>1
  <2> QED BY <1>2, <1>3, <2>1 DEF grows
<1>5. \A j \in 1..Len(ps) :
        ps[j].owner \in A /\ slice(qs[j], pl[ps[j].owner], j)
          /\ follows(ps, pl[ps[j].owner], ps[j].owner, j)
  BY <1>2 DEF Sound
<1>6. ASSUME NEW r, NEW j, complete(ps, pl[r], r, j)
      PROVE  complete(qs, pl[r], r, j)
  <2>1. j \in 1..Len(ps) /\ ps[j].owner = r /\ Len(ps[j].ixs) = planned(pl[r], j)
    BY <1>6 DEF complete, begun
  <2>2. Len(qs[j].ixs) <= planned(pl[r], j)
    BY <1>5, <2>1 DEF slice
  <2>3. Len(qs[j].ixs) = planned(pl[r], j)
    BY <1>3, <2>1, <2>2
  <2> QED BY <1>2, <1>3, <2>1, <2>3 DEF complete, begun
<1>7. \A j \in 1..Len(ps) : follows(qs, pl[ps[j].owner], ps[j].owner, j)
  BY <1>5, <1>6 DEF follows
<1>8. Sound(qs, pl, A)
  BY <1>2, <1>3, <1>5, <1>7 DEF Sound
<1> QED BY <1>4, <1>8 DEF qs

\* A new proposal that is the next of the plan of its request.
LEMMA CreateSound ==
  ASSUME NEW pl \in [Req -> Plan], NEW A \in SUBSET Req, NEW ps, Sound(ps, pl, A),
         NEW r \in A, inPlan(pl[r], Len(ps) + 1), follows(ps, pl[r], r, Len(ps) + 1)
  PROVE  LET qs == Append(ps, [owner |-> r, status |-> "draft", ixs |-> <<>>,
                               executed |-> 0, cancelled |-> FALSE])
         IN  /\ Sound(qs, pl, A) /\ grows(ps, qs)
             /\ begun(qs, r, Len(ps) + 1) /\ Len(qs[Len(ps) + 1].ixs) = 0
<1> DEFINE p == [owner |-> r, status |-> "draft", ixs |-> <<>>,
                 executed |-> 0, cancelled |-> FALSE]
           l == Len(ps)
           qs == Append(ps, p)
<1>1. ps \in Seq(Proposal) /\ l \in Nat
  BY DEF Sound
<1>2. p \in Proposal /\ p.owner = r /\ Len(p.ixs) = 0 /\ p.status = "draft" /\ p.executed = 0
  <2>1. <<>> \in Seq(Payload) /\ r \in Req /\ "draft" \in Status
    BY DEF Status
  <2> QED BY <2>1 DEF Proposal
<1> HIDE DEF p
<1>3. /\ qs \in Seq(Proposal) /\ Len(qs) = l + 1 /\ qs[l + 1] = p
      /\ \A k \in 1..l : qs[k] = ps[k]
  BY <1>1, <1>2
<1> HIDE DEF qs
<1>4. grows(ps, qs)
  <2>1. \A k \in 1..l : Len(ps[k].ixs) \in Nat
    BY <1>1, ProposalTyped
  <2> QED BY <1>1, <1>3, <2>1 DEF grows
<1>5. \A q, k : complete(ps, pl[q], q, k) => complete(qs, pl[q], q, k)
  <2>1. \A k \in 1..l : k \in 1..l + 1
    BY <1>1
  <2> QED BY <1>3, <2>1 DEF complete, begun
<1>6. slice(p, pl[r], l + 1)
  <2>1. planned(pl[r], l + 1) \in Nat
    <3>1. l + 1 \in Nat /\ l + 1 > pl[r].base /\ pl[r] \in Plan
      BY DEF inPlan
    <3> QED BY <3>1, PlanFacts
  <2> QED BY <1>2, <2>1 DEF slice
<1>7. ASSUME NEW k \in 1..l + 1
      PROVE  LET q == qs[k].owner IN
             q \in A /\ slice(qs[k], pl[q], k) /\ follows(qs, pl[q], q, k)
  <2>1. CASE k = l + 1
    <3>1. qs[k] = p /\ qs[k].owner = r
      BY <1>2, <1>3, <2>1
    <3>2. follows(qs, pl[r], r, k)
      BY <1>5, <2>1 DEF follows
    <3> QED BY <1>6, <2>1, <3>1, <3>2
  <2>2. CASE k # l + 1
    <3>1. k \in 1..l
      BY <1>1, <2>2
    <3>2. LET q == ps[k].owner IN
          q \in A /\ slice(ps[k], pl[q], k) /\ follows(ps, pl[q], q, k)
      BY <3>1 DEF Sound
    <3>3. qs[k] = ps[k]
      BY <1>3, <3>1
    <3> QED BY <1>5, <3>2, <3>3 DEF follows
  <2> QED BY <2>1, <2>2
<1>8. Sound(qs, pl, A)
  BY <1>3, <1>7 DEF Sound
<1>9. begun(qs, r, l + 1) /\ Len(qs[l + 1].ixs) = 0
  BY <1>1, <1>2, <1>3 DEF begun
<1> QED BY <1>4, <1>8, <1>9 DEF qs, p


\* An operation of a plan that is due and accepted keeps the proposals sound,
\* and brings them to where the next operation of the plan is due.
LEMMA ApplySound ==
  ASSUME NEW pl \in [Req -> Plan], NEW A \in SUBSET Req, NEW ps, Sound(ps, pl, A),
         NEW r \in A, NEW op, planOp(pl[r], op), due(ps, pl[r], r, op), accepts(ps, op)
  PROVE  LET qs == apply(ps, op, r) IN
         /\ Sound(qs, pl, A) /\ grows(ps, qs)
         /\ \A b : link(pl[r], op, b) => due(qs, pl[r], r, b)
<1> DEFINE P == pl[r]
           k == op.k
           qs == apply(ps, op, r)
           p == ps[k]
<1>0. /\ P \in Plan /\ ps \in Seq(Proposal) /\ Len(ps) \in Nat /\ k \in Nat /\ op.i \in Nat
      /\ op.type \in {"create", "add", "activate", "approve"} /\ op.ix \in Payload
  BY DEF Sound, planOp, Operation
<1>1. CASE op.type = "create"
  <2>1. k = Len(ps) + 1 /\ inPlan(P, k) /\ follows(ps, P, r, k)
    BY <1>1 DEF accepts, planOp, due, follows
  <2>2. qs = Append(ps, [owner |-> r, status |-> "draft", ixs |-> <<>>,
                         executed |-> 0, cancelled |-> FALSE])
    BY <1>1 DEF apply
  <2>3. Sound(qs, pl, A) /\ grows(ps, qs) /\ begun(qs, r, k) /\ Len(qs[k].ixs) = 0
    <3> DEFINE n == Len(ps) + 1
               new == Append(ps, [owner |-> r, status |-> "draft", ixs |-> <<>>,
                                  executed |-> 0, cancelled |-> FALSE])
    <3>1. inPlan(pl[r], Len(ps) + 1) /\ follows(ps, pl[r], r, Len(ps) + 1)
      BY <2>1
    <3>2. Sound(new, pl, A) /\ grows(ps, new) /\ begun(new, r, n) /\ Len(new[n].ixs) = 0
      BY <3>1, CreateSound, Zenon
    <3> HIDE DEF new
    <3>3. qs = new /\ k = n
      BY <2>1, <2>2 DEF new
    <3> HIDE DEF qs, k, n
    <3> QED BY <3>2, <3>3
  <2> HIDE DEF qs, k
  <2>4. ASSUME NEW b, link(P, op, b) PROVE due(qs, P, r, b)
    <3>1. b.type = "add" /\ b.k = k /\ b.i = 1
      BY <1>1, <2>4 DEF link, k
    <3> QED BY <2>3, <3>1 DEF due
  <2> QED BY <2>3, <2>4 DEF qs
<1>2. ASSUME op.type # "create"
      PROVE  /\ k \in 1..Len(ps) /\ p \in Proposal /\ p.ixs \in Seq(Payload)
             /\ Len(p.ixs) \in Nat /\ p.executed \in Nat
             /\ p.owner = r /\ slice(p, P, k)
             /\ ps = [ps EXCEPT ![k] = p]
  <2>1. k \in 1..Len(ps)
    BY <1>2 DEF accepts
  <2>2. p.owner = r
    BY <1>0, <1>2 DEF due, begun, complete
  <2>3. slice(p, P, k)
    BY <2>1, <2>2 DEF Sound
  <2>4. ps = [ps EXCEPT ![k] = p]
    BY <1>0, <2>1
  <2> QED BY <1>0, <2>1, <2>2, <2>3, <2>4, ProposalTyped
<1>3. CASE op.type = "add"
  <2> DEFINE q == [p EXCEPT !.ixs = Append(p.ixs, op.ix)]
             l == Len(p.ixs)
  <2>0. op.type # "create"
    BY <1>3
  <2>1. /\ k \in 1..Len(ps) /\ p \in Proposal /\ p.ixs \in Seq(Payload) /\ l \in Nat
        /\ p.owner = r /\ slice(p, P, k)
    BY <1>2, <2>0
  <2>2. p.status = "draft" /\ op.i = l + 1
    BY <1>3 DEF accepts
  <2>3. op.i \in 1..planned(P, k) /\ op.ix = P.cs[start(P, k) + op.i]
    BY <1>3 DEF planOp
  <2>4. qs = [ps EXCEPT ![k] = q]
    <3>1. qs = [ps EXCEPT ![op.k].ixs = Append(@, op.ix)]
      BY <1>3 DEF apply
    <3> QED BY <3>1
  <2> HIDE DEF qs, p
  <2>5. /\ q \in Proposal /\ q.owner = p.owner /\ q.status = p.status
        /\ q.executed = p.executed /\ q.ixs = Append(p.ixs, op.ix)
    <3>1. Append(p.ixs, op.ix) \in Seq(Payload)
      BY <1>0, <2>1
    <3> DEFINE ixs == Append(p.ixs, op.ix)
    <3> HIDE DEF ixs
    <3>2. [p EXCEPT !.ixs = ixs] \in Proposal
      BY <2>1, <3>1 DEF Proposal, ixs
    <3>3. /\ [p EXCEPT !.ixs = ixs].owner = p.owner /\ [p EXCEPT !.ixs = ixs].status = p.status
          /\ [p EXCEPT !.ixs = ixs].executed = p.executed /\ [p EXCEPT !.ixs = ixs].ixs = ixs
      BY <2>1 DEF Proposal
    <3> QED BY <3>2, <3>3 DEF ixs
  <2>6. /\ Len(q.ixs) = l + 1 /\ q.ixs[l + 1] = op.ix /\ \A i \in 1..l : q.ixs[i] = p.ixs[i]
    BY <1>0, <2>1, <2>5
  <2> HIDE DEF q
  <2>7. slice(q, P, k)
    <3>1. \A i \in 1..l + 1 : i \in 1..l \/ i = l + 1
      BY <2>1
    <3>2. \A i \in 1..Len(q.ixs) : q.ixs[i] = P.cs[start(P, k) + i]
      BY <2>1, <2>2, <2>3, <2>6, <3>1 DEF slice
    <3>3. q.status = "draft" /\ q.executed = 0 /\ l + 1 >= 0 /\ Len(q.ixs) <= planned(P, k)
      <4>1. q.status = "draft" /\ q.executed = 0
        BY <2>1, <2>2, <2>5 DEF slice
      <4>2. planned(P, k) \in Int
        <5>1. inPlan(P, k) /\ k > P.base
          BY <2>1 DEF slice, inPlan
        <5> QED BY <1>0, <5>1, PlanFacts
      <4>3. l + 1 <= planned(P, k)
        BY <2>1, <2>2, <2>3, <4>2
      <4> QED BY <2>1, <2>6, <4>1, <4>3
    <3> QED BY <2>1, <2>6, <3>2, <3>3 DEF slice
  <2>8. Sound(qs, pl, A) /\ grows(ps, qs)
    <3>1. q.owner = ps[k].owner /\ q.owner = r /\ Len(q.ixs) >= Len(ps[k].ixs)
      BY <2>1, <2>5, <2>6 DEF p
    <3> HIDE DEF k, P
    <3>2. slice(q, pl[q.owner], k)
      BY <2>7, <3>1 DEF P
    <3> QED BY <2>1, <2>4, <2>5, <3>1, <3>2, UpdateSound
  <2>9. begun(qs, r, k) /\ Len(qs[k].ixs) = op.i
    <3>1. qs[k] = q /\ Len(qs) = Len(ps)
      BY <1>0, <2>1, <2>4
    <3> QED BY <2>1, <2>2, <2>5, <2>6, <3>1 DEF begun
  <2>10. ASSUME NEW b, link(P, op, b) PROVE due(qs, P, r, b)
    <3>1. \/ b.type = "add" /\ b.k = k /\ b.i = op.i + 1
          \/ b.type = "activate" /\ b.k = k /\ op.i = planned(P, k)
      BY <1>3, <2>10 DEF link
    <3>2. Len(qs[k].ixs) >= (op.i + 1) - 1
      BY <1>0, <2>9
    <3> QED BY <2>9, <3>1, <3>2 DEF due, complete
  <2> QED BY <2>8, <2>10 DEF qs
<1>4. CASE op.type = "activate"
  <2> DEFINE q == [p EXCEPT !.status = "active"]
  <2>0. op.type # "create"
    BY <1>4
  <2>1. /\ k \in 1..Len(ps) /\ p \in Proposal /\ Len(p.ixs) \in Nat
        /\ p.owner = r /\ slice(p, P, k)
    BY <1>2, <2>0
  <2>2. p.status = "draft" /\ complete(ps, P, r, k) /\ Len(p.ixs) = planned(P, k)
    BY <1>4 DEF accepts, due, complete
  <2>4. qs = [ps EXCEPT ![k] = q]
    <3>1. qs = [ps EXCEPT ![op.k].status = "active"]
      BY <1>4 DEF apply
    <3> QED BY <3>1
  <2> HIDE DEF qs, p
  <2>5. /\ q \in Proposal /\ q.owner = p.owner /\ q.status = "active"
        /\ q.executed = p.executed /\ q.ixs = p.ixs
    BY <2>1 DEF Proposal, Status
  <2> HIDE DEF q
  <2>7. slice(q, P, k)
    <3>1. p.executed = 0
      BY <2>1, <2>2 DEF slice
    <3> QED BY <2>1, <2>2, <2>5, <3>1 DEF slice
  <2>8. Sound(qs, pl, A) /\ grows(ps, qs)
    <3>1. q.owner = ps[k].owner /\ q.owner = r /\ Len(q.ixs) >= Len(ps[k].ixs)
      BY <2>1, <2>5 DEF p
    <3> HIDE DEF k, P
    <3>2. slice(q, pl[q.owner], k)
      BY <2>7, <3>1 DEF P
    <3> QED BY <2>1, <2>4, <2>5, <3>1, <3>2, UpdateSound
  <2>9. complete(qs, P, r, k)
    BY <1>0, <2>2, <2>8, CompleteGrows
  <2>10. ASSUME NEW b, link(P, op, b) PROVE due(qs, P, r, b)
    <3>1. b.type = "approve" /\ b.k = k
      BY <1>4, <2>10 DEF link
    <3> QED BY <2>9, <3>1 DEF due
  <2> QED BY <2>8, <2>10 DEF qs
<1>5. CASE op.type = "approve"
  <2>1. qs = ps
    BY <1>5 DEF apply
  <2>2. complete(ps, P, r, k)
    BY <1>5 DEF due
  <2>3. grows(ps, ps)
    <3>1. \A j \in 1..Len(ps) : Len(ps[j].ixs) \in Nat
      BY <1>0, ProposalTyped
    <3> QED BY <1>0, <3>1 DEF grows
  <2>4. ASSUME NEW b, link(P, op, b) PROVE due(ps, P, r, b)
    <3>1. b.type = "create" /\ b.k = k + 1 /\ b.k - 1 = k
      BY <1>0, <1>5, <2>4 DEF link
    <3> QED BY <2>2, <3>1 DEF due
  <2> QED BY <2>1, <2>3, <2>4
<1> QED BY <1>0, <1>1, <1>3, <1>4, <1>5

\* Executing an instruction keeps the proposals sound.
LEMMA ExecuteSound ==
  ASSUME NEW pl \in [Req -> Plan], NEW A \in SUBSET Req, NEW ps, Sound(ps, pl, A),
         NEW r, NEW op, op.type = "execute", accepts(ps, op)
  PROVE  Sound(apply(ps, op, r), pl, A) /\ grows(ps, apply(ps, op, r))
<1> DEFINE k == op.k
           p == ps[k]
           last == op.i = Len(p.ixs)
           q == [p EXCEPT !.executed = op.i, !.status = IF last THEN "executed" ELSE @]
           qs == apply(ps, op, r)
<1>1. k \in 1..Len(ps) /\ p.status = "ready" /\ op.i = p.executed + 1
  BY DEF accepts
<1>2. /\ ps \in Seq(Proposal) /\ p \in Proposal /\ Len(p.ixs) \in Nat
      /\ p.executed \in Nat /\ slice(p, pl[p.owner], k)
  BY <1>1, ProposalTyped DEF Sound
<1>3. qs = [ps EXCEPT ![k] = q]
  <2>1. qs = [ps EXCEPT ![op.k].executed = op.i,
                        ![op.k].status = IF op.i = Len(ps[op.k].ixs) THEN "executed" ELSE @]
    BY DEF apply
  <2> QED BY <1>1, <1>2, <2>1
<1> HIDE DEF p, qs
<1>4. /\ q \in Proposal /\ q.owner = p.owner /\ q.executed = op.i /\ q.ixs = p.ixs
      /\ q.status = IF last THEN "executed" ELSE "ready"
  <2> DEFINE st == IF last THEN "executed" ELSE "ready"
             i == op.i
  <2>1. st \in Status /\ i \in Nat
    BY <1>1, <1>2 DEF Status
  <2>2. q = [p EXCEPT !.executed = i, !.status = st]
    BY <1>1, <1>2 DEF Proposal
  <2> HIDE DEF last, st, q, i
  <2>3. /\ q \in Proposal /\ q.owner = p.owner /\ q.executed = i /\ q.ixs = p.ixs
        /\ q.status = st
    BY <1>2, <2>1, <2>2 DEF Proposal
  <2> QED BY <2>3 DEF st, i
<1> HIDE DEF q
<1>5. slice(q, pl[q.owner], k)
  <2>1. p.executed < Len(p.ixs) /\ Len(p.ixs) = planned(pl[p.owner], k)
    BY <1>1, <1>2 DEF slice
  <2>2. op.i <= Len(p.ixs) /\ (~last => op.i < Len(p.ixs))
    BY <1>1, <1>2, <2>1
  <2> QED BY <1>2, <1>4, <2>1, <2>2 DEF slice
<1>6. q.owner = ps[k].owner /\ Len(q.ixs) >= Len(ps[k].ixs)
  BY <1>2, <1>4 DEF p
<1>7. Sound([ps EXCEPT ![k] = q], pl, A) /\ grows(ps, [ps EXCEPT ![k] = q])
  <2> HIDE DEF k
  <2> QED BY <1>1, <1>4, <1>5, <1>6, UpdateSound
<1> QED BY <1>3, <1>7 DEF qs


\* One operation of a transaction: the program goes on while it accepts.
runStep(s, op, r) ==
  IF s.ok /\ accepts(s.ps, op) THEN [ok |-> TRUE, ps |-> apply(s.ps, op, r)]
  ELSE [s EXCEPT !.ok = FALSE]

isRunning(g, ps, ops, r, D) ==
  g = [s \in D |-> IF s = {} THEN [ok |-> TRUE, ps |-> ps]
                   ELSE runStep(g[s \ {Max(s)}], ops[Max(s)], r)]
running(ps, ops, r) == CHOOSE g : isRunning(g, ps, ops, r, SUBSET DOMAIN ops)

\* The function with which the fold over a transaction computes exists.
LEMMA RunningExists ==
  ASSUME NEW ps, NEW ops, NEW r, NEW n \in Nat
  PROVE  \E g : isRunning(g, ps, ops, r, SUBSET (1..n))
<1> DEFINE value(g, s) == IF s = {} THEN [ok |-> TRUE, ps |-> ps]
                          ELSE runStep(g[s \ {Max(s)}], ops[Max(s)], r)
           good == {m \in Nat : \E g : isRunning(g, ps, ops, r, SUBSET (1..m))}
<1>1. 0 \in good
  <2> DEFINE g == [s \in SUBSET (1..0) |-> [ok |-> TRUE, ps |-> ps]]
  <2>1. \A s \in SUBSET (1..0) : s = {}
    OBVIOUS
  <2>2. g = [s \in SUBSET (1..0) |-> value(g, s)]
    BY <2>1
  <2> QED BY <2>2 DEF isRunning
<1>2. ASSUME NEW m \in Nat, m \in good PROVE m + 1 \in good
  <2>1. PICK g : isRunning(g, ps, ops, r, SUBSET (1..m))
    BY <1>2
  <2> DEFINE h == [s \in SUBSET (1..(m + 1)) |-> value(g, s)]
  <2>2. \A s \in SUBSET (1..m) : h[s] = g[s]
    <3> TAKE s \in SUBSET (1..m)
    <3>1. g[s] = value(g, s)
      BY <2>1 DEF isRunning
    <3>2. s \in SUBSET (1..(m + 1))
      OBVIOUS
    <3> QED BY <3>1, <3>2
  <2>3. \A s \in SUBSET (1..(m + 1)) : s # {} => s \ {Max(s)} \in SUBSET (1..m)
    BY WithoutLast
  <2>4. \A s \in SUBSET (1..(m + 1)) : value(g, s) = value(h, s)
    BY <2>2, <2>3
  <2>5. h = [s \in SUBSET (1..(m + 1)) |-> value(h, s)]
    BY <2>4
  <2>6. isRunning(h, ps, ops, r, SUBSET (1..(m + 1)))
    BY <2>5 DEF isRunning
  <2> HIDE DEF h
  <2> QED BY <2>6
<1>3. Nat \subseteq good
  <2> HIDE DEF good
  <2> QED BY <1>1, <1>2, SetInduction
<1> QED BY <1>3

\* The result after the first n operations.
ran(ops, r, n) == running(proposals, ops, r)[1..n]

\* A transaction is run one operation at a time.
LEMMA RunSteps ==
  ASSUME NEW X, NEW ops \in Seq(X), NEW r
  PROVE  /\ run(ops, r) = ran(ops, r, Len(ops))
         /\ ran(ops, r, 0) = [ok |-> TRUE, ps |-> proposals]
         /\ \A n \in 0..Len(ops) - 1 :
              ran(ops, r, n + 1) = runStep(ran(ops, r, n), ops[n + 1], r)
<1> DEFINE g == running(proposals, ops, r)
<1>0. DOMAIN ops = 1..Len(ops) /\ Len(ops) \in Nat
  OBVIOUS
<1>1. run(ops, r) = g[DOMAIN ops]
  BY DEF run, FoldLeft, MapThenFoldSet, running, isRunning, runStep
<1>2. isRunning(g, proposals, ops, r, SUBSET (1..Len(ops)))
  BY <1>0, RunningExists DEF running
<1> HIDE DEF g
<1>3. \A s \in SUBSET (1..Len(ops)) :
        g[s] = IF s = {} THEN [ok |-> TRUE, ps |-> proposals]
               ELSE runStep(g[s \ {Max(s)}], ops[Max(s)], r)
  BY <1>2 DEF isRunning
<1>4. g[1..0] = [ok |-> TRUE, ps |-> proposals]
  <2>1. 1..0 = {} /\ 1..0 \in SUBSET (1..Len(ops))
    OBVIOUS
  <2> QED BY <1>3, <2>1
<1>5. ASSUME NEW n \in 0..Len(ops) - 1
      PROVE  g[1..(n + 1)] = runStep(g[1..n], ops[n + 1], r)
  <2>1. n \in Nat /\ 1..(n + 1) \in SUBSET (1..Len(ops))
    BY <1>0
  <2>2. 1..(n + 1) # {} /\ Max(1..(n + 1)) = n + 1 /\ (1..(n + 1)) \ {n + 1} = 1..n
    BY <2>1, WithoutLast
  <2>3. g[1..(n + 1)] = runStep(g[(1..(n + 1)) \ {Max(1..(n + 1))}],
                                ops[Max(1..(n + 1))], r)
    BY <1>3, <2>1, <2>2, Zenon
  <2> QED BY <2>2, <2>3
<1> QED BY <1>0, <1>1, <1>4, <1>5 DEF ran, g

\* Growing twice is growing.
LEMMA GrowsTransitive ==
  ASSUME NEW a \in Seq(Proposal), NEW b \in Seq(Proposal), NEW c \in Seq(Proposal),
         grows(a, b), grows(b, c)
  PROVE  grows(a, c)
<1>1. Len(a) \in Nat /\ Len(b) \in Nat /\ Len(c) \in Nat /\ Len(c) >= Len(b) /\ Len(b) >= Len(a)
  BY DEF grows
<1>2. ASSUME NEW k \in 1..Len(a)
      PROVE  c[k].owner = a[k].owner /\ Len(c[k].ixs) >= Len(a[k].ixs)
  <2>1. k \in 1..Len(b) /\ k \in 1..Len(c)
    BY <1>1
  <2>2. Len(a[k].ixs) \in Nat /\ Len(b[k].ixs) \in Nat /\ Len(c[k].ixs) \in Nat
    BY <2>1, ProposalTyped
  <2>3. /\ b[k].owner = a[k].owner /\ Len(b[k].ixs) >= Len(a[k].ixs)
        /\ c[k].owner = b[k].owner /\ Len(c[k].ixs) >= Len(b[k].ixs)
    BY <2>1 DEF grows
  <2> QED BY <2>2, <2>3
<1> QED BY <1>1, <1>2 DEF grows

\* The result of operations: whether they were accepted, and the proposals.
isResult(s) == \E ok \in BOOLEAN : \E ps : s = [ok |-> ok, ps |-> ps]

\* A transaction starts with the proposals as they are.
LEMMA FirstResult ==
  ASSUME NEW s, NEW ps, s = [ok |-> TRUE, ps |-> ps]
  PROVE  isResult(s) /\ s.ok /\ s.ps = ps
<1>1. TRUE \in BOOLEAN
  OBVIOUS
<1>2. isResult(s)
  BY <1>1, Zenon DEF isResult
<1> QED BY <1>2

\* One operation gives a result again, which is accepted only if all before
\* it were.
LEMMA RunStepCases ==
  ASSUME NEW s, isResult(s), NEW op, NEW r
  PROVE  /\ isResult(runStep(s, op, r))
         /\ runStep(s, op, r).ok =>
              s.ok /\ accepts(s.ps, op) /\ runStep(s, op, r).ps = apply(s.ps, op, r)
<1>1. PICK ok \in BOOLEAN : \E ps : s = [ok |-> ok, ps |-> ps]
  BY DEF isResult
<1>2. PICK ps : s = [ok |-> ok, ps |-> ps]
  BY <1>1
<1> DEFINE t == runStep(s, op, r)
           ps2 == apply(s.ps, op, r)
<1>3. CASE s.ok /\ accepts(s.ps, op)
  <2>1. t = [ok |-> TRUE, ps |-> ps2]
    BY <1>3 DEF runStep
  <2> HIDE DEF t, ps2
  <2>2. isResult(t) /\ t.ps = ps2
    BY <2>1, FirstResult
  <2> QED BY <1>3, <2>2 DEF t, ps2
<1>4. CASE ~(s.ok /\ accepts(s.ps, op))
  <2>1. t = [ok |-> FALSE, ps |-> ps]
    BY <1>2, <1>4 DEF runStep
  <2> HIDE DEF t
  <2>2. t.ok = FALSE
    BY <2>1
  <2>3. isResult(t)
    <3>1. FALSE \in BOOLEAN
      OBVIOUS
    <3> QED BY <2>1, <3>1, Zenon DEF isResult
  <2> QED BY <2>2, <2>3 DEF t
<1> QED BY <1>3, <1>4

\* A transaction of a chain that lands keeps the proposals sound, and brings
\* them to where the operation after it is due.
LEMMA LandChain ==
  ASSUME NEW pl \in [Req -> Plan], NEW A \in SUBSET Req, Sound(proposals, pl, A),
         NEW r \in A, NEW ops, chain(pl[r], ops), due(proposals, pl[r], r, ops[1]),
         lands(ops, r)
  PROVE  LET qs == run(ops, r).ps IN
         /\ Sound(qs, pl, A) /\ grows(proposals, qs)
         /\ \A b : link(pl[r], ops[Len(ops)], b) => due(qs, pl[r], r, b)
<1> DEFINE l == Len(ops)
           P == pl[r]
           after(ps, n) == \A b : link(P, ops[n], b) => due(ps, P, r, b)
           before(ps, n) == n < l => due(ps, P, r, ops[n + 1])
           right(s, n) == /\ isResult(s)
                          /\ s.ok => /\ Sound(s.ps, pl, A) /\ grows(proposals, s.ps)
                                     /\ before(s.ps, n) /\ (n > 0 => after(s.ps, n))
           good == {n \in Nat : n <= l => right(ran(ops, r, n), n)}
<1>1. /\ ops \in Seq(Operation) /\ l \in Nat \ {0}
      /\ \A n \in 1..l : planOp(P, ops[n])
      /\ \A n \in 1..l - 1 : link(P, ops[n], ops[n + 1])
  BY DEF chain
<1>2. /\ run(ops, r) = ran(ops, r, l)
      /\ ran(ops, r, 0) = [ok |-> TRUE, ps |-> proposals]
      /\ \A n \in 0..l - 1 : ran(ops, r, n + 1) = runStep(ran(ops, r, n), ops[n + 1], r)
  BY <1>1, RunSteps
<1>3. proposals \in Seq(Proposal) /\ grows(proposals, proposals)
  <2>1. proposals \in Seq(Proposal)
    BY DEF Sound
  <2>2. \A k \in 1..Len(proposals) : Len(proposals[k].ixs) \in Nat
    BY <2>1, ProposalTyped
  <2> QED BY <2>1, <2>2 DEF grows
<1> HIDE DEF l, P
<1>4. 0 \in good
  <2> DEFINE s == ran(ops, r, 0)
  <2>0. s = [ok |-> TRUE, ps |-> proposals]
    BY <1>2
  <2>1. isResult(s) /\ s.ps = proposals
    <3> HIDE DEF s
    <3> QED BY <2>0, FirstResult
  <2> HIDE DEF s
  <2>2. before(s.ps, 0)
    <3>1. 0 + 1 = 1
      OBVIOUS
    <3> QED BY <2>1, <3>1 DEF P
  <2>3. ~(0 > 0)
    OBVIOUS
  <2> HIDE DEF before, after
  <2>4. right(s, 0)
    BY <1>3, <2>1, <2>2, <2>3
  <2> HIDE DEF right
  <2> QED BY <2>4 DEF s
<1>5. ASSUME NEW n \in Nat, n \in good PROVE n + 1 \in good
  <2> SUFFICES ASSUME n + 1 <= l PROVE right(ran(ops, r, n + 1), n + 1)
    <3> HIDE DEF right
    <3>1. n + 1 \in Nat
      OBVIOUS
    <3> QED BY <3>1
  <2> DEFINE s == ran(ops, r, n)
             t == ran(ops, r, n + 1)
             op == ops[n + 1]
  <2>1. n \in 0..l - 1 /\ n <= l /\ n < l /\ n + 1 \in 1..l /\ n + 1 > 0
    BY <1>1
  <2>2. right(s, n)
    <3> HIDE DEF right
    <3> QED BY <1>5, <2>1
  <2>3. t = runStep(s, op, r)
    BY <1>2, <2>1
  <2> HIDE DEF s, t, op
  <2>4. isResult(t) /\ (t.ok => s.ok /\ accepts(s.ps, op) /\ t.ps = apply(s.ps, op, r))
    <3>1. isResult(s)
      <4> HIDE DEF before, after
      <4> QED BY <2>2
    <3>2. /\ isResult(runStep(s, op, r))
          /\ runStep(s, op, r).ok =>
               s.ok /\ accepts(s.ps, op) /\ runStep(s, op, r).ps = apply(s.ps, op, r)
      BY <3>1, RunStepCases, Zenon
    <3> QED BY <2>3, <3>2, Zenon
  <2> SUFFICES ASSUME t.ok
               PROVE  /\ Sound(t.ps, pl, A) /\ grows(proposals, t.ps)
                      /\ before(t.ps, n + 1) /\ after(t.ps, n + 1)
    <3> HIDE DEF before, after
    <3> QED BY <2>4 DEF t
  <2>5. /\ s.ok /\ accepts(s.ps, op) /\ t.ps = apply(s.ps, op, r)
        /\ Sound(s.ps, pl, A) /\ grows(proposals, s.ps)
    BY <2>2, <2>4
  <2>6. due(s.ps, P, r, op) /\ planOp(P, op)
    <3>1. before(s.ps, n)
      <4> HIDE DEF before, after
      <4> QED BY <2>2, <2>5
    <3> QED BY <1>1, <2>1, <3>1 DEF op
  <2>7. /\ Sound(t.ps, pl, A) /\ grows(s.ps, t.ps)
        /\ \A b : link(P, op, b) => due(t.ps, P, r, b)
    BY <2>5, <2>6, ApplySound DEF P
  <2>8. grows(proposals, t.ps)
    <3>1. s.ps \in Seq(Proposal) /\ t.ps \in Seq(Proposal)
      BY <2>5, <2>7 DEF Sound
    <3> QED BY <1>3, <2>5, <2>7, <3>1, GrowsTransitive
  <2>9. before(t.ps, n + 1)
    <3> SUFFICES ASSUME n + 1 < l PROVE due(t.ps, P, r, ops[(n + 1) + 1])
      OBVIOUS
    <3>1. n + 1 \in 1..l - 1
      BY <1>1, <2>1
    <3>2. link(P, op, ops[(n + 1) + 1])
      BY <1>1, <3>1 DEF op
    <3> QED BY <2>7, <3>2
  <2>10. after(t.ps, n + 1)
    BY <2>7 DEF op
  <2> QED BY <2>7, <2>8, <2>9, <2>10
<1>6. Nat \subseteq good
  <2> HIDE DEF good
  <2> QED BY <1>4, <1>5, SetInduction
<1>7. right(ran(ops, r, l), l)
  <2>1. l <= l /\ l \in Nat
    BY <1>1
  <2> HIDE DEF right
  <2> QED BY <1>6, <2>1
<1>8. run(ops, r).ok /\ l > 0
  BY <1>1 DEF lands
<1> QED BY <1>2, <1>7, <1>8 DEF l, P

\* A transaction that executes an instruction keeps the proposals sound.
LEMMA LandExecute ==
  ASSUME NEW pl \in [Req -> Plan], NEW A \in SUBSET Req, Sound(proposals, pl, A),
         NEW r, NEW ops, executes(ops), lands(ops, r)
  PROVE  Sound(run(ops, r).ps, pl, A) /\ grows(proposals, run(ops, r).ps)
<1>1. PICK k, i : ops = <<Op("execute", k, i, <<>>)>>
  BY DEF executes
<1> DEFINE op == Op("execute", k, i, <<>>)
<1>2. op.type = "execute"
  BY DEF Op
<1> HIDE DEF op
<1>3. ops \in Seq({op}) /\ Len(ops) = 1 /\ ops[1] = op
  <2>1. ops = <<op>>
    BY <1>1 DEF op
  <2> QED BY <2>1
<1>4. /\ run(ops, r) = ran(ops, r, 1)
      /\ ran(ops, r, 0) = [ok |-> TRUE, ps |-> proposals]
      /\ ran(ops, r, 0 + 1) = runStep(ran(ops, r, 0), ops[0 + 1], r)
  <2>1. 0 \in 0..Len(ops) - 1
    BY <1>3
  <2>2. /\ run(ops, r) = ran(ops, r, Len(ops))
        /\ ran(ops, r, 0) = [ok |-> TRUE, ps |-> proposals]
        /\ \A n \in 0..Len(ops) - 1 :
             ran(ops, r, n + 1) = runStep(ran(ops, r, n), ops[n + 1], r)
    BY <1>3, RunSteps, Zenon
  <2> QED BY <1>3, <2>1, <2>2
<1> DEFINE s == [ok |-> TRUE, ps |-> proposals]
<1>5. run(ops, r) = runStep(s, op, r)
  <2>1. 0 + 1 = 1
    OBVIOUS
  <2> QED BY <1>3, <1>4, <2>1
<1>6. s.ps = proposals /\ run(ops, r).ok
  BY DEF lands
<1>7. accepts(proposals, op) /\ run(ops, r).ps = apply(proposals, op, r)
  <2> DEFINE t == runStep(s, op, r)
  <2>1. t.ok => s.ok /\ accepts(s.ps, op) /\ t.ps = apply(s.ps, op, r)
    <3>1. isResult(s)
      <4> DEFINE u == s
      <4>1. u = [ok |-> TRUE, ps |-> proposals]
        OBVIOUS
      <4> HIDE DEF u
      <4>2. isResult(u)
        BY <4>1, FirstResult
      <4> QED BY <4>2 DEF u
    <3> HIDE DEF s
    <3> QED BY <3>1, RunStepCases, Zenon
  <2> HIDE DEF t, s
  <2>2. run(ops, r) = t
    BY <1>5 DEF t
  <2> QED BY <1>6, <2>1, <2>2
<1> QED BY <1>2, <1>7, ExecuteSound

-----------------------------------------------------------------------------
(* The clients *)

\* Every request has a plan.
LEMMA PlansTyped ==
  ASSUME ClientsTyped
  PROVE  plans \in [Req -> Plan] /\ Active \in SUBSET Req
<1>1. ASSUME NEW r \in Req PROVE [base |-> base[r], cs |-> contents(r)] \in Plan
  <2>1. input \in Inputs /\ base[r] \in Nat
    BY DEF ClientsTyped
  <2>2. contents(r) \in Seq(Payload) \ {<<>>}
    BY <2>1, ContentsCut
  <2> QED BY <2>1, <2>2 DEF Plan
<1> QED BY <1>1 DEF plans, Active

\* The plan of a request depends on what it asks for and where it starts.
LEMMA PlansKept ==
  ASSUME input' = input
  PROVE  /\ \A r : contents(r)' = contents(r)
         /\ base' = base => plans' = plans
         /\ \A r \in Req : base'[r] = base[r] => plans'[r] = plans[r]
<1>1. \A r : contents(r)' = contents(r)
  BY DEF contents, Instructions, Ix
<1>2. base' = base => plans' = plans
  BY DEF plans, contents, Instructions, Ix
<1>3. \A r \in Req : plans'[r] = [base |-> base'[r], cs |-> contents(r)]
  BY <1>1 DEF plans
<1>4. \A r \in Req : plans[r] = [base |-> base[r], cs |-> contents(r)]
  BY DEF plans
<1> QED BY <1>1, <1>2, <1>3, <1>4

\* Sound proposals stay so while the plans of their owners do.
LEMMA SoundOther ==
  ASSUME NEW ps, NEW pl, NEW pm, NEW A, NEW B, Sound(ps, pl, A), A \subseteq B,
         \A r \in A : pm[r] = pl[r]
  PROVE  Sound(ps, pm, B)
<1>1. ASSUME NEW k \in 1..Len(ps)
      PROVE  /\ ps[k].owner \in B /\ slice(ps[k], pm[ps[k].owner], k)
             /\ follows(ps, pm[ps[k].owner], ps[k].owner, k)
  <2>1. /\ ps[k].owner \in A /\ slice(ps[k], pl[ps[k].owner], k)
        /\ follows(ps, pl[ps[k].owner], ps[k].owner, k)
    BY DEF Sound
  <2>2. pm[ps[k].owner] = pl[ps[k].owner]
    BY <2>1
  <2> QED BY <2>1, <2>2
<1> QED BY <1>1 DEF Sound

\* What comes first in a queue, and what is left.
LEMMA QueueHead ==
  ASSUME NEW P, NEW batch, queue(P, batch)
  PROVE  /\ Head(batch) = batch[1] /\ chain(P, batch[1])
         /\ Len(batch) # 1 =>
              /\ queue(P, Tail(batch))
              /\ link(P, batch[1][Len(batch[1])], Tail(batch)[1][1])
<1>1. /\ batch \in Seq(Seq(Operation)) /\ Len(batch) \in Nat \ {0}
      /\ \A n \in 1..Len(batch) : chain(P, batch[n])
      /\ \A n \in 1..Len(batch) - 1 : link(P, batch[n][Len(batch[n])], batch[n + 1][1])
  BY DEF queue
<1>2. Head(batch) = batch[1] /\ chain(P, batch[1])
  <2>1. 1 \in 1..Len(batch)
    BY <1>1
  <2>2. Head(batch) = batch[1]
    BY <1>1
  <2> QED BY <1>1, <2>1, <2>2
<1> DEFINE t == Tail(batch)
<1>3. ASSUME Len(batch) # 1
      PROVE  queue(P, t) /\ link(P, batch[1][Len(batch[1])], t[1][1])
  <2>1. /\ t \in Seq(Seq(Operation)) /\ Len(t) = Len(batch) - 1 /\ Len(t) \in Nat \ {0}
        /\ \A n \in 1..Len(t) : t[n] = batch[n + 1]
    BY <1>1, <1>3
  <2> HIDE DEF t
  <2>2. \A n \in 1..Len(t) : chain(P, t[n])
    <3> TAKE n \in 1..Len(t)
    <3>1. n + 1 \in 1..Len(batch)
      BY <1>1, <2>1
    <3> QED BY <1>1, <2>1, <3>1
  <2>3. \A n \in 1..Len(t) - 1 : link(P, t[n][Len(t[n])], t[n + 1][1])
    <3> TAKE n \in 1..Len(t) - 1
    <3>1. /\ n + 1 \in 1..Len(batch) - 1 /\ n \in 1..Len(t) /\ n + 1 \in 1..Len(t)
      BY <1>1, <2>1
    <3>2. t[n] = batch[n + 1] /\ t[n + 1] = batch[(n + 1) + 1]
      BY <2>1, <3>1
    <3> QED BY <1>1, <3>1, <3>2
  <2>4. link(P, batch[1][Len(batch[1])], t[1][1])
    <3>1. 1 \in 1..Len(batch) - 1 /\ 1 \in 1..Len(t) /\ 1 + 1 = 2
      BY <1>1, <2>1
    <3>2. t[1] = batch[1 + 1]
      BY <2>1, <3>1
    <3> QED BY <1>1, <3>1, <3>2
  <2>5. t # <<>>
    BY <2>1
  <2> QED BY <2>1, <2>2, <2>3, <2>4, <2>5 DEF queue
<1> QED BY <1>2, <1>3

\* The transactions that are left fit too.
LEMMA FitTail ==
  ASSUME NEW batch \in Seq(Seq(Operation)), batch # <<>>, fit(batch)
  PROVE  fit(Tail(batch))
<1> DEFINE t == Tail(batch)
<1>1. /\ Len(t) = Len(batch) - 1 /\ Len(t) \in Nat /\ Len(batch) \in Nat
      /\ \A n \in 1..Len(t) : t[n] = batch[n + 1]
  OBVIOUS
<1> HIDE DEF t
<1>2. ASSUME NEW n \in 1..Len(t), Len(t[n]) > 1
      PROVE  getSizeOfTransaction(t[n]) + 2 <= PACKET_DATA_SIZE
  <2>1. n + 1 \in 1..Len(batch) /\ t[n] = batch[n + 1]
    BY <1>1
  <2> QED BY <1>2, <2>1 DEF fit
<1> QED BY <1>2 DEF fit, t

\* Transactions on their way stay behind proposals that grow.
LEMMA SentGrows ==
  ASSUME NEW pl, NEW pm \in [Req -> Plan], NEW A, NEW B \in SUBSET Req,
         A \subseteq B, \A r \in A : pm[r] = pl[r],
         NEW ps \in Seq(Proposal), NEW qs, Sound(qs, pm, B), grows(ps, qs)
  PROVE  /\ \A f : sentFor(f, ps, pl, A) => sentFor(f, qs, pm, B)
         /\ \A r, batch : goesOn(r, batch, ps, pl, A) => goesOn(r, batch, qs, pm, B)
<1>1. ASSUME NEW f, sentFor(f, ps, pl, A), ~executes(f.ops) PROVE sentFor(f, qs, pm, B)
  <2> DEFINE r == f.req
             op == f.ops[1]
  <2>1. r \in A /\ chain(pl[r], f.ops) /\ due(ps, pl[r], r, op)
    BY <1>1 DEF sentFor
  <2>2. pm[r] = pl[r] /\ r \in B
    BY <2>1
  <2>3. planOp(pm[r], op)
    <3>1. Len(f.ops) \in Nat \ {0} /\ \A n \in 1..Len(f.ops) : planOp(pm[r], f.ops[n])
      BY <2>1, <2>2 DEF chain
    <3> QED BY <3>1
  <2> HIDE DEF op
  <2>4. due(qs, pm[r], r, op)
    <3> HIDE DEF r
    <3>1. due(ps, pm[r], r, op)
      BY <2>1, <2>2
    <3> QED BY <2>3, <3>1, DueGrows
  <2> QED BY <2>1, <2>2, <2>4 DEF sentFor, op
<1>2. ASSUME NEW f, executes(f.ops) PROVE sentFor(f, qs, pm, B)
  BY <1>2 DEF sentFor
<1>3. ASSUME NEW r, NEW batch, goesOn(r, batch, ps, pl, A) PROVE goesOn(r, batch, qs, pm, B)
  <2> DEFINE op == batch[1][1]
  <2>1. r \in A /\ queue(pl[r], batch) /\ due(ps, pl[r], r, op)
    BY <1>3 DEF goesOn
  <2>2. pm[r] = pl[r] /\ r \in B
    BY <2>1
  <2>3. planOp(pm[r], op)
    <3>1. chain(pm[r], batch[1])
      BY <2>1, <2>2, QueueHead
    <3>2. Len(batch[1]) \in Nat \ {0} /\ \A n \in 1..Len(batch[1]) : planOp(pm[r], batch[1][n])
      BY <3>1 DEF chain
    <3> QED BY <3>2
  <2> HIDE DEF op
  <2>4. due(qs, pm[r], r, op)
    <3>1. due(ps, pm[r], r, op)
      BY <2>1, <2>2
    <3> QED BY <2>3, <3>1, DueGrows
  <2> QED BY <2>1, <2>2, <2>4 DEF goesOn, op
<1> QED BY <1>1, <1>2, <1>3

\* A sequence of proposals grows to itself.
LEMMA GrowsSame ==
  ASSUME NEW ps \in Seq(Proposal)
  PROVE  grows(ps, ps)
<1>1. \A k \in 1..Len(ps) : Len(ps[k].ixs) \in Nat
  BY ProposalTyped
<1>2. Len(ps) \in Nat
  OBVIOUS
<1> QED BY <1>1, <1>2 DEF grows

\* What a step has to show to keep the invariant: it adds to the proposals,
\* and whatever it sends or has yet to send is due.
LEMMA Frame ==
  ASSUME ProposeInv, ClientsTyped',
         plans' \in [Req -> Plan], Active \subseteq Active', Active' \in SUBSET Req,
         \A r \in Active : plans'[r] = plans[r],
         Sound(proposals', plans', Active'), grows(proposals, proposals'),
         \A f \in flight' : f \in flight \/ sent(f)',
         \A r \in Req : pc'[r] = "sending" =>
           \/ Sending(r)'
           \/ pc[r] = "sending" /\ txs'[r] = txs[r] /\ retries'[r] = retries[r],
         \A r \in Req : fit(txs'[r])
  PROVE  ProposeInv'
<1>1. proposals \in Seq(Proposal)
  BY DEF ProposeInv, Sound
<1>2. /\ \A f : sentFor(f, proposals, plans, Active) => sentFor(f, proposals', plans', Active')
      /\ \A r, batch : goesOn(r, batch, proposals, plans, Active)
                         => goesOn(r, batch, proposals', plans', Active')
  <2> DEFINE pm == plans'
             B == Active'
             qs == proposals'
             pl == plans
             A == Active
  <2>1. /\ pm \in [Req -> Plan] /\ B \in SUBSET Req /\ A \subseteq B
        /\ \A r \in A : pm[r] = pl[r]
        /\ Sound(qs, pm, B) /\ grows(proposals, qs)
    OBVIOUS
  <2> HIDE DEF pm, B, qs, pl, A
  <2>2. /\ \A f : sentFor(f, proposals, pl, A) => sentFor(f, qs, pm, B)
        /\ \A r, batch : goesOn(r, batch, proposals, pl, A) => goesOn(r, batch, qs, pm, B)
    BY <1>1, <2>1, SentGrows
  <2> QED BY <2>2 DEF pm, B, qs, pl, A
<1>3. ASSUME NEW f \in flight' PROVE sent(f)'
  <2>1. CASE f \in flight
    <3>1. sentFor(f, proposals, plans, Active)
      BY <2>1 DEF ProposeInv, sent
    <3> QED BY <1>2, <3>1 DEF sent
  <2> QED BY <2>1
<1>4. ASSUME NEW r \in Req, pc'[r] = "sending" PROVE Sending(r)'
  <2>1. CASE pc[r] = "sending" /\ txs'[r] = txs[r] /\ retries'[r] = retries[r]
    <3>1. Sending(r)
      BY <2>1 DEF ProposeInv
    <3>2. retries[r] < TIMEOUT /\ goesOn(r, txs[r], proposals, plans, Active)
      BY <3>1 DEF Sending
    <3>3. goesOn(r, txs[r], proposals', plans', Active')
      BY <1>2, <3>2
    <3> QED BY <2>1, <3>2, <3>3 DEF Sending
  <2> QED BY <1>4, <2>1
<1> QED BY <1>3, <1>4 DEF ProposeInv

-----------------------------------------------------------------------------
(* Every step keeps the invariant *)

\* A step of the vault, the crank or the relayer leaves the clients alone.
LEMMA VaultStep ==
  ASSUME ProposeInv, UNCHANGED clientVars,
         Sound(proposals', plans, Active), grows(proposals, proposals'),
         \A f \in flight' : f \in flight \/ executes(f.ops)
  PROVE  ProposeInv'
<1>1. /\ input' = input /\ pc' = pc /\ base' = base /\ txs' = txs /\ retries' = retries
  BY DEF clientVars
<1>2. ClientsTyped /\ \A r \in Req : fit(txs[r])
  BY DEF ProposeInv
<1>3. plans' = plans /\ plans \in [Req -> Plan] /\ Active \in SUBSET Req
  BY <1>1, <1>2, PlansKept, PlansTyped
<1>4. Active' = Active
  <2>1. \A r : contents(r)' = contents(r)
    BY <1>1, PlansKept
  <2> QED BY <1>1, <2>1 DEF Active
<1>5. ClientsTyped'
  <2>1. Len(proposals) \in Nat /\ Len(proposals') \in Nat /\ Len(proposals') >= Len(proposals)
    BY DEF ProposeInv, Sound, grows
  <2>2. \A r \in Req : base[r] \in Nat /\ base[r] <= Len(proposals)
    BY <1>2 DEF ClientsTyped
  <2>3. \A r \in Req : base[r] <= Len(proposals')
    BY <2>1, <2>2
  <2> QED BY <1>1, <1>2, <2>3 DEF ClientsTyped
<1>6. \A f \in flight' : f \in flight \/ sent(f)'
  BY DEF sent, sentFor
<1> QED BY <1>1, <1>2, <1>3, <1>4, <1>5, <1>6, Frame

\* The members change the status of a proposal, never what it holds.
LEMMA MemberStep ==
  ASSUME ProposeInv, NEW k \in 1..Len(proposals), NEW p \in Proposal,
         p.owner = proposals[k].owner, p.ixs = proposals[k].ixs,
         p.executed = proposals[k].executed,
         \/ p.status = proposals[k].status
         \/ proposals[k].status = "active" /\ p.status = "ready"
  PROVE  /\ Sound([proposals EXCEPT ![k] = p], plans, Active)
         /\ grows(proposals, [proposals EXCEPT ![k] = p])
<1> DEFINE o == proposals[k]
           P == plans[o.owner]
<1>1. /\ Sound(proposals, plans, Active) /\ plans \in [Req -> Plan]
      /\ Active \in SUBSET Req /\ proposals \in Seq(Proposal)
  BY PlansTyped DEF ProposeInv, Sound
<1>2. slice(o, P, k) /\ o.owner \in Req
  BY <1>1 DEF Sound
<1>3. P \in Plan /\ inPlan(P, k) /\ k > P.base /\ k \in Nat
  BY <1>1, <1>2 DEF slice, inPlan
<1>4. planned(P, k) \in Nat \ {0}
  <2> HIDE DEF P
  <2> QED BY <1>3, PlanFacts
<1>5. Len(o.ixs) \in Nat
  BY <1>1, ProposalTyped
<1> HIDE DEF P, o
<1>6. slice(p, P, k)
  <2>1. CASE p.status = o.status
    BY <1>2, <2>1 DEF slice, o
  <2>2. CASE o.status = "active" /\ p.status = "ready"
    <3>1. o.executed = 0 /\ Len(o.ixs) = planned(P, k)
      BY <1>2, <2>2 DEF slice
    <3>2. p.executed < Len(p.ixs) /\ p.executed <= Len(p.ixs)
      BY <1>4, <3>1 DEF o
    <3> QED BY <1>2, <2>2, <3>1, <3>2 DEF slice, o
  <2> QED BY <2>1, <2>2 DEF o
<1>7. Len(p.ixs) >= Len(proposals[k].ixs)
  BY <1>5 DEF o
<1> QED BY <1>1, <1>6, <1>7, UpdateSound DEF P, o

\* Members approve or cancel.
LEMMA ApproveKeeps == ASSUME ProposeInv, approveByMembers PROVE ProposeInv'
<1>1. PICK k \in 1..Len(proposals) :
        /\ proposals[k].status = "active"
        /\ proposals' = [proposals EXCEPT ![k].status = "ready"]
        /\ UNCHANGED <<clientVars, messages, flight, crank, relayVars, faults>>
  BY DEF approveByMembers
<1> DEFINE o == proposals[k]
           p == [o EXCEPT !.status = "ready"]
<1>2. o \in Proposal
  BY ProposalTyped DEF ProposeInv, Sound
<1>3. proposals' = [proposals EXCEPT ![k] = p]
  BY <1>1
<1> HIDE DEF o
<1>4. /\ p \in Proposal /\ p.owner = o.owner /\ p.ixs = o.ixs /\ p.executed = o.executed
      /\ p.status = "ready"
  BY <1>2 DEF Proposal, Status
<1> HIDE DEF p
<1>5. Sound(proposals', plans, Active) /\ grows(proposals, proposals')
  BY <1>1, <1>3, <1>4, MemberStep DEF o
<1> QED BY <1>1, <1>5, VaultStep

\* A member cancels a proposal.
LEMMA CancelKeeps == ASSUME ProposeInv, cancelByMember PROVE ProposeInv'
<1>1. PICK k \in 1..Len(proposals) :
        /\ proposals' = [proposals EXCEPT ![k].cancelled = TRUE]
        /\ UNCHANGED <<clientVars, messages, flight, crank, relayVars>>
  BY DEF cancelByMember
<1> DEFINE o == proposals[k]
           p == [o EXCEPT !.cancelled = TRUE]
<1>2. o \in Proposal
  BY ProposalTyped DEF ProposeInv, Sound
<1>3. proposals' = [proposals EXCEPT ![k] = p]
  BY <1>1
<1> HIDE DEF o
<1>4. /\ p \in Proposal /\ p.owner = o.owner /\ p.ixs = o.ixs /\ p.executed = o.executed
      /\ p.status = o.status
  BY <1>2 DEF Proposal
<1> HIDE DEF p
<1>5. Sound(proposals', plans, Active) /\ grows(proposals, proposals')
  BY <1>3, <1>4, MemberStep DEF o
<1> QED BY <1>1, <1>5, VaultStep

\* An instruction is executed: by the crank, by another client, or late.
LEMMA ExecuteStep ==
  ASSUME ProposeInv, NEW ops, NEW r, executes(ops), land(ops, r), UNCHANGED clientVars,
         \A f \in flight' : f \in flight
  PROVE  ProposeInv'
<1>1. /\ Sound(proposals, plans, Active) /\ plans \in [Req -> Plan] /\ Active \in SUBSET Req
  BY PlansTyped DEF ProposeInv
<1>2. lands(ops, r) /\ proposals' = run(ops, r).ps
  BY DEF land
<1>3. Sound(run(ops, r).ps, plans, Active) /\ grows(proposals, run(ops, r).ps)
  <2> DEFINE pl == plans
             A == Active
  <2>1. pl \in [Req -> Plan] /\ A \in SUBSET Req /\ Sound(proposals, pl, A)
    BY <1>1
  <2> HIDE DEF pl, A
  <2>2. Sound(run(ops, r).ps, pl, A) /\ grows(proposals, run(ops, r).ps)
    BY <1>2, <2>1, LandExecute
  <2> QED BY <2>2 DEF pl, A
<1> QED BY <1>2, <1>3, VaultStep

\* A step of the crank, or an execution by another client.
LEMMA CrankKeeps == ASSUME ProposeInv, Crank \/ executeByOther PROVE ProposeInv'
<1>1. CASE executeProposal
  <2>1. /\ land(crankOps, crankOwner) /\ UNCHANGED <<clientVars, flight>>
    BY <1>1 DEF executeProposal
  <2>2. executes(crankOps)
    BY Zenon DEF executes, crankOps
  <2>3. UNCHANGED clientVars /\ \A f \in flight' : f \in flight
    BY <2>1
  <2> QED BY <2>1, <2>2, <2>3, ExecuteStep
<1>2. CASE executeByOther
  <2>1. PICK k \in 1..Len(proposals) :
          /\ land(<<Op("execute", k, proposals[k].executed + 1, <<>>)>>, proposals[k].owner)
          /\ UNCHANGED <<clientVars, flight, crank, relayVars>>
    BY <1>2 DEF executeByOther
  <2> DEFINE i == proposals[k].executed + 1
             ops == <<Op("execute", k, i, <<>>)>>
             r == proposals[k].owner
  <2>2. land(ops, r)
    BY <2>1
  <2> HIDE DEF i, r
  <2>3. executes(ops)
    BY Zenon DEF executes
  <2>4. UNCHANGED clientVars /\ \A f \in flight' : f \in flight
    BY <2>1
  <2> HIDE DEF ops
  <2> QED BY <2>2, <2>3, <2>4, ExecuteStep
<1>3. CASE crankStart \/ executeRejected \/ executeUnconfirmed
  <2>1. UNCHANGED clientVars /\ proposals' = proposals
    BY <1>3 DEF crankStart, executeRejected, executeUnconfirmed
  <2>2. executes(crankOps)
    BY Zenon DEF executes, crankOps
  <2>3. \A f \in flight' : f \in flight \/ executes(f.ops)
    BY <1>3, <2>2 DEF crankStart, executeRejected, executeUnconfirmed
  <2>4. Sound(proposals, plans, Active) /\ grows(proposals, proposals)
    BY GrowsSame DEF ProposeInv, Sound
  <2> QED BY <2>1, <2>3, <2>4, VaultStep
<1> QED BY <1>1, <1>2, <1>3 DEF Crank

\* The relayer touches neither the clients nor the proposals.
LEMMA RelayKeepsProposals ==
  ASSUME ProposeInv, Relay \/ UNCHANGED vars
  PROVE  ProposeInv'
<1>1. UNCHANGED clientVars /\ proposals' = proposals /\ flight' = flight
  BY DEF Relay, relayStart, relayOther, relayExecute, relayRejected, relayUnconfirmed,
     relayEnd, relayLandLate, relayUnchanged, vars
<1>2. Sound(proposals, plans, Active) /\ grows(proposals, proposals)
  BY GrowsSame DEF ProposeInv, Sound
<1> QED BY <1>1, <1>2, VaultStep

\* A transaction that was given up lands, or expires.
LEMMA LateKeeps == ASSUME ProposeInv, landLate PROVE ProposeInv'
<1>1. PICK f \in flight :
        /\ flight' = flight \ {f}
        /\ land(f.ops, f.req) \/ UNCHANGED <<proposals, messages>>
        /\ UNCHANGED <<clientVars, crank, relayVars, faults>>
  BY DEF landLate
<1>2. UNCHANGED clientVars /\ \A g \in flight' : g \in flight
  BY <1>1
<1>3. sentFor(f, proposals, plans, Active)
  BY DEF ProposeInv, sent
<1>4. CASE proposals' = proposals
  <2>1. Sound(proposals, plans, Active) /\ grows(proposals, proposals)
    BY GrowsSame DEF ProposeInv, Sound
  <2> QED BY <1>2, <1>4, <2>1, VaultStep
<1>5. CASE land(f.ops, f.req) /\ executes(f.ops)
  <2> DEFINE ops == f.ops
             r == f.req
  <2>1. executes(ops) /\ land(ops, r)
    BY <1>5
  <2> HIDE DEF ops, r
  <2> QED BY <1>2, <2>1, ExecuteStep
<1>6. CASE land(f.ops, f.req) /\ ~executes(f.ops)
  <2> DEFINE ops == f.ops
             r == f.req
             pl == plans
             A == Active
  <2>1. pl \in [Req -> Plan] /\ A \in SUBSET Req /\ Sound(proposals, pl, A)
    BY PlansTyped DEF ProposeInv
  <2>2. r \in A /\ chain(pl[r], ops) /\ due(proposals, pl[r], r, ops[1])
    BY <1>3, <1>6 DEF sentFor
  <2>3. lands(ops, r) /\ proposals' = run(ops, r).ps
    BY <1>6 DEF land
  <2> HIDE DEF ops, r, pl, A
  <2>4. Sound(run(ops, r).ps, pl, A) /\ grows(proposals, run(ops, r).ps)
    BY <2>1, <2>2, <2>3, LandChain
  <2>5. Sound(proposals', plans, Active) /\ grows(proposals, proposals')
    BY <2>3, <2>4 DEF pl, A
  <2> QED BY <1>2, <2>5, VaultStep
<1> QED BY <1>1, <1>4, <1>5, <1>6

-----------------------------------------------------------------------------
(* A request that has read the multisig account *)

\* What a step of one client has to show: what it has yet to send is due.
LEMMA ClientStep ==
  ASSUME ProposeInv, NEW r \in Active, NEW c \in {"sending", "done", "failed"},
         NEW t \in Seq(Seq(Operation)), fit(t), NEW n \in Nat, n <= TIMEOUT,
         input' = input, base' = base, pc' = [pc EXCEPT ![r] = c],
         txs' = [txs EXCEPT ![r] = t], retries' = [retries EXCEPT ![r] = n],
         Sound(proposals', plans, Active), grows(proposals, proposals'),
         \A f \in flight' : f \in flight \/ sentFor(f, proposals', plans, Active),
         c = "sending" => n < TIMEOUT /\ goesOn(r, t, proposals', plans, Active)
  PROVE  ProposeInv'
<1>1. ClientsTyped /\ \A q \in Req : fit(txs[q])
  BY DEF ProposeInv
<1>2. /\ plans' = plans /\ plans \in [Req -> Plan] /\ Active \in SUBSET Req
      /\ r \in Req /\ pc[r] # "idle"
  BY <1>1, PlansKept, PlansTyped DEF Active
<1>3. /\ pc \in [Req -> {"idle", "sending", "done", "failed"}]
      /\ retries \in [Req -> Nat] /\ base \in [Req -> Nat]
      /\ txs \in [Req -> Seq(Seq(Operation))]
      /\ \A q \in Req : retries[q] <= TIMEOUT /\ base[q] <= Len(proposals)
  BY <1>1 DEF ClientsTyped
<1>4. /\ pc'[r] = c /\ txs'[r] = t /\ retries'[r] = n
      /\ \A q \in Req : q # r =>
           pc'[q] = pc[q] /\ txs'[q] = txs[q] /\ retries'[q] = retries[q]
  BY <1>2, <1>3
<1>5. Active' = Active
  <2>1. \A q : contents(q)' = contents(q)
    BY PlansKept
  <2>2. \A q \in Req : pc'[q] # "idle" <=> pc[q] # "idle"
    BY <1>2, <1>4
  <2> QED BY <2>1, <2>2 DEF Active
<1>6. ClientsTyped'
  <2>1. Len(proposals) \in Nat /\ Len(proposals') \in Nat /\ Len(proposals') >= Len(proposals)
    BY DEF ProposeInv, Sound, grows
  <2>2. \A q \in Req : base[q] \in Nat /\ base[q] <= Len(proposals')
    BY <1>3, <2>1
  <2>3. \A q \in Req : retries'[q] <= TIMEOUT
    BY <1>3, <1>4
  <2>4. input' \in Inputs
    BY <1>1 DEF ClientsTyped
  <2>5. /\ pc' \in [Req -> {"idle", "sending", "done", "failed"}]
        /\ retries' \in [Req -> Nat]
    BY <1>2, <1>3
  <2>6. txs' \in [Req -> Seq(Seq(Operation))]
    BY <1>2, <1>3
  <2> QED BY <1>3, <2>2, <2>3, <2>4, <2>5, <2>6 DEF ClientsTyped
<1>7. \A f \in flight' : f \in flight \/ sent(f)'
  BY <1>2, <1>5 DEF sent
<1>8. ASSUME NEW q \in Req, pc'[q] = "sending"
      PROVE  \/ Sending(q)'
             \/ pc[q] = "sending" /\ txs'[q] = txs[q] /\ retries'[q] = retries[q]
  <2>1. CASE q = r
    <3>1. n < TIMEOUT /\ goesOn(r, t, proposals', plans, Active)
      BY <1>4, <1>8, <2>1
    <3> QED BY <1>2, <1>4, <1>5, <2>1, <3>1 DEF Sending
  <2> QED BY <1>4, <1>8, <2>1
<1>9. \A q \in Req : fit(txs'[q])
  BY <1>1, <1>4
<1> QED BY <1>2, <1>5, <1>6, <1>7, <1>8, <1>9, Frame

\* What is known of a request that is sending.
LEMMA SendingFacts ==
  ASSUME ProposeInv, NEW r \in Req, pc[r] = "sending"
  PROVE  /\ r \in Active /\ plans \in [Req -> Plan] /\ Active \in SUBSET Req
         /\ Sound(proposals, plans, Active) /\ proposals \in Seq(Proposal)
         /\ queue(plans[r], txs[r]) /\ txs[r] \in Seq(Seq(Operation)) /\ txs[r] # <<>>
         /\ Head(txs[r]) = txs[r][1] /\ chain(plans[r], txs[r][1])
         /\ due(proposals, plans[r], r, txs[r][1][1])
         /\ retries[r] \in Nat /\ retries[r] < TIMEOUT /\ TIMEOUT \in Nat
         /\ pc \in [Req -> {"idle", "sending", "done", "failed"}]
         /\ txs \in [Req -> Seq(Seq(Operation))] /\ retries \in [Req -> Nat] /\ fit(txs[r])
<1>1. Sending(r) /\ Sound(proposals, plans, Active) /\ ClientsTyped /\ fit(txs[r])
  BY DEF ProposeInv
<1>2. /\ r \in Active /\ retries[r] < TIMEOUT
      /\ queue(plans[r], txs[r]) /\ due(proposals, plans[r], r, txs[r][1][1])
  BY <1>1 DEF Sending, goesOn
<1>3. plans \in [Req -> Plan] /\ Active \in SUBSET Req /\ proposals \in Seq(Proposal)
  BY <1>1, PlansTyped DEF Sound
<1>4. /\ pc \in [Req -> {"idle", "sending", "done", "failed"}]
      /\ txs \in [Req -> Seq(Seq(Operation))] /\ retries \in [Req -> Nat]
  BY <1>1 DEF ClientsTyped
<1>5. txs[r] \in Seq(Seq(Operation)) /\ txs[r] # <<>>
  BY <1>2 DEF queue
<1>6. Head(txs[r]) = txs[r][1] /\ chain(plans[r], txs[r][1])
  <2> DEFINE P == plans[r]
             batch == txs[r]
  <2>1. queue(P, batch)
    BY <1>2
  <2> HIDE DEF P, batch
  <2>2. Head(batch) = batch[1] /\ chain(P, batch[1])
    BY <2>1, QueueHead
  <2> QED BY <2>2 DEF P, batch
<1>7. TIMEOUT \in Nat /\ retries[r] \in Nat
  BY <1>4, GovernanceAssumption
<1> QED BY <1>1, <1>2, <1>3, <1>4, <1>5, <1>6, <1>7

\* The transaction lands: what follows it is due.
LEMMA ConfirmedKeeps ==
  ASSUME ProposeInv, NEW r \in Req, sendConfirmed(r)
  PROVE  ProposeInv'
<1> DEFINE ops == txs[r][1]
           t == Tail(txs[r])
           c == IF Len(txs[r]) = 1 THEN "done" ELSE "sending"
           pl == plans
           A == Active
<1>1. pc[r] = "sending" /\ land(Head(txs[r]), r)
  BY DEF sendConfirmed
<1>2. /\ r \in A /\ pl \in [Req -> Plan] /\ A \in SUBSET Req
      /\ Sound(proposals, pl, A) /\ proposals \in Seq(Proposal)
      /\ queue(pl[r], txs[r]) /\ txs[r] \in Seq(Seq(Operation)) /\ txs[r] # <<>>
      /\ Head(txs[r]) = ops /\ chain(pl[r], ops) /\ due(proposals, pl[r], r, ops[1])
      /\ pc \in [Req -> {"idle", "sending", "done", "failed"}] /\ fit(txs[r])
  BY <1>1, SendingFacts
<1>3. lands(ops, r) /\ proposals' = run(ops, r).ps
  BY <1>1, <1>2 DEF land
<1>4. LET qs == run(ops, r).ps IN
      /\ Sound(qs, pl, A) /\ grows(proposals, qs)
      /\ \A b : link(pl[r], ops[Len(ops)], b) => due(qs, pl[r], r, b)
  <2> HIDE DEF ops, pl, A
  <2> QED BY <1>2, <1>3, LandChain
<1>5. /\ input' = input /\ base' = base /\ flight' = flight
      /\ txs' = [txs EXCEPT ![r] = t] /\ retries' = [retries EXCEPT ![r] = 0]
      /\ pc' = [pc EXCEPT ![r] = c]
  BY <1>1, <1>2 DEF sendConfirmed
<1>6. t \in Seq(Seq(Operation)) /\ fit(t)
  <2>1. t \in Seq(Seq(Operation))
    BY <1>2
  <2> QED BY <1>2, <2>1, FitTail
<1>7. ASSUME c = "sending" PROVE goesOn(r, t, proposals', pl, A)
  <2>1. Len(txs[r]) # 1
    BY <1>7
  <2> DEFINE P == pl[r]
             batch == txs[r]
  <2>2. queue(P, batch) /\ Len(batch) # 1
    BY <1>2, <2>1
  <2> HIDE DEF P, batch
  <2>3. queue(P, Tail(batch)) /\ link(P, batch[1][Len(batch[1])], Tail(batch)[1][1])
    BY <2>2, QueueHead
  <2>4. queue(pl[r], t) /\ link(pl[r], ops[Len(ops)], t[1][1])
    BY <2>3 DEF P, batch
  <2> HIDE DEF t, ops, pl, A
  <2>5. due(proposals', pl[r], r, t[1][1])
    BY <1>3, <1>4, <2>4
  <2> QED BY <1>2, <2>4, <2>5 DEF goesOn
<1>8. 0 \in Nat /\ 0 < TIMEOUT /\ 0 <= TIMEOUT
  BY GovernanceAssumption
<1>9. c \in {"sending", "done", "failed"}
  OBVIOUS
<1>10. Sound(proposals', plans, Active) /\ grows(proposals, proposals') /\ r \in Active
  BY <1>2, <1>3, <1>4
<1> HIDE DEF t, ops, c
<1> QED BY <1>5, <1>6, <1>7, <1>8, <1>9, <1>10, ClientStep

\* An attempt that was refused or not confirmed: what was due is still due.
LEMMA RetryKeeps ==
  ASSUME ProposeInv, NEW r \in Req, sendRejected(r) \/ sendUnconfirmed(r)
  PROVE  ProposeInv'
<1> DEFINE n == retries[r] + 1
           c == IF n = TIMEOUT THEN "failed" ELSE "sending"
           g == [ops |-> Head(txs[r]), req |-> r]
<1>1. pc[r] = "sending" /\ retry(r) /\ proposals' = proposals
  BY DEF sendRejected, sendUnconfirmed
<1>2. \A f \in flight' : f \in flight \/ f = g
  BY DEF sendRejected, sendUnconfirmed
<1>3. /\ r \in Active /\ plans \in [Req -> Plan] /\ Active \in SUBSET Req
      /\ Sound(proposals, plans, Active) /\ proposals \in Seq(Proposal)
      /\ queue(plans[r], txs[r]) /\ txs[r] \in Seq(Seq(Operation)) /\ txs[r] # <<>>
      /\ Head(txs[r]) = txs[r][1] /\ chain(plans[r], txs[r][1])
      /\ due(proposals, plans[r], r, txs[r][1][1])
      /\ retries[r] \in Nat /\ retries[r] < TIMEOUT /\ TIMEOUT \in Nat
      /\ pc \in [Req -> {"idle", "sending", "done", "failed"}]
      /\ txs \in [Req -> Seq(Seq(Operation))] /\ fit(txs[r])
  BY <1>1, SendingFacts
<1>4. /\ input' = input /\ base' = base /\ txs' = [txs EXCEPT ![r] = txs[r]]
      /\ retries' = [retries EXCEPT ![r] = n] /\ pc' = [pc EXCEPT ![r] = c]
  <2>1. input' = input /\ base' = base /\ txs' = txs /\ retries' = [retries EXCEPT ![r] = n]
    BY <1>1 DEF retry
  <2>2. pc' = [pc EXCEPT ![r] = c]
    BY <1>1 DEF retry
  <2> QED BY <1>3, <2>1, <2>2
<1>5. sentFor(g, proposals, plans, Active)
  <2>1. g.req = r /\ g.ops = txs[r][1]
    BY <1>3
  <2> HIDE DEF g
  <2> QED BY <1>3, <2>1 DEF sentFor
<1>6. /\ n \in Nat /\ n <= TIMEOUT /\ c \in {"sending", "done", "failed"}
      /\ c = "sending" => n < TIMEOUT
  BY <1>3
<1>7. goesOn(r, txs[r], proposals, plans, Active)
  BY <1>3 DEF goesOn
<1>8. grows(proposals, proposals)
  BY <1>3, GrowsSame
<1> HIDE DEF n, c, g
<1>9. \A f \in flight' : f \in flight \/ sentFor(f, proposals', plans, Active)
  BY <1>1, <1>2, <1>5
<1> QED BY <1>1, <1>3, <1>4, <1>6, <1>7, <1>8, <1>9, ClientStep

-----------------------------------------------------------------------------
(* A request reads the multisig account, or its own proposal *)

\* Any sequence of operations that the plan says, batched, can be sent.
LEMMA BatchGoesOn ==
  ASSUME NEW pl, NEW A, NEW ps, NEW r \in A, NEW ops, chain(pl[r], ops),
         due(ps, pl[r], r, firstOf(ops))
  PROVE  LET t == batchIntoLegacyTransactions(ops) IN
         t \in Seq(Seq(Operation)) /\ fit(t) /\ goesOn(r, t, ps, pl, A)
<1> DEFINE t == batchIntoLegacyTransactions(ops)
           P == pl[r]
<1>1. queue(P, t) /\ fit(t) /\ t[1][1] = ops[1]
  BY BatchedIsQueue
<1> HIDE DEF t
<1>2. t \in Seq(Seq(Operation))
  BY <1>1 DEF queue
<1>3. due(ps, P, r, t[1][1])
  BY <1>1 DEF firstOf
<1> QED BY <1>1, <1>2, <1>3 DEF goesOn, t

\* A request resumes after the last instruction that was added.
LEMMA ResumeKeeps ==
  ASSUME ProposeInv, NEW r \in Req, resume(r)
  PROVE  ProposeInv'
<1> DEFINE k == base[r] + 1
           p == proposals[k]
           P == plans[r]
           d == Len(p.ixs)
           l == Len(contents(r))
           ops == addsFrom(P, k, d, l - d) \o finish(k)
           t == batchIntoLegacyTransactions(ops)
<1>1. /\ pc[r] = "failed" /\ input[r].kind = "wormhole"
      /\ k \in 1..Len(proposals) /\ p.owner = r
  BY DEF resume
<1>2. /\ ClientsTyped /\ Sound(proposals, plans, Active) /\ plans \in [Req -> Plan]
      /\ Active \in SUBSET Req /\ proposals \in Seq(Proposal)
  BY PlansTyped DEF ProposeInv, Sound
<1>3. r \in Active /\ slice(p, P, k)
  BY <1>1, <1>2 DEF Sound
<1>4. P \in Plan /\ P.base = base[r] /\ P.cs = contents(r) /\ base[r] \in Nat
  BY <1>2 DEF plans, ClientsTyped
<1>5. l <= MAX_INSTRUCTIONS_PER_PROPOSAL
  BY <1>1, <1>3 DEF Active
<1>6. start(P, k) = 0 /\ inPlan(P, k) /\ l \in Nat \ {0}
  <2>1. start(P, P.base + 1) = 0 /\ inPlan(P, P.base + 1)
    <3> HIDE DEF P
    <3> QED BY <1>4, PlanOrder
  <2>2. l \in Nat \ {0}
    BY <1>4 DEF Plan
  <2> QED BY <1>4, <2>1, <2>2
<1>7. planned(P, k) = l
  <2>1. MAX_INSTRUCTIONS_PER_PROPOSAL \in Nat
    BY GovernanceAssumption
  <2> HIDE DEF P, k, l
  <2>2. Len(P.cs) = l
    BY <1>4 DEF l
  <2> QED BY <1>5, <1>6, <2>1, <2>2 DEF planned
<1>8. d \in Nat /\ d <= l
  <2>1. d \in Nat
    BY <1>1, <1>2, ProposalTyped
  <2>2. d <= planned(P, k)
    BY <1>3 DEF slice
  <2> QED BY <1>7, <2>1, <2>2
<1>9. l - d \in Nat /\ d + (l - d) = planned(P, k)
  <2> HIDE DEF l, d
  <2> QED BY <1>6, <1>7, <1>8
<1>10. /\ chain(P, ops)
       /\ firstOf(ops) = IF l - d = 0 THEN Op("activate", k, 0, <<>>)
                         ELSE Op("add", k, d + 1, P.cs[start(P, k) + (d + 1)])
  <2> HIDE DEF P, k, l, d
  <2> QED BY <1>4, <1>6, <1>8, <1>9, AddsChain
<1>11. due(proposals, P, r, firstOf(ops))
  <2>1. begun(proposals, r, k) /\ Len(proposals[k].ixs) = d
    BY <1>1 DEF begun
  <2> HIDE DEF P, k, l, d, ops
  <2>2. CASE l - d = 0
    <3>1. complete(proposals, P, r, k)
      BY <1>6, <1>7, <1>8, <2>1, <2>2 DEF complete
    <3> QED BY <1>10, <2>2, <3>1 DEF due, Op
  <2>3. CASE l - d # 0
    <3>1. (d + 1) - 1 = d /\ d >= d
      BY <1>8
    <3> QED BY <1>10, <2>1, <2>3, <3>1 DEF due, Op
  <2> QED BY <2>2, <2>3
<1>12. t \in Seq(Seq(Operation)) /\ fit(t) /\ goesOn(r, t, proposals, plans, Active)
  <2> HIDE DEF ops
  <2> QED BY <1>3, <1>10, <1>11, BatchGoesOn
<1>13. /\ input' = input /\ base' = base /\ proposals' = proposals /\ flight' = flight
       /\ pc' = [pc EXCEPT ![r] = "sending"] /\ retries' = [retries EXCEPT ![r] = 0]
  BY DEF resume
<1>14. txs' = [txs EXCEPT ![r] = t]
  <2> DEFINE adds == [n \in 1..l - d |->
                        LET i == d + n IN Op("add", k, i, contents(r)[i])]
  <2>1. txs' = [txs EXCEPT ![r] = batchIntoLegacyTransactions(adds \o finish(k))]
    BY DEF resume
  <2>2. adds = addsFrom(P, k, d, l - d)
    <3> HIDE DEF P, k, l, d
    <3>1. \A n \in 1..l - d : start(P, k) + (d + n) = d + n
      BY <1>6, <1>8, <1>9
    <3> QED BY <1>4, <3>1 DEF addsFrom
  <2> HIDE DEF adds
  <2> QED BY <2>1, <2>2
<1>15. grows(proposals, proposals) /\ 0 \in Nat /\ 0 <= TIMEOUT /\ 0 < TIMEOUT
  BY <1>2, GrowsSame, GovernanceAssumption
<1>16. "sending" \in {"sending", "done", "failed"} /\ \A f \in flight' : f \in flight
  BY <1>13
<1> HIDE DEF t
<1> QED BY <1>2, <1>3, <1>12, <1>13, <1>14, <1>15, <1>16, ClientStep

\* A request that is refused at once proposes nothing.
LEMMA RefusedKeeps ==
  ASSUME ProposeInv, NEW r \in Req, pc[r] = "idle",
         input[r].kind = "wormhole" /\ Len(contents(r)) > MAX_INSTRUCTIONS_PER_PROPOSAL,
         propose(r)
  PROVE  ProposeInv'
<1>1. /\ input' = input /\ base' = base /\ txs' = txs /\ proposals' = proposals
      /\ flight' = flight /\ pc' = [pc EXCEPT ![r] = "failed"]
      /\ retries' = [retries EXCEPT ![r] = 0]
  BY DEF propose
<1>2. /\ ClientsTyped /\ Sound(proposals, plans, Active) /\ plans \in [Req -> Plan]
      /\ Active \in SUBSET Req /\ proposals \in Seq(Proposal) /\ \A q \in Req : fit(txs[q])
  BY PlansTyped DEF ProposeInv, Sound
<1>3. /\ pc \in [Req -> {"idle", "sending", "done", "failed"}] /\ retries \in [Req -> Nat]
      /\ \A q \in Req : retries[q] <= TIMEOUT
  BY <1>2 DEF ClientsTyped
<1>4. plans' = plans
  BY <1>1, PlansKept
<1>5. Active' = Active
  <2>1. \A q : contents(q)' = contents(q)
    BY <1>1, PlansKept
  <2>2. \A q \in Req : q # r => pc'[q] = pc[q]
    BY <1>1, <1>3
  <2>3. Len(contents(r)) \in Nat /\ MAX_INSTRUCTIONS_PER_PROPOSAL \in Nat
    <3>1. contents(r) \in Seq(Payload) \ {<<>>}
      BY <1>2, ContentsCut DEF ClientsTyped
    <3> QED BY <3>1, GovernanceAssumption
  <2>4. ~(Len(contents(r)) <= MAX_INSTRUCTIONS_PER_PROPOSAL)
    BY <2>3
  <2> QED BY <1>1, <2>1, <2>2, <2>4 DEF Active
<1>6. ClientsTyped'
  <2>1. /\ pc' \in [Req -> {"idle", "sending", "done", "failed"}] /\ retries' \in [Req -> Nat]
        /\ \A q \in Req : retries'[q] <= TIMEOUT
    BY <1>1, <1>3, GovernanceAssumption
  <2> QED BY <1>1, <1>2, <2>1 DEF ClientsTyped
<1>7. \A q \in Req : pc'[q] = "sending" =>
        pc[q] = "sending" /\ txs'[q] = txs[q] /\ retries'[q] = retries[q]
  BY <1>1, <1>3
<1>8. grows(proposals, proposals)
  BY <1>2, GrowsSame
<1> QED BY <1>1, <1>2, <1>4, <1>5, <1>6, <1>7, <1>8, Frame

\* A request lists its transactions, after the proposals that there are.
LEMMA ProposeKeeps ==
  ASSUME ProposeInv, NEW r \in Req, pc[r] = "idle",
         ~(input[r].kind = "wormhole" /\ Len(contents(r)) > MAX_INSTRUCTIONS_PER_PROPOSAL),
         propose(r)
  PROVE  ProposeInv'
<1> DEFINE P == [base |-> Len(proposals), cs |-> contents(r)]
           ops == proposeAll(r)
           t == batchIntoLegacyTransactions(ops)
<1>1. /\ input' = input /\ proposals' = proposals /\ flight' = flight
      /\ base' = [base EXCEPT ![r] = Len(proposals)] /\ txs' = [txs EXCEPT ![r] = t]
      /\ pc' = [pc EXCEPT ![r] = "sending"] /\ retries' = [retries EXCEPT ![r] = 0]
  BY DEF propose
<1>2. /\ ClientsTyped /\ Sound(proposals, plans, Active) /\ plans \in [Req -> Plan]
      /\ Active \in SUBSET Req /\ proposals \in Seq(Proposal) /\ \A q \in Req : fit(txs[q])
      /\ Len(proposals) \in Nat
  BY PlansTyped DEF ProposeInv, Sound
<1>3. /\ pc \in [Req -> {"idle", "sending", "done", "failed"}] /\ retries \in [Req -> Nat]
      /\ base \in [Req -> Nat] /\ txs \in [Req -> Seq(Seq(Operation))]
      /\ \A q \in Req : retries[q] <= TIMEOUT /\ base[q] <= Len(proposals)
  BY <1>2 DEF ClientsTyped
<1>4. contents(r) \in Seq(Payload) \ {<<>>}
  BY <1>2, ContentsCut DEF ClientsTyped
<1>5. P \in Plan /\ P.base = Len(proposals) /\ P.cs = contents(r)
  BY <1>2, <1>4 DEF Plan
<1>6. \A q : contents(q)' = contents(q)
  BY <1>1, PlansKept
<1>7. /\ plans'[r] = P /\ \A q \in Req : q # r => plans'[q] = plans[q]
      /\ plans' \in [Req -> Plan]
  <2>1. \A q \in Req : plans'[q] = [base |-> base'[q], cs |-> contents(q)]
    BY <1>6 DEF plans
  <2>2. \A q \in Req : plans[q] = [base |-> base[q], cs |-> contents(q)]
    BY DEF plans
  <2>3. plans'[r] = P
    BY <1>1, <1>3, <2>1
  <2>4. \A q \in Req : q # r => plans'[q] = plans[q]
    BY <1>1, <1>3, <2>1, <2>2
  <2>5. \A q \in Req : plans'[q] \in Plan
    BY <1>2, <1>5, <2>3, <2>4
  <2>6. plans' = [q \in Req |-> plans'[q]]
    BY DEF plans
  <2> QED BY <2>3, <2>4, <2>5, <2>6
<1> HIDE DEF P
<1>8. r \notin Active /\ r \in Active' /\ Active \subseteq Active' /\ Active' \in SUBSET Req
  <2>1. Len(contents(r)) \in Nat /\ MAX_INSTRUCTIONS_PER_PROPOSAL \in Nat
    BY <1>4, GovernanceAssumption
  <2>2. pc'[r] = "sending" /\ \A q \in Req : q # r => pc'[q] = pc[q]
    BY <1>1, <1>3
  <2>3. input[r].kind = "wormhole" => Len(contents(r)) <= MAX_INSTRUCTIONS_PER_PROPOSAL
    BY <2>1
  <2> QED BY <1>1, <1>6, <2>2, <2>3 DEF Active
<1>9. chain(P, ops) /\ firstOf(ops).type = "create" /\ firstOf(ops).k = P.base + 1
  <2> DEFINE max == MAX_INSTRUCTIONS_PER_PROPOSAL
  <2>1. ops = FlattenSeq([j \in 1..(Len(P.cs) + max - 1) \div max |->
                            writeProposal(P.base + j, P.cs, j - 1)])
    BY <1>5 DEF proposeAll
  <2> HIDE DEF ops
  <2> QED BY <1>5, <2>1, ProposedChain
<1>10. due(proposals, P, r, firstOf(ops))
  BY <1>9 DEF due
<1>11. t \in Seq(Seq(Operation)) /\ fit(t) /\ goesOn(r, t, proposals', plans', Active')
  <2> DEFINE pm == plans'
             B == Active'
  <2>1. r \in B /\ pm[r] = P
    BY <1>7, <1>8
  <2> HIDE DEF pm, B, ops
  <2>2. t \in Seq(Seq(Operation)) /\ fit(t) /\ goesOn(r, t, proposals, pm, B)
    BY <1>9, <1>10, <2>1, BatchGoesOn
  <2> QED BY <1>1, <2>2 DEF pm, B
<1> HIDE DEF t
<1>12. ClientsTyped'
  <2>1. /\ pc' \in [Req -> {"idle", "sending", "done", "failed"}] /\ retries' \in [Req -> Nat]
        /\ \A q \in Req : retries'[q] <= TIMEOUT
    BY <1>1, <1>3, GovernanceAssumption
  <2>2. base' \in [Req -> Nat] /\ \A q \in Req : base'[q] <= Len(proposals)
    BY <1>1, <1>2, <1>3
  <2>3. txs' \in [Req -> Seq(Seq(Operation))]
    BY <1>1, <1>3, <1>11
  <2>4. input' \in Inputs
    BY <1>1, <1>2 DEF ClientsTyped
  <2> QED BY <1>1, <2>1, <2>2, <2>3, <2>4 DEF ClientsTyped
<1>13. Sound(proposals', plans', Active')
  <2> DEFINE pm == plans'
             B == Active'
             pl == plans
             A == Active
  <2>1. Sound(proposals, pl, A) /\ A \subseteq B /\ \A q \in A : pm[q] = pl[q]
    BY <1>2, <1>7, <1>8
  <2> HIDE DEF pm, B, pl, A
  <2>2. Sound(proposals, pm, B)
    BY <2>1, SoundOther
  <2> QED BY <1>1, <2>2 DEF pm, B
<1>14. \A q \in Req : fit(txs'[q])
  BY <1>1, <1>2, <1>3, <1>11
<1>15. \A q \in Req : pc'[q] = "sending" =>
         \/ Sending(q)'
         \/ pc[q] = "sending" /\ txs'[q] = txs[q] /\ retries'[q] = retries[q]
  <2>1. Sending(r)'
    <3>1. txs'[r] = t /\ retries'[r] = 0 /\ 0 < TIMEOUT
      BY <1>1, <1>3, GovernanceAssumption
    <3> QED BY <1>11, <3>1 DEF Sending
  <2>2. \A q \in Req : q # r =>
          pc'[q] = pc[q] /\ txs'[q] = txs[q] /\ retries'[q] = retries[q]
    BY <1>1, <1>3
  <2> QED BY <2>1, <2>2
<1>16. grows(proposals, proposals') /\ \A q \in Active : plans'[q] = plans[q]
  BY <1>1, <1>2, <1>7, <1>8, GrowsSame
<1> QED BY <1>1, <1>7, <1>8, <1>12, <1>13, <1>14, <1>15, <1>16, Frame

\* At first there are no proposals.
LEMMA InitPropose == Init => ProposeInv
<1> SUFFICES ASSUME Init PROVE ProposeInv
  OBVIOUS
<1>1. /\ input \in Inputs /\ pc = [r \in Req |-> "idle"] /\ base = [r \in Req |-> 0]
      /\ txs = [r \in Req |-> <<>>] /\ retries = [r \in Req |-> 0]
      /\ proposals = <<>> /\ flight = {}
  BY DEF Init
<1>2. <<>> \in Seq(Seq(Operation)) /\ <<>> \in Seq(Proposal)
      /\ Len(<<>>) = 0 /\ 1..0 = {}
  OBVIOUS
<1>3. ClientsTyped
  <2>1. txs \in [Req -> Seq(Seq(Operation))]
    BY <1>1, <1>2
  <2>2. \A r \in Req : retries[r] <= TIMEOUT /\ base[r] <= Len(proposals)
    BY <1>1, GovernanceAssumption
  <2> QED BY <1>1, <2>1, <2>2 DEF ClientsTyped
<1>4. Sound(proposals, plans, Active)
  BY <1>1, <1>2 DEF Sound
<1>5. \A r \in Req : fit(txs[r])
  BY <1>1, <1>2 DEF fit
<1> QED BY <1>1, <1>3, <1>4, <1>5 DEF ProposeInv

\* The invariant of proposing is inductive.
LEMMA ProposeInvInductive == Spec => []ProposeInv
<1>1. ProposeInv /\ [Next]_vars => ProposeInv'
  <2> SUFFICES ASSUME ProposeInv, [Next]_vars PROVE ProposeInv'
    OBVIOUS
  <2>1. ASSUME NEW r \in Req, Propose(r) PROVE ProposeInv'
    <3>1. CASE propose(r)
      <4>1. pc[r] = "idle"
        BY <3>1 DEF propose
      <4> QED BY <3>1, <4>1, RefusedKeeps, ProposeKeeps
    <3> QED BY <2>1, <3>1, ResumeKeeps, ConfirmedKeeps, RetryKeeps DEF Propose
  <2>2. CASE Members
    BY <2>2, ApproveKeeps, CancelKeeps, CrankKeeps, LateKeeps DEF Members
  <2>3. CASE Crank
    BY <2>3, CrankKeeps
  <2>4. CASE Relay \/ UNCHANGED vars
    BY <2>4, RelayKeepsProposals
  <2> QED BY <2>1, <2>2, <2>3, <2>4 DEF Next
<1> QED BY <1>1, InitPropose, PTL DEF Spec

-----------------------------------------------------------------------------
(* What the invariant says of the proposals *)

\* What is known of a proposal.
LEMMA ProposalFacts ==
  ASSUME ProposeInv, NEW k \in 1..Len(proposals)
  PROVE  LET p == proposals[k]
             P == plans[p.owner]
         IN  /\ p.owner \in Req /\ p.ixs \in Seq(Payload) /\ Len(p.ixs) \in Nat
             /\ p.status \in Status /\ p.executed \in 0..Len(p.ixs)
             /\ P \in Plan /\ P.cs = contents(p.owner) /\ P.base = base[p.owner]
             /\ k \in Nat /\ k > P.base /\ inPlan(P, k)
             /\ start(P, k) \in Nat /\ planned(P, k) \in Nat \ {0}
             /\ start(P, k) + planned(P, k) <= Len(P.cs)
             /\ \/ planned(P, k) = MAX_INSTRUCTIONS_PER_PROPOSAL
                \/ start(P, k) + planned(P, k) = Len(P.cs)
             /\ Len(p.ixs) <= planned(P, k)
             /\ \A i \in 1..Len(p.ixs) : p.ixs[i] = P.cs[start(P, k) + i]
             /\ p.status # "draft" => Len(p.ixs) = planned(P, k)
             /\ follows(proposals, P, p.owner, k)
<1> DEFINE p == proposals[k]
           P == plans[p.owner]
<1>1. /\ Sound(proposals, plans, Active) /\ plans \in [Req -> Plan]
      /\ Active \in SUBSET Req /\ proposals \in Seq(Proposal)
  BY PlansTyped DEF ProposeInv, Sound
<1>2. slice(p, P, k) /\ follows(proposals, P, p.owner, k)
  BY <1>1 DEF Sound
<1>3. /\ p.owner \in Req /\ p.ixs \in Seq(Payload) /\ Len(p.ixs) \in Nat
      /\ p.status \in Status /\ p.executed \in Nat
  BY <1>1, ProposalTyped
<1>4. P \in Plan /\ P.cs = contents(p.owner) /\ P.base = base[p.owner]
  BY <1>1, <1>3 DEF plans
<1> HIDE DEF P, p
<1>5. /\ k \in Nat /\ k > P.base /\ inPlan(P, k) /\ Len(p.ixs) <= planned(P, k)
      /\ \A i \in 1..Len(p.ixs) : p.ixs[i] = P.cs[start(P, k) + i]
      /\ p.status # "draft" => Len(p.ixs) = planned(P, k)
      /\ p.executed <= Len(p.ixs)
  BY <1>2 DEF slice, inPlan
<1>6. /\ start(P, k) \in Nat /\ planned(P, k) \in Nat \ {0}
      /\ start(P, k) + planned(P, k) <= Len(P.cs)
      /\ \/ planned(P, k) = MAX_INSTRUCTIONS_PER_PROPOSAL
         \/ start(P, k) + planned(P, k) = Len(P.cs)
  BY <1>4, <1>5, PlanFacts
<1>7. p.executed \in 0..Len(p.ixs)
  BY <1>3, <1>5
<1> QED BY <1>2, <1>3, <1>4, <1>5, <1>6, <1>7 DEF P, p

\* The payloads and the transactions fit.
LEMMA ProposeFits == ProposeInv => BatchesFit
<1> SUFFICES ASSUME ProposeInv PROVE BatchesFit
  OBVIOUS
<1>1. ASSUME NEW k \in 1..Len(proposals), NEW b \in Range(proposals[k].ixs), Len(b) > 1
      PROVE  getSizeOfExecutorInstructions(b) <= MAX_EXECUTOR_PAYLOAD_SIZE
  <2> DEFINE p == proposals[k]
             P == plans[p.owner]
             r == p.owner
  <2>1. /\ r \in Req /\ p.ixs \in Seq(Payload) /\ Len(p.ixs) \in Nat
        /\ P \in Plan /\ P.cs = contents(r)
        /\ start(P, k) \in Nat /\ planned(P, k) \in Nat
        /\ start(P, k) + planned(P, k) <= Len(P.cs) /\ Len(p.ixs) <= planned(P, k)
        /\ \A i \in 1..Len(p.ixs) : p.ixs[i] = P.cs[start(P, k) + i]
    BY ProposalFacts
  <2>2. PICK i \in DOMAIN p.ixs : b = p.ixs[i]
    BY <1>1 DEF Range
  <2> HIDE DEF p, P, r
  <2>3. Len(P.cs) \in Nat
    BY <2>1 DEF Plan
  <2>4. i \in 1..Len(p.ixs)
    BY <2>1, <2>2
  <2> DEFINE m == start(P, k) + i
  <2>5. m \in 1..Len(P.cs) /\ b = P.cs[m]
    BY <2>1, <2>2, <2>3, <2>4
  <2> HIDE DEF m
  <2>6. m \in 1..Len(contents(r)) /\ Len(contents(r)[m]) > 1 /\ input \in Inputs
    BY <1>1, <2>1, <2>5 DEF ProposeInv, ClientsTyped
  <2>7. getSizeOfExecutorInstructions(contents(r)[m]) <= MAX_EXECUTOR_PAYLOAD_SIZE
    BY <2>1, <2>6, ContentsFit
  <2> QED BY <2>1, <2>5, <2>7
<1>2. ASSUME NEW r \in Req, NEW ops \in Range(txs[r]), Len(ops) > 1
      PROVE  getSizeOfTransaction(ops) + 2 <= PACKET_DATA_SIZE
  <2>1. fit(txs[r]) /\ txs[r] \in Seq(Seq(Operation))
    BY DEF ProposeInv, ClientsTyped
  <2>2. PICK n \in DOMAIN txs[r] : ops = txs[r][n]
    BY <1>2 DEF Range
  <2>3. n \in 1..Len(txs[r])
    BY <2>1, <2>2
  <2> QED BY <1>2, <2>1, <2>2, <2>3 DEF fit
<1> QED BY <1>1, <1>2 DEF BatchesFit

\* The last payload of a plan ends with the last instruction.
LEMMA LastPayload ==
  ASSUME input \in Inputs, NEW r \in Req
  PROVE  Last(contents(r)[Len(contents(r))]).n = Len(input[r].sizes)
<1> DEFINE ixs == Instructions(r)
           cs == contents(r)
           l == Len(cs)
           L == Len(input[r].sizes)
<1>1. /\ ixs \in Seq(Instruction) /\ Len(ixs) = L /\ L \in Nat \ {0}
      /\ \A i \in 1..L : ixs[i].n = i
      /\ cs \in Seq(Payload) \ {<<>>} /\ \E e : cuts(ixs, 1, cs, e)
  BY ContentsCut
<1>2. PICK e : cuts(ixs, 1, cs, e)
  BY <1>1
<1> HIDE DEF ixs, cs, L
<1>3. l \in Nat \ {0}
  BY <1>1
<1>4. /\ e \in [0..l -> 0..Len(ixs)] /\ e[l] = Len(ixs)
      /\ \A m \in 1..l : e[m - 1] < e[m] /\ cs[m] = SubSeq(ixs, e[m - 1] + 1, e[m])
  BY <1>2 DEF cuts
<1> HIDE DEF l
<1> DEFINE f == e[l - 1]
           b == SubSeq(ixs, f + 1, L)
<1>5. f \in Nat /\ f < L /\ cs[l] = b
  <2>1. l \in 1..l /\ l - 1 \in 0..l
    BY <1>3
  <2>2. f < L /\ cs[l] = b
    BY <1>1, <1>4, <2>1
  <2>3. f \in 0..Len(ixs)
    BY <1>4, <2>1
  <2> QED BY <1>1, <2>2, <2>3
<1> HIDE DEF f
<1>6. Len(b) = L - f /\ b[L - f] = ixs[L]
  <2>1. f + 1 \in 1..Len(ixs) + 1 /\ L \in (f + 1) - 1..Len(ixs) /\ f + 1 <= L
    BY <1>1, <1>5
  <2>2. Len(b) = L - f
    BY <1>1, <1>5, <2>1
  <2>3. b[L - f] = ixs[(f + 1) + (L - f) - 1]
    BY <1>1, <1>5, <2>1, <2>2
  <2>4. (f + 1) + (L - f) - 1 = L
    BY <1>1, <1>5
  <2> QED BY <2>2, <2>3, <2>4
<1> HIDE DEF b
<1>7. Last(b) = ixs[L]
  BY <1>6 DEF Last
<1>8. ixs[L].n = L
  BY <1>1
<1> QED BY <1>5, <1>7, <1>8 DEF cs, l, L

\* A proposal that can be voted on is complete.
LEMMA ProposeCompletes == ProposeInv => ActivatedIsComplete
<1> SUFFICES ASSUME ProposeInv, NEW k \in 1..Len(proposals), proposals[k].status # "draft",
                    Len(proposals[k].ixs) # MAX_INSTRUCTIONS_PER_PROPOSAL
             PROVE  /\ proposals[k].ixs # <<>>
                    /\ Last(Last(proposals[k].ixs)).n = Len(input[proposals[k].owner].sizes)
  BY DEF ActivatedIsComplete
<1> DEFINE p == proposals[k]
           P == plans[p.owner]
           r == p.owner
           l == Len(p.ixs)
<1>1. /\ r \in Req /\ p.ixs \in Seq(Payload) /\ l \in Nat /\ P.cs = contents(r)
      /\ planned(P, k) \in Nat \ {0} /\ l = planned(P, k)
      /\ start(P, k) + planned(P, k) = Len(P.cs)
      /\ \A i \in 1..l : p.ixs[i] = P.cs[start(P, k) + i]
  BY ProposalFacts
<1> HIDE DEF P, l
<1>2. p.ixs # <<>>
  BY <1>1 DEF l
<1>3. Last(p.ixs) = contents(r)[Len(contents(r))]
  <2>1. l \in 1..l
    BY <1>1
  <2>2. p.ixs[l] = P.cs[start(P, k) + l]
    BY <1>1, <2>1
  <2> QED BY <1>1, <2>2 DEF Last, l
<1>4. Last(contents(r)[Len(contents(r))]).n = Len(input[r].sizes)
  BY <1>1, LastPayload DEF ProposeInv, ClientsTyped
<1> QED BY <1>2, <1>3, <1>4

\* The first instructions of a request are a prefix of them.
LEMMA FirstIsPrefix ==
  ASSUME NEW X, NEW ixs \in Seq(X), NEW m \in 0..Len(ixs), NEW s,
         s = SubSeq(ixs, 1, m)
  PROVE  IsPrefix(s, ixs)
<1>1. Len(ixs) \in Nat /\ m \in Nat /\ m <= Len(ixs)
  OBVIOUS
<1>2. s \in Seq(X) /\ Len(s) = m /\ \A i \in 1..m : s[i] = ixs[i]
  BY <1>1
<1>3. SubSeq(s, 1, Len(s)) = s
  BY <1>1, <1>2
<1> QED BY <1>1, <1>2, <1>3 DEF IsPrefix

\* What request r wrote in proposal k.
writtenIn(r, k) ==
  IF proposals[k].owner = r THEN FlattenSeq(proposals[k].ixs) ELSE <<>>

\* After a proposal the instructions of a request go on where it was.
LEMMA WrittenStep ==
  ASSUME ProposeInv, NEW r \in Req, NEW e, cuts(Instructions(r), 1, contents(r), e),
         NEW k \in 0..Len(proposals) - 1, NEW c \in 0..Len(contents(r)),
         k \in 1..Len(proposals) /\ proposals[k].owner = r =>
           c = start(plans[r], k) + Len(proposals[k].ixs),
         k <= base[r] => c = 0
  PROVE  \E d \in 0..Len(contents(r)) :
           /\ SubSeq(Instructions(r), 1, e[c]) \o writtenIn(r, k + 1)
                = SubSeq(Instructions(r), 1, e[d])
           /\ proposals[k + 1].owner = r =>
                d = start(plans[r], k + 1) + Len(proposals[k + 1].ixs)
           /\ k + 1 <= base[r] => d = 0
<1> DEFINE ixs == Instructions(r)
           cs == contents(r)
           p == proposals[k + 1]
           P == plans[r]
           l == Len(p.ixs)
<1>1. /\ ixs \in Seq(Instruction) /\ cs \in Seq(Seq(Instruction)) /\ Len(cs) \in Nat
      /\ Len(ixs) \in Nat
  BY ContentsCut DEF ProposeInv, ClientsTyped, Payload
<1>2. e \in [0..Len(cs) -> 0..Len(ixs)]
  BY DEF cuts
<1>3. k \in Nat /\ k + 1 \in 1..Len(proposals) /\ base[r] \in Nat /\ e[c] \in 0..Len(ixs)
  <2>1. Len(proposals) \in Nat /\ base[r] \in Nat
    BY DEF ProposeInv, Sound, ClientsTyped
  <2>2. e[c] \in 0..Len(ixs)
    BY <1>2
  <2> QED BY <2>1, <2>2
<1> DEFINE s == SubSeq(ixs, 1, e[c])
<1>4. s \in Seq(Instruction)
  BY <1>1, <1>3
<1>5. CASE p.owner # r
  <2>1. writtenIn(r, k + 1) = <<>>
    BY <1>5 DEF writtenIn
  <2> HIDE DEF s
  <2>2. s \o <<>> = s
    BY <1>4
  <2>3. k + 1 <= base[r] => c = 0
    BY <1>3
  <2> QED BY <1>5, <2>1, <2>2, <2>3 DEF s
<1>6. CASE p.owner = r
  <2>1. /\ p.ixs \in Seq(Payload) /\ l \in Nat /\ P \in Plan /\ P.cs = cs /\ P.base = base[r]
        /\ k + 1 > P.base /\ inPlan(P, k + 1)
        /\ start(P, k + 1) \in Nat /\ planned(P, k + 1) \in Nat
        /\ start(P, k + 1) + planned(P, k + 1) <= Len(P.cs)
        /\ l <= planned(P, k + 1)
        /\ \A i \in 1..l : p.ixs[i] = P.cs[start(P, k + 1) + i]
        /\ follows(proposals, P, r, k + 1)
    BY <1>3, <1>6, ProposalFacts
  <2>2. c = start(P, k + 1)
    <3>1. CASE k + 1 = P.base + 1
      <4>1. k <= base[r] /\ c = 0
        BY <1>3, <2>1, <3>1
      <4>2. start(P, P.base + 1) = 0
        <5> HIDE DEF P
        <5> QED BY <2>1, PlanOrder
      <4> QED BY <3>1, <4>1, <4>2
    <3>2. CASE k + 1 # P.base + 1
      <4>1. (k + 1) - 1 = k /\ k + 1 > P.base + 1 /\ k + 1 \in Nat
        BY <1>3, <2>1, <3>2
      <4>2. complete(proposals, P, r, k)
        BY <2>1, <3>2, <4>1 DEF follows
      <4>3. /\ k \in 1..Len(proposals) /\ proposals[k].owner = r
            /\ Len(proposals[k].ixs) = planned(P, k)
        BY <4>2 DEF complete, begun
      <4>4. c = start(P, k) + planned(P, k)
        BY <4>3
      <4>5. start(P, k + 1) = start(P, (k + 1) - 1) + planned(P, (k + 1) - 1)
        <5> HIDE DEF P
        <5> QED BY <2>1, <4>1, PlanOrder
      <4> QED BY <4>1, <4>4, <4>5
    <3> QED BY <3>1, <3>2
  <2>3. /\ FlattenSeq(p.ixs) = SubSeq(ixs, e[c] + 1, e[c + l]) /\ e[c] <= e[c + l]
        /\ c + l \in 0..Len(cs)
    <3> DEFINE q == p.ixs
    <3>1. q \in Seq(Seq(Instruction)) /\ c \in Nat /\ \A i \in 1..Len(q) : q[i] = cs[c + i]
      BY <2>1, <2>2 DEF Payload
    <3>2. c + Len(q) <= Len(cs) /\ c + Len(q) \in Nat /\ Len(q) = l
      BY <1>1, <2>1, <2>2, <3>1
    <3> HIDE DEF q, ixs, cs
    <3>3. cuts(ixs, 1, cs, e)
      BY DEF ixs, cs
    <3>4. FlattenSeq(q) = SubSeq(ixs, e[c] + 1, e[c + Len(q)]) /\ e[c] <= e[c + Len(q)]
      BY <1>1, <3>1, <3>2, <3>3, FlattenSlice
    <3>5. c + Len(q) \in 0..Len(cs)
      BY <1>1, <3>2
    <3> QED BY <3>2, <3>4, <3>5 DEF q
  <2> DEFINE x == e[c]
             y == e[c + l]
  <2>4. x \in 0..Len(ixs) /\ y \in 0..Len(ixs) /\ x <= y
    BY <1>2, <1>3, <2>3
  <2>5. SubSeq(ixs, 1, x) \o SubSeq(ixs, x + 1, y) = SubSeq(ixs, 1, y)
    <3> HIDE DEF x, y, ixs
    <3>1. 1 \in 1..Len(ixs) + 1 /\ x \in 1 - 1..Len(ixs) /\ y \in x..Len(ixs)
      BY <1>1, <2>4
    <3> QED BY <1>1, <3>1, ConcatAdjacentSubSeq, Zenon
  <2>6. writtenIn(r, k + 1) = SubSeq(ixs, x + 1, y)
    BY <1>6, <2>3 DEF writtenIn
  <2>7. ~(k + 1 <= base[r])
    BY <1>3, <2>1
  <2> HIDE DEF l
  <2>8. c + l \in 0..Len(cs) /\ SubSeq(ixs, 1, e[c]) \o writtenIn(r, k + 1) = SubSeq(ixs, 1, e[c + l])
    BY <2>3, <2>5, <2>6
  <2>9. c + l = start(P, k + 1) + Len(p.ixs)
    BY <2>2 DEF l
  <2> DEFINE d == c + l
  <2>10. /\ d \in 0..Len(cs)
         /\ SubSeq(ixs, 1, e[c]) \o writtenIn(r, k + 1) = SubSeq(ixs, 1, e[d])
         /\ d = start(P, k + 1) + Len(p.ixs)
    BY <2>8, <2>9
  <2> HIDE DEF d
  <2> QED BY <2>7, <2>10
<1> QED BY <1>5, <1>6

\* The proposals of a request hold the first of its instructions.
LEMMA ProposeHolds == ProposeInv => ProposalsHoldOneRequest
<1> SUFFICES ASSUME ProposeInv, NEW r \in Req PROVE IsPrefix(written(r), Instructions(r))
  BY DEF ProposalsHoldOneRequest
<1> DEFINE ixs == Instructions(r)
           cs == contents(r)
           N == Len(proposals)
           w == [k \in 1..N |-> writtenIn(r, k)]
           W(k) == IF k = 0 THEN <<>> ELSE flat(w)[k]
           right(k, c, e) ==
             /\ W(k) = SubSeq(ixs, 1, e[c])
             /\ k \in 1..N /\ proposals[k].owner = r =>
                  c = start(plans[r], k) + Len(proposals[k].ixs)
             /\ k <= base[r] => c = 0
<1>1. /\ ixs \in Seq(Instruction) /\ cs \in Seq(Payload) \ {<<>>} /\ Len(ixs) \in Nat
      /\ \E e : cuts(ixs, 1, cs, e)
  BY ContentsCut DEF ProposeInv, ClientsTyped
<1>2. PICK e : cuts(ixs, 1, cs, e)
  BY <1>1
<1>3. e \in [0..Len(cs) -> 0..Len(ixs)] /\ e[0] = 0 /\ Len(cs) \in Nat
  <2>1. e \in [0..Len(cs) -> 0..Len(ixs)] /\ e[0] = 1 - 1
    BY <1>2 DEF cuts
  <2> QED BY <1>1, <2>1
<1>4. N \in Nat
  BY DEF ProposeInv, Sound
<1> HIDE DEF N
<1>5. ASSUME NEW k \in 1..N PROVE w[k] = writtenIn(r, k) /\ w[k] \in Seq(Instruction)
  <2>1. writtenIn(r, k) \in Seq(Instruction)
    <3>1. CASE proposals[k].owner # r
      BY <3>1 DEF writtenIn
    <3>2. CASE proposals[k].owner = r
      <4> DEFINE p == proposals[k]
                 P == plans[p.owner]
                 q == p.ixs
                 a == start(P, k)
                 l == Len(q)
      <4>1. /\ q \in Seq(Payload) /\ l \in Nat /\ P.cs = contents(p.owner)
            /\ a \in Nat /\ planned(P, k) \in Nat
            /\ a + planned(P, k) <= Len(P.cs) /\ l <= planned(P, k)
            /\ \A i \in 1..l : q[i] = P.cs[a + i]
        BY ProposalFacts DEF N
      <4>2. P.cs = cs
        BY <3>2, <4>1
      <4> HIDE DEF P, a, q, p, cs, ixs
      <4>3. a + l <= Len(cs) /\ a + l \in 0..Len(cs) /\ a \in 0..Len(cs)
        BY <1>3, <4>1, <4>2
      <4>4. q \in Seq(Seq(Instruction)) /\ cs \in Seq(Seq(Instruction))
        BY <1>1, <4>1 DEF Payload
      <4>5. FlattenSeq(q) = SubSeq(ixs, e[a] + 1, e[a + l])
        <5>1. /\ ixs \in Seq(Instruction) /\ cuts(ixs, 1, cs, e) /\ a \in Nat
              /\ a + Len(q) <= Len(cs) /\ \A i \in 1..Len(q) : q[i] = cs[a + i]
          BY <1>1, <1>2, <4>1, <4>2, <4>3
        <5>2. FlattenSeq(q) = SubSeq(ixs, e[a] + 1, e[a + Len(q)]) /\ e[a] <= e[a + Len(q)]
          <6> HIDE DEF w, W, right, N
          <6> QED BY <4>4, <5>1, FlattenSlice
        <5> QED BY <5>2
      <4>6. e[a] \in 0..Len(ixs) /\ e[a + l] \in 0..Len(ixs)
        BY <1>3, <4>3
      <4>7. SubSeq(ixs, e[a] + 1, e[a + l]) \in Seq(Instruction)
        <5> DEFINE x == e[a]
                   y == e[a + l]
        <5>1. x \in 0..Len(ixs) /\ y \in 0..Len(ixs)
          BY <4>6
        <5> HIDE DEF x, y
        <5>2. SubSeq(ixs, x + 1, y) \in Seq(Instruction)
          BY <1>1, <5>1
        <5> QED BY <5>2 DEF x, y
      <4>8. writtenIn(r, k) = FlattenSeq(q)
        BY <3>2 DEF writtenIn, q, p
      <4> QED BY <4>5, <4>7, <4>8
    <3> QED BY <3>1, <3>2
  <2> QED BY <2>1
<1>6. w \in [1..N -> Seq(Instruction)] /\ Len(w) = N
  <2>1. w \in [1..N -> Seq(Instruction)]
    BY <1>5
  <2> HIDE DEF w
  <2> QED BY <1>4, <2>1, FunctionIsSeq
<1>7. written(r) = FlattenSeq(w)
  BY DEF written, writtenIn, N
<1> HIDE DEF w
<1>8. /\ FlattenSeq(w) = IF N = 0 THEN w ELSE flat(w)[N]
      /\ N > 0 => flat(w)[1] = w[1]
      /\ \A i \in 1..N - 1 : flat(w)[i + 1] = flat(w)[i] \o w[i + 1]
  BY <1>4, <1>6, FlatSteps
<1>9. ASSUME NEW k \in 0..N - 1 PROVE W(k + 1) = W(k) \o w[k + 1]
  <2>1. k + 1 # 0 /\ k \in Nat /\ k + 1 \in 1..N
    BY <1>4
  <2>2. CASE k = 0
    <3>1. w[1] \in Seq(Instruction) /\ k + 1 = 1 /\ N > 0
      BY <1>4, <1>5, <2>1, <2>2
    <3>2. <<>> \o w[1] = w[1]
      BY <3>1
    <3> QED BY <1>8, <2>2, <3>1, <3>2
  <2>3. CASE k # 0
    <3>1. k \in 1..N - 1
      BY <1>4, <2>3
    <3> QED BY <1>8, <2>1, <2>3, <3>1
  <2> QED BY <2>2, <2>3
<1> DEFINE good == {k \in Nat : k <= N => \E c \in 0..Len(cs) : right(k, c, e)}
<1> HIDE DEF ixs, cs, W
<1>10. 0 \in good
  <2>1. W(0) = <<>> /\ SubSeq(ixs, 1, 0) = <<>>
    BY <1>1 DEF W
  <2>2. 0 \in 0..Len(cs) /\ ~(0 \in 1..N)
    BY <1>3, <1>4
  <2>3. right(0, 0, e)
    BY <1>3, <2>1, <2>2
  <2> HIDE DEF right
  <2> QED BY <2>2, <2>3
<1>11. ASSUME NEW k \in Nat, k \in good PROVE k + 1 \in good
  <2> SUFFICES ASSUME k + 1 <= N PROVE \E d \in 0..Len(cs) : right(k + 1, d, e)
    <3> HIDE DEF right
    <3>1. k + 1 \in Nat
      OBVIOUS
    <3> QED BY <3>1
  <2>1. k <= N /\ k \in 0..N - 1 /\ k + 1 \in 1..N
    BY <1>4
  <2>2. PICK c \in 0..Len(cs) : right(k, c, e)
    <3> HIDE DEF right
    <3> QED BY <1>11, <2>1
  <2>3. PICK d \in 0..Len(cs) :
          /\ SubSeq(ixs, 1, e[c]) \o writtenIn(r, k + 1) = SubSeq(ixs, 1, e[d])
          /\ proposals[k + 1].owner = r =>
               d = start(plans[r], k + 1) + Len(proposals[k + 1].ixs)
          /\ k + 1 <= base[r] => d = 0
    <3>1. /\ k \in 1..Len(proposals) /\ proposals[k].owner = r =>
               c = start(plans[r], k) + Len(proposals[k].ixs)
          /\ k <= base[r] => c = 0
      BY <2>2 DEF N
    <3> QED BY <1>2, <2>1, <3>1, WrittenStep DEF ixs, cs, N
  <2>4. W(k + 1) = SubSeq(ixs, 1, e[d])
    BY <1>5, <1>9, <2>1, <2>2, <2>3
  <2>5. right(k + 1, d, e)
    BY <2>3, <2>4
  <2> HIDE DEF right
  <2> QED BY <2>5
<1>12. Nat \subseteq good
  <2> HIDE DEF good
  <2> QED BY <1>10, <1>11, SetInduction
<1>13. PICK c \in 0..Len(cs) : right(N, c, e)
  <2>1. N <= N
    BY <1>4
  <2> HIDE DEF right
  <2> QED BY <1>4, <1>12, <2>1
<1>14. FlattenSeq(w) = W(N)
  <2>1. CASE N = 0
    <3>1. w = <<>>
      BY <1>6, <2>1
    <3> QED BY <1>8, <2>1, <3>1 DEF W
  <2>2. CASE N # 0
    BY <1>8, <2>2 DEF W
  <2> QED BY <2>1, <2>2
<1>15. written(r) = SubSeq(ixs, 1, e[c]) /\ e[c] \in 0..Len(ixs)
  BY <1>3, <1>7, <1>13, <1>14
<1> QED BY <1>1, <1>15, FirstIsPrefix DEF ixs

-----------------------------------------------------------------------------
(* The theorems *)

\* Both invariants give every part of the state its type.
LEMMA TypesFromInvariants == ProposeInv /\ RelayInv => TypeOK
<1> SUFFICES ASSUME ProposeInv, RelayInv PROVE TypeOK
  OBVIOUS
<1>1. pc \in [Req -> {"idle", "sending", "done", "failed"}]
  BY DEF ProposeInv, ClientsTyped
<1>2. \A r \in Req : retries[r] \in 0..TIMEOUT /\ base[r] \in 0..Len(proposals)
  <2> TAKE r \in Req
  <2>1. /\ retries[r] \in Nat /\ base[r] \in Nat /\ retries[r] <= TIMEOUT
        /\ base[r] <= Len(proposals)
    BY DEF ProposeInv, ClientsTyped
  <2>2. TIMEOUT \in Nat /\ Len(proposals) \in Nat
    BY GovernanceAssumption DEF ProposeInv, Sound
  <2> QED BY <2>1, <2>2
<1>3. \A k \in 1..Len(proposals) :
        /\ proposals[k].owner \in Req /\ proposals[k].status \in Status
        /\ proposals[k].executed \in 0..Len(proposals[k].ixs)
  BY ProposalFacts
<1>4. /\ relayer \in Stopped..Len(messages) - 1 /\ claim \in -1..Len(messages) - 1
      /\ relayFlight \subseteq 0..Len(messages) - 1
  <2>1. Len(messages) \in Nat
    BY AppendAny DEF RelayInv, RelayTyped
  <2> QED BY <2>1 DEF RelayInv, RelayTyped, Stopped
<1> QED BY <1>1, <1>2, <1>3, <1>4 DEF TypeOK

\* The clients, the proposals and the claim record have their types: no
\* request makes more than TIMEOUT attempts, no proposal executes more than
\* it holds, and the relayer and the claim record name posted messages.
THEOREM TypesCorrect == Spec => []TypeOK
<1> QED BY TypesFromInvariants, ProposeInvInductive, RelayInvInductive, PTL

\* Whatever clients run at a time, whatever transactions are retried or land
\* late, and wherever a request is resumed: the proposals that a request
\* created hold the first of its instructions, in order, each once and no
\* others (proposeInstructions, sendAllTransactions).
THEOREM ProposalsHoldInOrder == Spec => []ProposalsHoldOneRequest
<1> QED BY ProposeHolds, ProposeInvInductive, PTL

\* A proposal that members can vote on is full, or it ends with the last
\* instruction of its request: no late or lost transaction activates one
\* that is cut short.
THEOREM ActivatedComplete == Spec => []ActivatedIsComplete
<1> QED BY ProposeCompletes, ProposeInvInductive, PTL

\* Batching keeps to the limits: a payload of several instructions fits in
\* MAX_EXECUTOR_PAYLOAD_SIZE, a transaction of several operations in
\* PACKET_DATA_SIZE.
THEOREM EveryBatchFits == Spec => []BatchesFit
<1> QED BY ProposeFits, ProposeInvInductive, PTL
=============================================================================
