-------------------------- MODULE InjectivePusher --------------------------
(***************************************************************************)
(* signAndBroadcastMsg of InjectivePricePusher                             *)
(* (apps/price_pusher/src/injective): the account is fetched once and its  *)
(* sequence is counted locally; a sequence mismatch drops the account.     *)
(*                                                                         *)
(* Pushes are not awaited and share the account field, which is read again *)
(* after every await.                                                      *)
(***************************************************************************)
EXTENDS Integers

CONSTANTS
  Push,          \* slots for pushes in progress
  MaxSequence,   \* bound on the transactions accepted
  MaxFault       \* bound on the failures

VARIABLES
  expected,      \* sequence the chain expects next
  account,       \* baseAccount.sequence of the field account
  pushes,
  faults

vars == <<expected, account, pushes, faults>>

Null == -1
Idle == [pc |-> "idle", seq |-> 0]

Init ==
  /\ expected = 0 /\ account = Null /\ faults = 0
  /\ pushes = [p \in Push |-> Idle]

moveTo(p, pc, seq) == pushes' = [pushes EXCEPT ![p] = [pc |-> pc, seq |-> seq]]

useAccount(p) ==
  /\ pushes[p].pc = "idle" /\ account # Null
  /\ moveTo(p, "simulate", account)
  /\ UNCHANGED <<expected, account, faults>>

\* The right side of ??= is evaluated when the field is null and assigned
\* when the answer arrives, whatever the field has become.
fetchAccount(p) ==
  /\ pushes[p].pc = "idle" /\ account = Null
  /\ moveTo(p, "fetch", expected)
  /\ UNCHANGED <<expected, account, faults>>

assignAccount(p) ==
  /\ pushes[p].pc = "fetch"
  /\ account' = pushes[p].seq
  /\ moveTo(p, "simulate", pushes[p].seq)
  /\ UNCHANGED <<expected, faults>>

\* Mutant: a mismatch in the simulation leaves the account.
simulateKeepsAccount(p) ==
  /\ pushes[p].pc = "simulate"
  /\ IF pushes[p].seq # expected \/ account = Null
     THEN moveTo(p, "idle", 0) /\ UNCHANGED account
     ELSE /\ account <= MaxSequence
          /\ account' = account + 1
          /\ moveTo(p, "broadcast", account)
  /\ UNCHANGED <<expected, faults>>

\* A mismatch clears the account.  After a good simulation the transaction
\* is built from the account as it is then, which is an error if it is null,
\* and the account is counted up.  Signing waits for no call.
simulate(p) ==
  /\ pushes[p].pc = "simulate"
  /\ IF pushes[p].seq # expected
     THEN account' = Null /\ moveTo(p, "idle", 0)
     ELSE \/ /\ account = Null
             /\ moveTo(p, "idle", 0)
             /\ UNCHANGED account
          \/ /\ account # Null /\ account <= MaxSequence
             /\ account' = account + 1
             /\ moveTo(p, "broadcast", account)
  /\ UNCHANGED <<expected, faults>>

broadcast(p) ==
  /\ pushes[p].pc = "broadcast"
  /\ \/ /\ pushes[p].seq = expected /\ expected < MaxSequence
        /\ expected' = expected + 1
        /\ UNCHANGED account
     \/ /\ pushes[p].seq # expected
        /\ account' = Null
        /\ UNCHANGED expected
  /\ moveTo(p, "idle", 0)
  /\ UNCHANGED faults

\* Any other error of a call leaves the account as it is; the transaction of
\* a broadcast may have been accepted.
callFails(p) ==
  /\ pushes[p].pc \in {"fetch", "simulate", "broadcast"}
  /\ faults < MaxFault /\ faults' = faults + 1
  /\ \/ UNCHANGED expected
     \/ /\ pushes[p].pc = "broadcast" /\ pushes[p].seq = expected
        /\ expected < MaxSequence /\ expected' = expected + 1
  /\ moveTo(p, "idle", 0)
  /\ UNCHANGED account

PushStep(p) ==
  \/ useAccount(p) \/ fetchAccount(p) \/ assignAccount(p)
  \/ simulate(p) \/ broadcast(p)

Next == \E p \in Push : PushStep(p) \/ callFails(p)

-----------------------------------------------------------------------------
\* However the account was overwritten, counted twice or left behind by a
\* failed broadcast, the pusher gets back to the sequence the chain expects.
AccountRecovers == <>(expected = MaxSequence)
=============================================================================
