--------------------------- MODULE EntropyLedger ---------------------------
(***************************************************************************)
(* The Entropy contract implements the randomness ledger: an observer who  *)
(* sees only committed transactions sees ledger steps.  While an external  *)
(* call is open nothing is committed yet, so the committed storage is the  *)
(* one saved by the outermost call.                                        *)
(***************************************************************************)
EXTENDS Entropy

committedEvents == IF callStack = << >> THEN events ELSE callStack[1].events

\* The answer combines the committed user number with the provider's element,
\* and with the hash of the request's block exactly when it was asked for.
answers(req, n) ==
  /\ req.commitment =
       Commitment(constructUserCommitment(n.user),
                  constructProviderCommitment(req.numHashes, n.provider))
  /\ n.blockHash = blockhashOf(req)

\* A number that was answered again has an entry that the ledger does not know.
ledgerEntry(log) ==
  CASE Len(log) = 0 -> [status |-> "unused"]
    [] Len(log) = 1 -> [status |-> "open", request |-> log[1].request]
    [] Len(log) = 2 -> [status |-> "answered", request |-> log[2].request,
                        number |-> log[2].randomNumber]
    [] OTHER -> [status |-> "repeated", log |-> log]

Ledger == INSTANCE RandomnessLedger
            WITH Number <- SeqNo, Answers <- answers,
                 ledger <- [k \in Key |-> ledgerEntry(committedEvents[k])]

\* The contract, with its collisions, rotations, reentrant calls and reverts,
\* implements the ledger: numbers are given out in increasing order, each is
\* answered at most once, for its own request, and a reverted call leaves no
\* trace.
ImplementsLedger == Ledger!Spec
=============================================================================
