-------------------------- MODULE RandomnessLedger --------------------------
(***************************************************************************)
(* What the Entropy contract promises its users, without hash table,       *)
(* commitments or call stack: a ledger with one entry per provider and     *)
(* number.  A transaction commits a set of entries at once; an entry is    *)
(* opened under a number above all the numbers its provider has given out, *)
(* is answered once, and never changes otherwise.                          *)
(***************************************************************************)
EXTENDS Naturals

CONSTANTS
  Provider,        \* randomness providers
  Number,          \* sequence numbers
  Answers(_, _)    \* Answers(req, n): the random number n answers request req

VARIABLE ledger

Unused == [status |-> "unused"]
Open(req) == [status |-> "open", request |-> req]
Answered(req, n) == [status |-> "answered", request |-> req, number |-> n]

used(entry) == entry # Unused

\* An entry once opened keeps its request, and an answer is final.
entryStep(before, after) ==
  \/ after = before
  \/ ~used(before) /\ after.status \in {"open", "answered"}
  \/ /\ before.status = "open" /\ after.status = "answered"
     /\ after = Answered(before.request, after.number)

\* A new number is above every number that was in the ledger before.
fresh(p, s) == \A t \in Number : used(ledger[<<p, t>>]) => t < s

Init == ledger = [k \in Provider \X Number |-> Unused]

Commit ==
  \A p \in Provider, s \in Number :
    LET before == ledger[<<p, s>>]
        after  == ledger'[<<p, s>>]
    IN  /\ entryStep(before, after)
        /\ ~used(before) /\ used(after) => fresh(p, s)
        /\ after # before /\ used(after) /\ after.status = "answered"
             => Answers(after.request, after.number)

Spec == Init /\ [][Commit]_ledger
=============================================================================
