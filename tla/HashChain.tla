----------------------------- MODULE HashChain -----------------------------
(***************************************************************************)
(* The hash chains of Fortuna (apps/fortuna/src/state.rs).  A chain of a   *)
(* given length is made by hashing a secret over and over, and is revealed *)
(* from its end: digests are one way, so an element is known here by how   *)
(* often the secret was hashed after the first digest.  Only every         *)
(* sample_interval-th element is kept, the others are computed again.      *)
(*                                                                         *)
(* A provider that rotates its commitment has several chains, each one     *)
(* from the sequence number where it was registered.                       *)
(***************************************************************************)
EXTENDS Integers, Sequences, FiniteSets

CONSTANTS
  commitments,      \* [offset, length] of each chain, in order of offset
  sample_interval

ASSUME HashChainAssumption ==
  /\ commitments \in Seq([offset : Nat, length : Nat \ {0}])
  /\ \A i, j \in 1..Len(commitments) :
       i < j => commitments[i].offset < commitments[j].offset
  /\ sample_interval \in Nat \ {0}

\* PebbleHashChain::new: how many elements of a chain are kept, and which one
\* is at each index of `hash` after hash.reverse().
hashLen(length) == 1 + (length - 1) \div sample_interval

hash(length) ==
  [index \in 0..hashLen(length) - 1 |-> (hashLen(length) - 1 - index) * sample_interval]

\* Digests of the loop that brings i_index down to i.
digests(i_index, i) == IF i_index > i THEN i_index - i ELSE 0

\* Mutant: counts the intervals from the front of the chain.
reveal_from_front(length, i) ==
  LET index == i \div sample_interval
  IN  hash(length)[index] + digests((index + 1) * sample_interval, i)

\* reveal_ith: the nearest kept element further up the chain, hashed until its
\* index in the chain has come down to i.
reveal_ith(length, i) ==
  LET fromEnd == ((length - 1) - i) \div sample_interval
      i_index == length - 1 - fromEnd * sample_interval
  IN  hash(length)[hashLen(length) - 1 - fromEnd] + digests(i_index, i)

\* HashChainState::reveal: the last chain that starts at or before the number
\* (partition_point over the sorted offsets).
chain_index(n) == Cardinality({c \in 1..Len(commitments) : commitments[c].offset <= n})

canReveal(n) ==
  /\ chain_index(n) > 0
  /\ n - commitments[chain_index(n)].offset < commitments[chain_index(n)].length

reveal(n) ==
  reveal_ith(commitments[chain_index(n)].length, n - commitments[chain_index(n)].offset)

\* What the contract accepts for number n: hashed as often as n is numbers past
\* the start of the chain, it gives the commitment, the last element.
expectedElement(n) ==
  commitments[chain_index(n)].length - 1 - (n - commitments[chain_index(n)].offset)
=============================================================================
