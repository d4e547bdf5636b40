-------------------------- MODULE HashChainProofs --------------------------
(***************************************************************************)
(* Every number of every chain is revealed by the element Entropy expects, *)
(* for all lengths, sample intervals and rotations: the index into the     *)
(* kept elements is in range, also when sample_interval does not divide    *)
(* the length and the uneven segment is at the front.                      *)
(***************************************************************************)
EXTENDS HashChain, FiniteSetTheorems, SequenceTheorems, TLAPS

\* Quotient and remainder.
LEMMA Division ==
  ASSUME NEW a \in Nat, NEW s \in Nat \ {0}
  PROVE  /\ a \div s \in Nat
         /\ (a \div s) * s \in Nat
         /\ (a \div s) * s <= a
         /\ a < (a \div s) * s + s
  BY SMTT(30)

\* Dividing by the same interval keeps the order.
LEMMA QuotientMonotone ==
  ASSUME NEW a \in Nat, NEW b \in Nat, NEW s \in Nat \ {0}, a <= b
  PROVE  a \div s <= b \div s
<1> DEFINE p == a \div s
           q == b \div s
<1>1. p \in Nat /\ q \in Nat /\ p * s <= a /\ b < q * s + s
  BY Division
<1>2. p * s < (q + 1) * s
  BY <1>1
<1> HIDE DEF p, q
<1>3. p < q + 1
  <2>1. ASSUME p >= q + 1 PROVE p * s >= (q + 1) * s
    BY <1>1, <2>1, SMTT(30)
  <2> QED BY <1>1, <1>2, <2>1
<1>4. p <= q
  BY <1>1, <1>3
<1> QED BY <1>4 DEF p, q

\* reveal_ith computes the element that is i places before the end.
LEMMA RevealIth ==
  ASSUME NEW length \in Nat \ {0}, NEW i \in Nat, i < length
  PROVE  reveal_ith(length, i) = length - 1 - i
<1> DEFINE s == sample_interval
           fromEnd == ((length - 1) - i) \div s
           last == (length - 1) \div s
<1>1. s \in Nat \ {0}
  BY HashChainAssumption
<1>2. (length - 1) - i \in Nat /\ length - 1 \in Nat /\ (length - 1) - i <= length - 1
  OBVIOUS
<1>3. /\ fromEnd \in Nat /\ fromEnd * s \in Nat
      /\ fromEnd * s <= (length - 1) - i
  BY <1>1, <1>2, Division
<1>4. last \in Nat /\ fromEnd <= last
  BY <1>1, <1>2, Division, QuotientMonotone
<1>5. hashLen(length) = 1 + last
  BY DEF hashLen
<1> HIDE DEF fromEnd, last
<1>6. last - fromEnd \in 0..hashLen(length) - 1
  BY <1>3, <1>4, <1>5
<1>7. hash(length)[last - fromEnd] = (hashLen(length) - 1 - (last - fromEnd)) * s
  BY <1>6 DEF hash
<1>8. hashLen(length) - 1 - (last - fromEnd) = fromEnd
  BY <1>3, <1>4, <1>5
<1>9. hash(length)[last - fromEnd] = fromEnd * s
  BY <1>7, <1>8
<1>10. hashLen(length) - 1 - fromEnd = last - fromEnd
  BY <1>3, <1>4, <1>5
<1> DEFINE i_index == length - 1 - fromEnd * s
<1>11. i_index \in Int /\ i_index >= i /\ digests(i_index, i) = i_index - i
  BY <1>3 DEF digests
<1>12. reveal_ith(length, i) = hash(length)[hashLen(length) - 1 - fromEnd] + digests(i_index, i)
  BY DEF reveal_ith, fromEnd
<1>13. reveal_ith(length, i) = fromEnd * s + (i_index - i)
  BY <1>12, <1>10, <1>9, <1>11
<1> QED BY <1>13, <1>3

\* The fields of a commitment are numbers, and a chain is not empty.
LEMMA CommitmentType ==
  /\ Len(commitments) \in Nat
  /\ \A c \in 1..Len(commitments) :
       commitments[c].offset \in Nat /\ commitments[c].length \in Nat \ {0}
<1> DEFINE Record == [offset : Nat, length : Nat \ {0}]
<1>1. commitments \in Seq(Record)
  BY HashChainAssumption
<1>2. \A r \in Record : r.offset \in Nat /\ r.length \in Nat \ {0}
  OBVIOUS
<1> HIDE DEF Record
<1>3. Len(commitments) \in Nat
  BY <1>1, LenProperties
<1>4. ASSUME NEW c \in 1..Len(commitments) PROVE commitments[c] \in Record
  BY <1>1, <1>4, ElementOfSeq
<1> QED BY <1>2, <1>3, <1>4

\* partition_point finds a chain that starts at or before the number.
LEMMA ChainStarts ==
  ASSUME NEW n \in Nat, chain_index(n) > 0
  PROVE  /\ chain_index(n) \in 1..Len(commitments)
         /\ commitments[chain_index(n)].offset <= n
<1> DEFINE L == Len(commitments)
           S == {c \in 1..L : commitments[c].offset <= n}
           k == Cardinality(S)
<1>1. L \in Nat /\ \A c \in 1..L : commitments[c].offset \in Nat
  BY CommitmentType
<1>2. IsFiniteSet(1..L) /\ Cardinality(1..L) = L
  <2> HIDE DEF L, S, k
  <2>1. 1 \in Int /\ L \in Int /\ (1 > L <=> L = 0)
    BY <1>1
  <2>2. IsFiniteSet(1..L) /\ Cardinality(1..L) = IF 1 > L THEN 0 ELSE L - 1 + 1
    BY <2>1, FS_Interval
  <2> QED BY <2>1, <2>2, <1>1
<1>3. IsFiniteSet(S) /\ k \in Nat /\ k <= L
  <2>1. S \subseteq 1..L
    OBVIOUS
  <2> HIDE DEF S, L
  <2> QED BY <1>2, <2>1, FS_Subset, FS_CardinalityType
<1>4. k = chain_index(n)
  BY DEF chain_index
<1>5. \A c \in S : c \in 1..L /\ commitments[c].offset <= n
  OBVIOUS
<1> HIDE DEF L, S
<1>6. k \in 1..L
  BY <1>1, <1>3, <1>4
<1>7. ASSUME commitments[k].offset > n PROVE FALSE
  <2>1. S \subseteq 1..(k - 1)
    <3> SUFFICES ASSUME NEW c \in S PROVE c \in 1..(k - 1)
      OBVIOUS
    <3>1. c \in 1..L /\ commitments[c].offset <= n
      BY <1>5
    <3> HIDE DEF k
    <3>2. k < c => commitments[k].offset < commitments[c].offset
      BY <3>1, <1>6, HashChainAssumption DEF L
    <3>3. commitments[k].offset \in Nat /\ commitments[c].offset \in Nat
      BY <3>1, <1>1, <1>6
    <3>4. c # k
      BY <3>1, <3>3, <1>7
    <3>5. ~(k < c)
      BY <3>1, <3>2, <3>3, <1>7
    <3> QED BY <3>1, <3>4, <3>5, <1>1, <1>6
  <2>2. IsFiniteSet(1..(k - 1)) /\ Cardinality(1..(k - 1)) = k - 1
    <3> HIDE DEF k
    <3>1. 1 \in Int /\ k - 1 \in Int /\ k - 1 >= 0
      BY <1>1, <1>6
    <3>2. /\ IsFiniteSet(1..(k - 1))
          /\ Cardinality(1..(k - 1)) = IF 1 > k - 1 THEN 0 ELSE (k - 1) - 1 + 1
      BY <3>1, FS_Interval
    <3> QED BY <3>1, <3>2
  <2>3. k <= k - 1
    BY <2>1, <2>2, FS_Subset
  <2> QED BY <2>3, <1>3
<1>8. commitments[k].offset <= n
  <2> HIDE DEF k
  <2> QED BY <1>1, <1>6, <1>7
<1> QED BY <1>4, <1>6, <1>8 DEF L

\* Every number that can be revealed is revealed by the expected element.
THEOREM RevealCorrect ==
  ASSUME NEW n \in Nat, canReveal(n)
  PROVE  reveal(n) = expectedElement(n)
<1> DEFINE c == commitments[chain_index(n)]
<1>1. chain_index(n) \in 1..Len(commitments) /\ c.offset <= n
  BY ChainStarts DEF canReveal
<1>2. c.offset \in Nat /\ c.length \in Nat \ {0}
  BY <1>1, CommitmentType
<1>3. n - c.offset \in Nat /\ n - c.offset < c.length
  BY <1>1, <1>2 DEF canReveal
<1>4. reveal_ith(c.length, n - c.offset) = c.length - 1 - (n - c.offset)
  BY <1>2, <1>3, RevealIth
<1> QED BY <1>4 DEF reveal, expectedElement
=============================================================================
