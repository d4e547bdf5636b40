----------------------------- MODULE MCEntropy -----------------------------
(***************************************************************************)
(* Instances of the Entropy contract for TLC.                              *)
(***************************************************************************)
EXTENDS EntropyLedger, FiniteSetsExt, TLC

\* Numbers of one parity share a slot of the array, across providers.
MCShortKey(provider, sequenceNumber) == sequenceNumber % 2

\* Every request shares the one slot.
OneSlot(provider, sequenceNumber) == 0

\* Providers are addresses, of which there are 2^160.
ASSUME ProvidersFinite == IsFiniteSet(Provider)

ProviderSymmetry == Permutations(Provider)
ChainSymmetry == Permutations(Chain)

\* The wei the contract holds are exactly the fees it owes to the providers
\* and to Pyth, so no sequence of payments, withdrawals (the receiver may call
\* back before the transfer returns) and reverts overdraws it.
Solvency ==
  balance = accruedPythFeesInWei
              + MapThenSumSet(LAMBDA p : providers[p].accruedFeesInWei, Provider)
=============================================================================
