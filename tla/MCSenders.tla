----------------------------- MODULE MCSenders -----------------------------
(***************************************************************************)
(* Four programs that number their transactions, or hand out gas coins,    *)
(* from a local cache.  They are alternatives, one for each target chain:  *)
(* a behaviour is one of the program that sender names.                    *)
(***************************************************************************)
EXTENDS Integers, Sequences

ThreeCoins == <<"c1", "c2", "c3">>

CONSTANTS
  Push, Task, MaxSequence, MaxFault, MaxNonce,
  Wallet, ignoreGasObjects, ChunkSize, numGasObjects, MaxVersion

ASSUME SuiAssumption ==
  /\ Wallet \in Seq({Wallet[k] : k \in DOMAIN Wallet})
  /\ ChunkSize \in Nat \ {0} /\ numGasObjects \in Nat

VARIABLES
  sender,
  sequence, mempool, lastSequenceNumber, sequenceNumberLocked, pushes,
  expected, account, injectivePushes,
  phase, locked, i, lockedAddresses, merged, version, gasPool, tasks, late,
  count, pool, fulfilled, initialized, nonce, reveals,
  faults

Aptos == INSTANCE AptosPusher
Injective == INSTANCE InjectivePusher WITH pushes <- injectivePushes
Sui == INSTANCE SuiPusher
Fortuna == INSTANCE NonceManager WITH mempool <- pool, tasks <- reveals

aptosVars == <<sequence, mempool, lastSequenceNumber, sequenceNumberLocked,
               pushes>>
injectiveVars == <<expected, account, injectivePushes>>
suiVars == <<phase, locked, i, lockedAddresses, merged, version, gasPool,
             tasks, late>>
fortunaVars == <<count, pool, fulfilled, initialized, nonce, reveals>>
vars == <<sender, aptosVars, injectiveVars, suiVars, fortunaVars, faults>>

Init ==
  /\ sender \in {"aptos", "injective", "sui", "fortuna"}
  /\ Aptos!Init /\ Injective!Init /\ Fortuna!Init
  /\ Sui!Init /\ (sender # "sui" => locked = {})

InAptos(A) ==
  sender = "aptos" /\ A
    /\ UNCHANGED <<sender, injectiveVars, suiVars, fortunaVars>>
InInjective(A) ==
  sender = "injective" /\ A
    /\ UNCHANGED <<sender, aptosVars, suiVars, fortunaVars>>
InSui(A) ==
  sender = "sui" /\ A
    /\ UNCHANGED <<sender, aptosVars, injectiveVars, fortunaVars>>
InFortuna(A) ==
  sender = "fortuna" /\ A
    /\ UNCHANGED <<sender, aptosVars, injectiveVars, suiVars>>

Next ==
  \/ InAptos(Aptos!Next) \/ InInjective(Injective!Next)
  \/ InSui(Sui!Next) \/ InFortuna(Fortuna!Next)

\* Calls return, timeouts fire, the controller keeps pushing, and chains
\* execute the transactions they can execute.
Fairness ==
  /\ WF_vars(InAptos(Aptos!execute)) /\ WF_vars(InFortuna(Fortuna!execute))
  /\ WF_vars(InSui(Sui!InitStep))
  /\ \A p \in Push : /\ WF_vars(InAptos(Aptos!PushStep(p)))
                     /\ WF_vars(InInjective(Injective!PushStep(p)))
  /\ \A t \in Task : /\ WF_vars(InSui(Sui!TaskStep(t)))
                     /\ WF_vars(InFortuna(Fortuna!TaskStep(t)))

Spec == Init /\ [][Next]_vars /\ Fairness

\* The lock of AptosPricePusher admits one fetch and is always released.
AptosOneFetch == Aptos!OneFetch

\* AptosPricePusher gets back in step with the sequence of its account.
AptosRecovers == sender = "aptos" => Aptos!SequenceRecovers

\* InjectivePricePusher gets back in step with the sequence of its account.
InjectiveRecovers == sender = "injective" => Injective!AccountRecovers

\* No coin of SuiPricePusher is lost or used by two transactions.
SuiCoinsPartitioned == Sui!CoinsPartitioned

\* The gas pool of SuiPricePusher is made from every coin that can be used.
SuiMergedAllUnlocked == Sui!MergedAllUnlocked

\* A stale reference in the gas pool of SuiPricePusher is renewed.
SuiReferencesRecover == sender = "sui" => Sui!ReferencesRecover

\* A reveal of Fortuna that is not given up gets a nonce with which it executes.
FortunaNoTaskBlocked == sender = "fortuna" => Fortuna!NoTaskBlocked
=============================================================================
