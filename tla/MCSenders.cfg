SPECIFICATION Spec
CONSTANTS
  Push = {1, 2}
  Task = {1, 2}
  MaxSequence = 3
  MaxFault = 2
  MaxNonce = 6
  Wallet <- ThreeCoins
  ignoreGasObjects = {}
  ChunkSize = 2
  numGasObjects = 2
  MaxVersion = 3
INVARIANTS
  AptosOneFetch
  SuiCoinsPartitioned
  SuiMergedAllUnlocked
PROPERTIES
  AptosRecovers
  InjectiveRecovers
  SuiReferencesRecover
  FortunaNoTaskBlocked
CHECK_DEADLOCK FALSE
