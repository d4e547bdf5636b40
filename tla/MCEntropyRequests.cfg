\* Two providers, numbers that collide in the array; no fees, no nested calls.
SPECIFICATION Spec
CONSTANTS
  Provider = {p1, p2}
  Requester = {alice}
  ContractAccount = {}
  Manager = {}
  Owner = owner
  AdminAccount = {admin}
  NoAddress = NoAddress
  PrefillAddress = PrefillAddress
  Chain = {c1}
  NoChain = NoChain
  UserNumber = {u1}
  NoNumber = NoNumber
  Uri = {uri}
  NoUri = NoUri
  Slot = {0, 1}
  ShortKey <- MCShortKey
  ChainLength = {3}
  Fee = {0}
  Value = {0}
  Amount = {}
  HashLimit = {}
  MaxUint64 = 3
  MaxUint128 = 0
  MaxUint32 = 3
  BlockhashWindow = 1
  MaxBlock = 1
  MaxCallDepth = 0
INVARIANTS
  TableFindsPending
  RevealedOnce
SYMMETRY ProviderSymmetry
CHECK_DEADLOCK FALSE
