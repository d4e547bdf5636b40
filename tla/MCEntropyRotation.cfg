\* One provider that rotates its hash chain under pending requests; blocks.
SPECIFICATION Spec
CONSTANTS
  Provider = {p1}
  Requester = {alice}
  ContractAccount = {}
  Manager = {}
  Owner = owner
  AdminAccount = {admin}
  NoAddress = NoAddress
  PrefillAddress = PrefillAddress
  Chain = {c1, c2}
  NoChain = NoChain
  UserNumber = {u1}
  NoNumber = NoNumber
  Uri = {uri}
  NoUri = NoUri
  Slot = {0, 1}
  ShortKey <- MCShortKey
  ChainLength = {2, 3}
  Fee = {0}
  Value = {0}
  Amount = {}
  HashLimit = {1}
  MaxUint64 = 5
  MaxUint128 = 0
  MaxUint32 = 5
  BlockhashWindow = 1
  MaxBlock = 2
  MaxCallDepth = 0
INVARIANTS
  ProviderCounters
  RevealsCommittedNumber
  CommitmentTracksChain
SYMMETRY ChainSymmetry
CHECK_DEADLOCK FALSE
