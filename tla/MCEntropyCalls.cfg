\* Fees, overpayment, fee managers, and contracts that call back into Entropy
\* while a withdrawal or a consumer callback is in progress, two calls deep.
SPECIFICATION Spec
CONSTANTS
  Provider = {p1}
  Requester = {alice}
  ContractAccount = {alice}
  Manager = {manager}
  Owner = admin
  AdminAccount = {admin}
  NoAddress = NoAddress
  PrefillAddress = PrefillAddress
  Chain = {c1}
  NoChain = NoChain
  UserNumber = {u1}
  NoNumber = NoNumber
  Uri = {uri}
  NoUri = NoUri
  Slot = {0}
  ShortKey <- OneSlot
  ChainLength = {3}
  Fee = {1}
  Value = {2, 3}
  Amount = {1}
  HashLimit = {}
  MaxUint64 = 3
  MaxUint128 = 3
  MaxUint32 = 3
  BlockhashWindow = 1
  MaxBlock = 1
  MaxCallDepth = 2
PROPERTY
  ImplementsLedger
INVARIANTS
  TypeOK
  RevealedOnce
  Solvency
CHECK_DEADLOCK FALSE
