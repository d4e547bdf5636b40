SPECIFICATION FairSpec
CONSTANTS
  Feed = {f1}
  ClosedFeed = {}
  Quote <- MCQuote
  Config <- MCConfig
  MaxPush = 2
  GasPrice = {1, 2}
  overrideGasPriceMultiplier = 2
  overrideGasPriceMultiplierCap = 3
  MaxTime = 2
  MaxTx = 6
  MaxFault = 1
  MaxLoad = 2
INVARIANTS
  TypeOK
  OneTransactionPending
PROPERTIES
  TargetCacheAdvances
  PushDecidedOnCurrentPrice
  TargetFollowsSource
CHECK_DEADLOCK FALSE
