\* Lagging RPC nodes, a full channel, a crash: requests are neither lost nor
\* taken twice, and each one is handled in the end.
SPECIFICATION FairSpec
CONSTANTS
  Us = Us
  OtherProvider = {}
  User = {alice, bob}
  NoUser = NoUser
  HeavyUser = {bob}
  commitments <- FiveElements
  sample_interval = 3
  reveal_delay_blocks = 1
  max_num_hashes = 0
  RETRY_PREVIOUS_BLOCKS = 1
  BACKLOG_RANGE = 1
  BLOCK_BATCH_SIZE = 1
  block_delays <- OneDelay
  ChannelCapacity = 1
  MaxRetries = 0
  MaxLag = 1
  ReorgDepth = 0
  InitialHead = 2
  MaxBlock = 5
  MaxRequest = 2
  MaxCrash = 1
INVARIANTS
  OneTaskPerRequest
  NoRequestSkipped
PROPERTY
  EveryRequestHandled
CHECK_DEADLOCK FALSE
