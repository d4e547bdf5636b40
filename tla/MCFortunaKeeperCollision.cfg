\* A second provider whose numbers coincide with ours: a request of ours is lost.
SPECIFICATION Spec
CONSTANTS
  Us = Us
  OtherProvider = {Other}
  User = {alice}
  NoUser = NoUser
  HeavyUser = {}
  commitments <- FiveElements
  sample_interval = 3
  reveal_delay_blocks = 1
  max_num_hashes = 0
  RETRY_PREVIOUS_BLOCKS = 1
  BACKLOG_RANGE = 1
  BLOCK_BATCH_SIZE = 1
  block_delays <- NoDelays
  ChannelCapacity = 1
  MaxRetries = 0
  MaxLag = 0
  ReorgDepth = 0
  InitialHead = 1
  MaxBlock = 4
  MaxRequest = 2
  MaxCrash = 0
INVARIANT
  NoRequestSkipped
CHECK_DEADLOCK FALSE
