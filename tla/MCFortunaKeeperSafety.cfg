\* Reorgs as deep as the reveal delay, two providers, retries, and the updater
\* of the commitment at its tightest limit.
SPECIFICATION Spec
CONSTANTS
  Us = Us
  OtherProvider = {Other}
  User = {alice, bob}
  NoUser = NoUser
  HeavyUser = {}
  commitments <- FiveElements
  sample_interval = 3
  reveal_delay_blocks = 1
  max_num_hashes = 1
  RETRY_PREVIOUS_BLOCKS = 0
  BACKLOG_RANGE = 1
  BLOCK_BATCH_SIZE = 0
  block_delays <- NoDelays
  ChannelCapacity = 1
  MaxRetries = 1
  MaxLag = 0
  ReorgDepth = 1
  InitialHead = 1
  MaxBlock = 4
  MaxRequest = 2
  MaxCrash = 0
INVARIANTS
  TypeOK
  DisclosedNumbersFinal
  DisclosedElementsExpected
SYMMETRY UserSymmetry
CHECK_DEADLOCK FALSE
