SPECIFICATION MCSpec
CONSTANTS
  Req = {r1, r2}
  r1 = r1
  r2 = r2
  Inputs <- MCInputs
  MAX_INSTRUCTIONS_PER_PROPOSAL = 2
  MAX_EXECUTOR_PAYLOAD_SIZE = 2
  PACKET_DATA_SIZE = 6
  TIMEOUT = 2
  MaxResume = 1
  MaxFault = 1
INVARIANTS
  TypeOK
  ProposalsHoldOneRequest
  ActivatedIsComplete
  BatchesFit
  NoMessageSkipped
PROPERTIES
  ApprovedIsExecuted
CHECK_DEADLOCK FALSE
