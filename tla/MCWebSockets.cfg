SPECIFICATION Spec
CONSTANTS
  Sdk = {"lazer", "price_service"}
  Conn = {1, 2}
  Sub = {s1}
  Msg = {m1}
  Unhandled = {"throw", "warn"}
  MaxRequest = 2
  MaxTimeout = 1
  MaxFault = 2
  Feed = {f1, f2}
  MaxCall = 4
INVARIANTS
  LazerTypeOK
  LazerNoSocketLeaked
  LazerDeliveredOnce
  PriceServiceNoSocketLeaked
PROPERTIES
  LazerSubscriptionsRestored
  LazerShutdownIsFinal
  PriceServiceFollowsCallbacks
CHECK_DEADLOCK FALSE
