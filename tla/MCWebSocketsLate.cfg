SPECIFICATION Spec
CONSTANTS
  Sdk = {"lazer"}
  Conn = {1, 2}
  Sub = {s1}
  Msg = {m1}
  Unhandled = {"warn"}
  MaxRequest = 1
  MaxTimeout = 1
  MaxFault = 2
  Feed = {f1}
  MaxCall = 1
PROPERTIES
  LazerReconnectCallsBack
CHECK_DEADLOCK FALSE
