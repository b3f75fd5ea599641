CONSTANTS
  HsSize = 2
  MsgSize = 2
  MaxWrites = 2
  PayloadSize = 0
  MaxMsgs = 1
  MaxFailures = 0
SPECIFICATION Spec
CHECK_DEADLOCK FALSE
INVARIANT HandshakeBufferBounded
