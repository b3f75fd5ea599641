\* The response, read on its own, followed by its one-unit config tail and
\* one message.
CONSTANTS
  HsSize = 2
  MsgSize = 2
  MaxWrites = 0
  PayloadSize = 1
  MaxMsgs = 1
  MaxFailures = 0
SPECIFICATION Spec
CHECK_DEADLOCK FALSE
INVARIANT FramesAreMessages
