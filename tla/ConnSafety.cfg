\* The gateway's response carries the config JSON as a one-unit inline tail,
\* as server.cpp:269-270 always sends it.
CONSTANTS
  HsSize = 2
  MsgSize = 2
  MaxWrites = 2
  PayloadSize = 1
  MaxMsgs = 3
  MaxFailures = 2
SPECIFICATION FairSpec
\* A closed connection, or one whose handshake read has stalled, has no
\* further step: the watchdog's loop then waits, which is not a deadlock.
CHECK_DEADLOCK FALSE
INVARIANT TypeOK
PROPERTY ClosingEventuallyClosed
PROPERTY GatewayRejectClosesConnection
