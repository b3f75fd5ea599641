\* Internal calls: 3 calls, 2 callee workers, one disconnection and one
\* handshake, a configured and an unknown func_id.
CONSTANTS
  i1 = i1  i2 = i2  i3 = i3  w1 = w1  w2 = w2
  fKnown = fKnown  fUnknown = fUnknown
  NoCall = NoCall  NoFunc = NoFunc
  Funcs <- MCFuncs
  Configured <- MCConfigured
  Calls <- MCCalls
  Workers <- MCWorkers
  MaxCrashes = 1
  MaxReconnects = 1
SYMMETRY Symmetry
SPECIFICATION Spec
\* The gateway waits for input once every handler has ended.
CHECK_DEADLOCK FALSE
INVARIANT TypeOK
INVARIANT AnsweredAtMostOnce
INVARIANT InternalCallAccounted
