CONSTANTS
  c1 = c1
  c2 = c2
  c3 = c3
  w1 = w1
  w2 = w2
  NoCall = NoCall
  Calls <- MCCall1
  Workers <- MCWorker1
  Cap = 0
  MaxCrashes = 0
  MaxReconnects = 0
SPECIFICATION Spec
CHECK_DEADLOCK FALSE
INVARIANT ErrorOnlyFromWorker
