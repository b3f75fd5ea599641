CONSTANTS
  c1 = c1
  c2 = c2
  c3 = c3
  w1 = w1
  w2 = w2
  NoCall = NoCall
  Calls <- MCCalls2
  Workers <- MCWorker1
  Cap = 1
  MaxCrashes = 0
  MaxReconnects = 1
SPECIFICATION FairSpec
CHECK_DEADLOCK FALSE
PROPERTY PendingEventuallyDispatched
