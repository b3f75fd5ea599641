\* Two calls to the configured function and one worker: the second INVOKE_FUNC
\* finds no idle worker.
CONSTANTS
  i1 = i1  i2 = i2  i3 = i3  w1 = w1  w2 = w2
  fKnown = fKnown  fUnknown = fUnknown
  NoCall = NoCall  NoFunc = NoFunc
  Funcs <- MCFuncs
  Configured <- MCConfigured
  Calls <- MCCalls2
  Workers <- MCWorker1
  MaxCrashes = 0
  MaxReconnects = 0
SPECIFICATION FairSpec
CHECK_DEADLOCK FALSE
PROPERTY ConfiguredCallAnswered
