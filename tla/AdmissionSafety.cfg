\* Safety of the admission core and its refinement of AdmissionAbstract:
\* 3 calls, one worker, cap 1, one worker disconnection. No symmetry: the
\* refinement is a temporal property.
CONSTANTS
  c1 = c1  c2 = c2  c3 = c3  w1 = w1  w2 = w2
  NoCall = NoCall
  Calls <- MCCalls
  Workers <- MCWorker1
  Cap = 1
  MaxCrashes = 1
  MaxReconnects = 0
SPECIFICATION Spec
\* The gateway is an event loop: once every request is answered and no
\* worker acts, it waits for input, which is not a deadlock.
CHECK_DEADLOCK FALSE
INVARIANT TypeOK
INVARIANT CapRespected
INVARIANT SingleFinish
INVARIANT NoLostContext
INVARIANT InvokedCallsTracked
INVARIANT WorkerInputAvailable
PROPERTY ImplementsAdmissionAbstract
