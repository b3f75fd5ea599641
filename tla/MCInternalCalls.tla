--------------------------- MODULE MCInternalCalls ---------------------------
(* Model values for InternalCalls: three internal calls, a configured and an *)
(* unknown func_id, and up to two callee workers.                            *)
EXTENDS InternalCalls, TLC

CONSTANTS i1, i2, i3, w1, w2, fKnown, fUnknown

MCCalls == {i1, i2, i3}
MCCalls2 == {i1, i2}
MCFuncs == {fKnown, fUnknown}
MCConfigured == {fKnown}
MCWorkers == {w1, w2}
MCWorker1 == {w1}

\* Calls and callee workers are interchangeable; used only for invariants.
Symmetry == Permutations(MCCalls) \cup Permutations(MCWorkers)
=============================================================================
