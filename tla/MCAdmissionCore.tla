-------------------------- MODULE MCAdmissionCore --------------------------
(* Model-checking instance of AdmissionCore: calls and workers are model    *)
(* values; both sets are symmetric in the safety runs.                      *)
EXTENDS AdmissionCore, TLC

CONSTANTS c1, c2, c3, w1, w2

MCCalls == {c1, c2, c3}
MCWorkers == {w1, w2}
MCWorker1 == {w1}
MCCalls2 == {c1, c2}
MCCall1 == {c1}

Symmetry == Permutations(MCCalls) \cup Permutations(MCWorkers)
=============================================================================
