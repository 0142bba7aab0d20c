------------------------------ MODULE MCJobQueue ------------------------------
(* Instances of JobQueue for TLC: a few rows, one dedupe key, and processes  *)
(* of the two kinds (a service, and one started with --once).                *)
EXTENDS JobQueue, TLC

CONSTANTS j1, j2, k1, w1, w2, w3

MCJobs == {j1, j2}
MCKeys == {k1}
MCWorkers == {w1, w2, w3}
MCTwoWorkers == {w1, w2}
MCOnce == {w2}

Symmetry == Permutations(MCJobs)
=============================================================================
