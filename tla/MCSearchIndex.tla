---------------------------- MODULE MCSearchIndex ----------------------------
(* Instances of SearchIndex for TLC: two entities, two writers, two workers. *)
EXTENDS SearchIndex, TLC

CONSTANTS j1, j2, j3, k1, k2, w1, w2, t1, t2

MCJobs == {j1, j2, j3}
MCKeys == {k1, k2}
MCOneKey == {k1}
MCWorkers == {w1, w2}
MCOnce == {w1, w2}
MCService == {}
MCWriters == {t1, t2}

Symmetry == Permutations(MCJobs) \cup Permutations(MCWorkers) \cup Permutations(MCWriters)
=============================================================================
