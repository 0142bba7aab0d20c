---------------------------- MODULE MCEnrichment ----------------------------
(* Instances of Enrichment for TLC: an entity to reindex and one to enrich,  *)
(* whose first change leaves the facts as they are.                          *)
EXTENDS Enrichment, TLC

CONSTANTS j1, j2, j3, k1, k2, w1, w2, t1, t2

MCJobs == {j1, j2, j3}
MCKeys == {k1, k2}
MCSubjects == {k2}
MCWorkers == {w1, w2}
MCOnce == {w1, w2}
MCService == {}
MCWriters == {t1, t2}
MCInputOf == (0 :> "before") @@ (1 :> "before") @@ (2 :> "after")

Symmetry == Permutations(MCJobs) \cup Permutations(MCWorkers) \cup Permutations(MCWriters)
=============================================================================
