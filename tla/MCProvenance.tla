---------------------------- MODULE MCProvenance ----------------------------
(* Instances of Provenance for TLC: three sources, two of one priority.     *)
EXTENDS Provenance

CONSTANTS fixture, hub, mirror, p1, p2, v1, v2

MCPriority == [s \in Sources |-> IF s = fixture THEN 40 ELSE 60]
=============================================================================
