----------------------------- MODULE MCCommunity -----------------------------
(* Instances of CommunityPages for TLC: a member and a moderator, two        *)
(* requests at a time, one subject with two rating dimensions.               *)
EXTENDS CommunityPages, TLC

CONSTANTS ann, mod, r1, r2, speed, quality

Symmetry == Permutations({r1, r2}) \cup Permutations({speed, quality})
=============================================================================
