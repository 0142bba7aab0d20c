----------------------------- MODULE MCPromotion -----------------------------
(* Instances of Promotion for TLC: one family in the seeded catalog and one  *)
(* an editor adds, and repositories of every kind around one model.          *)
EXTENDS Promotion

CONSTANTS
    hub, fixture, qwen, google, foo, bar,
    baseRepo, plainRepo, otherFamily, unproven, tuneRepo, twinRepo, reupload, ownTune

MCFamilies == {[name |-> "qwen", developer |-> qwen], [name |-> "gemma", developer |-> google]}
MCSeedFamilies == {f \in MCFamilies : f.developer = qwen}

MCLists == [s \in Sources |-> IF s = hub THEN Repos ELSE Repos \cap {baseRepo, plainRepo, tuneRepo, otherFamily}]
MCAllListed == [s \in Sources |-> Repos]

Root8B(owner, name, kind) ==
    [owner |-> owner, name |-> name, bases |-> {}, unmet |-> {}, kind |-> kind,
     licensed |-> TRUE, observed |-> "36 layers",
     release |-> "Qwen3", model |-> "Qwen3 8B", score |-> [qwen |-> 1, gemma |-> 0]]
TuneOf(base, owner, name) ==
    [Root8B(owner, name, "none") EXCEPT !.bases = {base}]

MCFacts ==
    [r \in Repos |->
       CASE r = baseRepo -> Root8B(qwen, "Qwen3-8B-Base", "base")
         [] r = plainRepo -> [Root8B(qwen, "Qwen3-8B", "none") EXCEPT !.licensed = FALSE, !.observed = "37 layers"]
         [] r = otherFamily -> [Root8B(google, "gemma-4-12B-it", "instruct") EXCEPT
                                  !.release = "Gemma 4", !.model = "Gemma 4 12B",
                                  !.score = [qwen |-> 0, gemma |-> 1]]
         [] r = unproven -> [Root8B(qwen, "Qwen3-99B", "base") EXCEPT
                                  !.model = "Qwen3 99B", !.unmet = {"name_size_mismatch"}]
         [] r = tuneRepo -> TuneOf(baseRepo, foo, "Tuned")
         [] r = twinRepo -> TuneOf(baseRepo, bar, "Tuned")
         [] r = reupload -> TuneOf(baseRepo, bar, "Qwen3-8B-Base")
         [] r = ownTune -> TuneOf(baseRepo, qwen, "Qwen3-8B-Instruct")]
=============================================================================
