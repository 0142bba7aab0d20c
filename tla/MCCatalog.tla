------------------------------ MODULE MCCatalog ------------------------------
(* Instances of Catalog for TLC. Q is listed twice on the leaderboard, Duo *)
(* stands for two repositories and is ambiguous; the second edition leaves *)
(* one row incomplete and changes every score.                             *)
EXTENDS Catalog

Listed(key, modelName, isRepo, displayName, fc) ==
    [key |-> key, modelName |-> modelName, isRepo |-> isRepo, displayName |-> displayName, fc |-> fc]

ViaApi == Listed("q-fc", "q", FALSE, "Q (FC)", TRUE)
ViaHub == Listed("Q/Q-fc", "Q/Q", TRUE, "Q (FC)", TRUE)
Prompted == Listed("Q/Q", "Q/Q", TRUE, "Q (Prompt)", FALSE)
Twins == << Listed("A/T", "A/T", TRUE, "Duo", TRUE), Listed("B/T", "B/T", TRUE, "Duo", TRUE) >>

Columns == << "irrelevance", "live_multiple", "live_parallel", "live_parallel_multiple", "live_simple", "memory_kv",
              "memory_rec_sum", "memory_vector", "multi_turn_base", "multi_turn_long_context", "multi_turn_miss_func",
              "multi_turn_miss_param", "non_live_multiple", "non_live_parallel", "non_live_parallel_multiple",
              "non_live_simple", "web_search_base", "web_search_no_snippet" >>
Score(n, k) == (37 * n + 11 * (CHOOSE i \in DOMAIN Columns : Columns[i] = k)) % 101
Scored(n, columns) == FoldSet(LAMBDA k, scores : scores @@ (k :> Score(n, k)), << >>, columns)
Published(name, n) == [name |-> name, scores |-> Scored(n, Range(Columns))]
Partly(name, n) == [name |-> name, scores |-> Scored(n, Range(Columns) \ {"memory_kv"})]

MCEditions ==
    << [table |-> << Published("Q (FC)", 1), Published("Q (Prompt)", 2) >>, configs |-> << ViaApi, ViaHub, Prompted >>],
       [table |-> << Published("Duo", 3), Published("Q (FC)", 4), Partly("Q (Prompt)", 5) >>,
        configs |-> << ViaApi, ViaHub, Prompted >> \o Twins] >>

MCRepositories == [r \in {"Q/Q", "A/T", "B/T"} |-> CASE r = "Q/Q" -> "q" [] r = "A/T" -> "t-a" [] r = "B/T" -> "t-b"]
MCKnown == {"A/T", "B/T"}

Variant(slug, model, released) == [slug |-> slug, model |-> model, released |-> released]
MCVariants == << Variant("q", "Q", 12), Variant("t-a", "T", 10), Variant("t-b", "T", 10), Variant("u", "U", 14) >>

Run(benchmark, subject, config, origin, measuredOn) ==
    [dedupeKey |-> Null, benchmark |-> benchmark, subject |-> subject, config |-> config, source |-> "catalog",
     origin |-> origin, measuredOn |-> measuredOn]
Claim(id, benchmark, subject, config, value) ==
    [run |-> Run(benchmark, subject, config, "developer_reported", 0) @@ [id |-> id, createdAt |-> 0],
     results |-> (Whole :> value)]
Plain == Config("unspecified", 0)

MCSeeded ==
    {Claim(7, "humaneval", "q", Plain, 72), Claim(8, "humaneval", "t-a", Plain, 70), Claim(9, "humaneval", "t-b", Plain, 72),
     Claim(10, "livecodebench", "u", Plain, 40), Claim(11, "aider", "q", Config("agentic", 1), 61),
     Claim(12, "aider", "q", Config("agentic", 2), 45)}
MCReports ==
    {[run |-> Run("bfcl", "q", Config("function_calling", 0), "developer_reported", 5), results |-> ("memory_kv" :> 90)]}

Older == [BfclTree EXCEPT !["live"].method = "pooled", !["irrelevance"].weight = 0]
MCOlderTrees == {[k \in DOMAIN Older \ {"memory_rec_sum"} |-> Older[k]]}
MCSwitched == {"bfcl_leaderboard"}
MCRunIds == 1..3

FamilyRow(slug, parent, developer) == [slug |-> slug, parent |-> parent, developer |-> developer]
MCFamilyRows ==
    << FamilyRow("a", "", "a"), FamilyRow("b", "", "a"), FamilyRow("c", "", "c"), FamilyRow("d", "", "d"),
       FamilyRow("q", "", "q"), FamilyRow("q-next", "q", "q"), FamilyRow("q-none", "q-next", "q"),
       FamilyRow("t", "", "t") >>

ModelRow(slug, family, architecture, params, active, released, capabilities, license) ==
    [slug |-> slug, family |-> family, architecture |-> architecture, params |-> params, active |-> active,
     kvPerToken |-> 12, context |-> 131, released |-> released, capabilities |-> capabilities, licenses |-> {license}]
Chat(slug, family, params, released) == ModelRow(slug, family, "dense", params, 0, released, {"chat"}, "restricted")
\* Seven families have models, q of its own and by the family below it. d has two, but nobody dated them.
MCModelRows ==
    << Chat("A", "a", 3, 9), Chat("B", "b", 4, 11), Chat("C", "c", 12, 9), Chat("D", "d", 14, 0), Chat("E", "d", 80, 0),
       ModelRow("Q", "q-next", "moe", 30, 3, 12, {"chat", "code"}, "allowed"),
       ModelRow("T", "t", "dense", 8, 0, 10, {"chat", "reasoning", "tool_use"}, "restricted"),
       ModelRow("U", "q", "dense", 70, 0, 4, {"chat", "vision"}, "allowed") >>

File(id, model, size) == [id |-> id, model |-> model, size |-> size]
MCHeld == {File("q q4", "Q", 1960), File("t q4", "T", 480), File("u", "U", 0)}
MCFiles == MCHeld \cup {File("u q2", "U", 2100)}
MCContributions == {[id |-> "review", model |-> "U"]}
Reached(well, slow) == [runsWell |-> well, slow |-> slow, of |-> 9]
MCReach ==
    [m \in {r.slug : r \in Range(MCModelRows)} |->
        CASE m = "Q" -> Reached(5, 1) [] m = "T" -> Reached(8, 1) [] m = "U" -> Reached(0, 2) [] OTHER -> Reached(0, 0)]
=============================================================================
