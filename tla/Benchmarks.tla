----------------------------- MODULE Benchmarks -----------------------------
(***************************************************************************)
(* Benchmark results: how the Berkeley Function Calling Leaderboard is     *)
(* read and stored (packages/ingestion/src/adapters/bfcl*.ts), on what     *)
(* terms (reference.ts, writers.ts), and which number the pages show       *)
(* (the views of migration 0007 and queries/catalog.ts).                   *)
(*                                                                         *)
(* The import runs outside a transaction, so each of its statements is a   *)
(* step and a crash may fall between two.  Scores count in percent; a run  *)
(* has results in the headline metric of its benchmark; 0 stands for a     *)
(* date or a number of attempts that is not recorded.                      *)
(***************************************************************************)
EXTENDS Discovery

CONSTANTS
    Editions,       \* what the leaderboard publishes, one edition after the other: [table, configs]
    Repositories,   \* Hugging Face repository |-> the variant it holds
    Known,          \* repositories the catalog knows from the beginning
    Variants,       \* variants of the catalog by slug: [slug, model, released]
    Seeded,         \* runs the database holds from the beginning: [run, results]
    Reports,        \* runs that other writers may record later
    OlderTrees,     \* subtasks of bfcl that a database may hold from an earlier deploy
    Switched,       \* sources an operator switches on or off
    RunIds,         \* identifiers the database draws from, at random
    MaxInserts      \* bound: runs ever inserted

VARIABLES
    edition,            \* the edition published now
    identifiers,        \* repositories the catalog knows
    resultSource,       \* source |-> [enabled, priority]
    benchmarkSubtask,   \* subtasks of bfcl: key |-> [parent, weight, method]
    benchmarkRun,       \* stored runs
    benchmarkResult,    \* run id |-> results, by subtask
    reported,           \* reports recorded so far
    import              \* the import under way

benchmarkVars == << edition, identifiers, resultSource, benchmarkSubtask, benchmarkRun, benchmarkResult, reported, import >>

----------------------------------------------------------------------------
(* Definitions shipped with the code.                                      *)

Whole == "whole"        \* a result that covers the whole benchmark
Null == ""

Node(key, parent, weight, method) == [key |-> key, parent |-> parent, weight |-> weight, method |-> method]
Leaves(keys, parent) == {Node(k, parent, 0, Null) : k \in keys}

BfclNodes ==
    {Node("non_live", Null, 10, "mean"), Node("live", Null, 10, "weighted"), Node("irrelevance", Null, 10, "mean"),
     Node("multi_turn", Null, 30, "mean"), Node("web_search", Null, 20, "mean"), Node("memory", Null, 20, "mean"),
     Node("live_simple", "live", 258, Null), Node("live_multiple", "live", 1053, Null),
     Node("live_parallel", "live", 16, Null), Node("live_parallel_multiple", "live", 24, Null)}
    \cup Leaves({"non_live_simple", "non_live_multiple", "non_live_parallel", "non_live_parallel_multiple"}, "non_live")
    \cup Leaves({"multi_turn_base", "multi_turn_miss_func", "multi_turn_miss_param", "multi_turn_long_context"}, "multi_turn")
    \cup Leaves({"web_search_base", "web_search_no_snippet"}, "web_search")
    \cup Leaves({"memory_kv", "memory_vector", "memory_rec_sum"}, "memory")

Tree(nodes) == [k \in {n.key : n \in nodes} |-> CHOOSE n \in nodes : n.key = k]
BfclTree == Tree(BfclNodes)

BfclScoreColumns == DOMAIN BfclTree \ {"non_live", "live", "multi_turn", "web_search", "memory"}

Config(mode, attempts) == [mode |-> mode, attempts |-> attempts]

BenchmarkDefinitions ==
    [bfcl |-> [rollup |-> "weighted", headline |-> {}],
     aider |-> [rollup |-> "none", headline |-> {Config("agentic", 2)}],
     humaneval |-> [rollup |-> "none", headline |-> {}],
     livecodebench |-> [rollup |-> "none", headline |-> {}]]

ResultSources ==
    [bfcl_leaderboard |-> [cleared |-> TRUE, enabled |-> TRUE, priority |-> 50],
     aider_leaderboard |-> [cleared |-> TRUE, enabled |-> TRUE, priority |-> 50],
     livebench_leaderboard |-> [cleared |-> FALSE, enabled |-> FALSE, priority |-> 50],
     catalog |-> [cleared |-> TRUE, enabled |-> TRUE, priority |-> -100]]

OriginRank == [benchmark_operator |-> 0, third_party |-> 1, editorial |-> 2, submitted_registry |-> 3, developer_reported |-> 4]

----------------------------------------------------------------------------
(* Reading a published edition. A model config is [key, modelName, isRepo, *)
(* displayName, fc]; a row of the table is [name, scores], scores being    *)
(* those of the columns that hold a number.                                *)

CandidatesOf(name, configs) == Select(configs, LAMBDA c : c.displayName = name)

\* A bug to rule out: of two repositories that claim a name, take the first.
ResolveToFirst(name, configs) ==
    LET named == Select(CandidatesOf(name, configs), LAMBDA c : c.isRepo)
    IN IF named = << >> THEN {} ELSE {Head(named).modelName}

\* The repository a display name stands for: a set of at most one, empty when it is unknown or ambiguous.
ResolveBfclModel(name, configs) ==
    LET ids == {c.modelName : c \in {c \in Range(CandidatesOf(name, configs)) : c.isRepo}}
    IN IF Cardinality(ids) = 1 THEN ids ELSE {}

Complete(row) == BfclScoreColumns \subseteq DOMAIN row.scores

BfclRun(row, configs) ==
    LET first == Head(CandidatesOf(row.name, configs))
    IN [dedupeKey |-> first.key, fc |-> first.fc, scores |-> [k \in BfclScoreColumns |-> row.scores[k]],
        repository |-> CHOOSE r \in ResolveBfclModel(row.name, configs) : TRUE]

ParseBfclLeaderboard(table, configs) ==
    Each(Select(table, LAMBDA row : ResolveBfclModel(row.name, configs) # {} /\ Complete(row)),
         LAMBDA row : BfclRun(row, configs))

----------------------------------------------------------------------------
(* The import, statement by statement. Each leaves the stage at which the  *)
(* next resumes; a run with an unknown category or a source that is not    *)
(* enabled ends it with an error.                                          *)

Idle == [stage |-> "idle", table |-> << >>, subtasks |-> {}, left |-> << >>, id |-> 0]
At(stage) == import.stage = stage
Row == Head(import.left)
NextRow == [import EXCEPT !.stage = "rows", !.left = Tail(@), !.id = 0]

BenchmarkInit ==
    /\ edition = 1
    /\ identifiers = Known
    /\ resultSource = [k \in DOMAIN ResultSources |-> [enabled |-> ResultSources[k].enabled, priority |-> 0]]
    /\ benchmarkSubtask \in OlderTrees
    /\ benchmarkRun = {x.run : x \in Seeded}
    /\ benchmarkResult = [id \in {x.run.id : x \in Seeded} |-> (CHOOSE x \in Seeded : x.run.id = id).results]
    /\ reported = {}
    /\ import = Idle

Republish ==
    /\ edition < Len(Editions)
    /\ edition' = edition + 1
    /\ UNCHANGED << identifiers, resultSource, benchmarkSubtask, benchmarkRun, benchmarkResult, reported, import >>

\* The Hub adapter writes the identifier of a repository.
LearnRepository(r) ==
    /\ r \notin identifiers
    /\ identifiers' = identifiers \cup {r}
    /\ UNCHANGED << edition, resultSource, benchmarkSubtask, benchmarkRun, benchmarkResult, reported, import >>

\* The table and the map of identities are two requests; the categories the database declares are read after them, once.
FetchTable ==
    /\ At("idle")
    /\ import' = [Idle EXCEPT !.stage = "configs", !.table = Editions[edition].table]
    /\ UNCHANGED << edition, identifiers, resultSource, benchmarkSubtask, benchmarkRun, benchmarkResult, reported >>

FetchConfigs ==
    /\ At("configs")
    /\ import' = [Idle EXCEPT !.stage = "rows", !.subtasks = DOMAIN benchmarkSubtask,
                              !.left = ParseBfclLeaderboard(import.table, Editions[edition].configs)]
    /\ UNCHANGED << edition, identifiers, resultSource, benchmarkSubtask, benchmarkRun, benchmarkResult, reported >>

\* The variant of the catalog a repository is identified with: a set of at most one.
VariantIdByHuggingFace(repository) == IF repository \in identifiers THEN {Repositories[repository]} ELSE {}

SkipRow ==
    /\ At("rows") /\ import.left # << >> /\ VariantIdByHuggingFace(Row.repository) = {}
    /\ import' = NextRow
    /\ UNCHANGED << edition, identifiers, resultSource, benchmarkSubtask, benchmarkRun, benchmarkResult, reported >>

WithKey(key) == {run \in benchmarkRun : run.dedupeKey = key}
Without(ids) == [i \in DOMAIN benchmarkResult \ ids |-> benchmarkResult[i]]
With(id, results) == [i \in DOMAIN benchmarkResult \cup {id} |-> IF i = id THEN results ELSE benchmarkResult[i]]

\* Results go with their run.
DropExisting ==
    /\ At("rows") /\ import.left # << >> /\ VariantIdByHuggingFace(Row.repository) # {}
    /\ IF DOMAIN Row.scores \subseteq import.subtasks
       THEN /\ benchmarkRun' = benchmarkRun \ WithKey(Row.dedupeKey)
            /\ benchmarkResult' = Without({run.id : run \in WithKey(Row.dedupeKey)})
            /\ import' = [import EXCEPT !.stage = "insert"]
       ELSE import' = Idle /\ UNCHANGED << benchmarkRun, benchmarkResult >>
    /\ UNCHANGED << edition, identifiers, resultSource, benchmarkSubtask, reported >>

Clock == Greatest({run.createdAt : run \in benchmarkRun}) + 1

Stored(run, id, createdAt) ==
    [id |-> id, createdAt |-> createdAt, dedupeKey |-> run.dedupeKey, benchmark |-> run.benchmark, subject |-> run.subject,
     config |-> run.config, source |-> run.source, origin |-> run.origin, measuredOn |-> run.measuredOn]

InsertRun(id, run) ==
    /\ id \in RunIds \ {r.id : r \in benchmarkRun}
    /\ Clock <= MaxInserts
    /\ benchmarkRun' = benchmarkRun \cup {Stored(run, id, Clock)}

\* How a model was run is a row of its own, shared by the runs with equal settings: the row is its settings here.
EnsureEvaluationConfig(fc) == Config(IF fc THEN "function_calling" ELSE "prompt", 0)

ImportedRun(row) ==
    [dedupeKey |-> row.dedupeKey, benchmark |-> "bfcl", subject |-> Repositories[row.repository],
     config |-> EnsureEvaluationConfig(row.fc), source |-> "bfcl_leaderboard", origin |-> "benchmark_operator",
     measuredOn |-> 0]

InsertImported ==
    /\ At("insert")
    /\ IF resultSource["bfcl_leaderboard"].enabled
       THEN \E id \in RunIds : /\ InsertRun(id, ImportedRun(Row))
                               /\ import' = [import EXCEPT !.stage = "results", !.id = id]
       ELSE import' = Idle /\ UNCHANGED benchmarkRun
    /\ UNCHANGED << edition, identifiers, resultSource, benchmarkSubtask, benchmarkResult, reported >>

InsertResults ==
    /\ At("results")
    /\ benchmarkResult' = With(import.id, Row.scores)
    /\ import' = NextRow
    /\ UNCHANGED << edition, identifiers, resultSource, benchmarkSubtask, benchmarkRun, reported >>

Finish ==
    /\ At("rows") /\ import.left = << >>
    /\ import' = Idle
    /\ UNCHANGED << edition, identifiers, resultSource, benchmarkSubtask, benchmarkRun, benchmarkResult, reported >>

Crash ==
    /\ ~At("idle")
    /\ import' = Idle
    /\ UNCHANGED << edition, identifiers, resultSource, benchmarkSubtask, benchmarkRun, benchmarkResult, reported >>

----------------------------------------------------------------------------
(* Other writers of runs, deploys, and what an operator may switch.        *)

Record(report) ==
    /\ report \notin reported
    /\ resultSource[report.run.source].enabled
    /\ \E id \in RunIds : /\ InsertRun(id, report.run)
                          /\ benchmarkResult' = With(id, report.results)
    /\ reported' = reported \cup {report}
    /\ UNCHANGED << edition, identifiers, resultSource, benchmarkSubtask, import >>

\* Descriptive fields are refreshed; whether a source is enabled is not a deploy's to change.
EnsureResultSources ==
    /\ resultSource' = [k \in DOMAIN resultSource |-> [resultSource[k] EXCEPT !.priority = ResultSources[k].priority]]
    /\ UNCHANGED << edition, identifiers, benchmarkSubtask, benchmarkRun, benchmarkResult, reported, import >>

\* Subtasks are corrected and gained, never removed.
Corrected(tree) ==
    [k \in DOMAIN BfclTree \cup DOMAIN tree |-> IF k \in DOMAIN BfclTree THEN BfclTree[k] ELSE tree[k]]
EnsureBenchmarkDefinitions ==
    /\ benchmarkSubtask' = Corrected(benchmarkSubtask)
    /\ UNCHANGED << edition, identifiers, resultSource, benchmarkRun, benchmarkResult, reported, import >>

\* The database refuses to enable a source that is not cleared, or to disable one that has runs.
Switch(k) ==
    /\ IF resultSource[k].enabled THEN \A run \in benchmarkRun : run.source # k ELSE ResultSources[k].cleared
    /\ resultSource' = [resultSource EXCEPT ![k].enabled = ~@]
    /\ UNCHANGED << edition, identifiers, benchmarkSubtask, benchmarkRun, benchmarkResult, reported, import >>

(* What the tables may hold: keys, foreign keys and checks of the schema. Of the terms of a source it keeps whether
   they allow redistribution, of a subtask no label. *)

ResultSourceRows == [enabled : BOOLEAN, priority : Int]

ResultSourceOK ==
    /\ resultSource \in [DOMAIN ResultSources -> ResultSourceRows]
    /\ \A k \in DOMAIN resultSource : resultSource[k].enabled => ResultSources[k].cleared

TreeOK(tree) ==
    \A k \in DOMAIN tree :
        /\ tree[k].key = k /\ tree[k].weight \in Nat
        /\ tree[k].method \in {"mean", "weighted", "pooled", Null}
        /\ tree[k].parent \in DOMAIN tree \cup {Null}

BenchmarkSubtaskOK == TreeOK(benchmarkSubtask)

VariantSlugs == {v.slug : v \in Range(Variants)}

RunOK(run) ==
    /\ run.benchmark \in DOMAIN BenchmarkDefinitions /\ run.subject \in VariantSlugs
    /\ run.source \in DOMAIN ResultSources /\ run.origin \in DOMAIN OriginRank
    /\ run.measuredOn \in Nat

RunsAreKeyed(runs) == \A r, s \in runs : r.id = s.id \/ (r.dedupeKey # Null /\ r.dedupeKey = s.dedupeKey) => r = s

BenchmarkRunOK ==
    /\ \A run \in benchmarkRun :
          RunOK(run) /\ run.id \in Int /\ run.createdAt \in Nat /\ resultSource[run.source].enabled
    /\ RunsAreKeyed(benchmarkRun)

BenchmarkResultOK ==
    \A id \in DOMAIN benchmarkResult :
        /\ id \in {run.id : run \in benchmarkRun}
        /\ DOMAIN benchmarkResult[id] \subseteq DOMAIN benchmarkSubtask \cup {Whole}

(* What the database and its writers may hold. Another writer reports on subtasks that the database has, under no key. *)
ASSUME BenchmarkAssumption ==
    /\ Editions \in Seq(Range(Editions)) \ {<< >>}
    /\ RunIds \subseteq Int /\ IsFiniteSet(Seeded) /\ Switched \subseteq DOMAIN ResultSources
    /\ Known \subseteq DOMAIN Repositories /\ \A r \in DOMAIN Repositories : Repositories[r] \in VariantSlugs
    /\ \A tree \in OlderTrees : TreeOK(tree)
    /\ \A x \in Seeded \cup Reports :
          RunOK(x.run) /\ \A tree \in OlderTrees : DOMAIN x.results \subseteq DOMAIN tree \cup {Whole}
    /\ \A x \in Seeded : x.run.id \in Int /\ x.run.createdAt \in Nat /\ ResultSources[x.run.source].enabled
    /\ RunsAreKeyed({x.run : x \in Seeded})
    /\ \A x \in Reports : x.run.dedupeKey = Null

BenchmarkTypeOK ==
    /\ edition \in DOMAIN Editions /\ identifiers \subseteq DOMAIN Repositories /\ reported \subseteq Reports
    /\ ResultSourceOK /\ BenchmarkSubtaskOK /\ BenchmarkRunOK /\ BenchmarkResultOK

ImportStep == FetchTable \/ FetchConfigs \/ SkipRow \/ DropExisting \/ InsertImported \/ InsertResults \/ Finish \/ Crash

BenchmarkNext ==
    \/ Republish
    \/ \E r \in DOMAIN Repositories : LearnRepository(r)
    \/ ImportStep
    \/ \E report \in Reports : Record(report)
    \/ EnsureResultSources \/ EnsureBenchmarkDefinitions
    \/ \E k \in Switched : Switch(k)

BenchmarkSpec == BenchmarkInit /\ [][BenchmarkNext]_benchmarkVars

----------------------------------------------------------------------------
(* The number of a run that has subtasks, from their results: a group      *)
(* combines its leaves by its own method, the benchmark its groups. Values *)
(* here are in parts of a percent (Unit divides evenly by the sizes and    *)
(* weights of the groups shipped); a set of at most one, empty for NULL.   *)

Unit == 16212

WeightOf(node) == IF node.weight = 0 THEN 1 ELSE node.weight
Sum(S, Value(_)) == FoldSet(LAMBDA x, sum : sum + Value(x), 0, S)

\* The number of a group from the values and weights of its leaves.
Combine(method, value, weight) ==
    LET leaves == DOMAIN value
    IN CASE leaves = {} \/ method = "pooled" -> {}      \* no writer stores the counts that pooling needs
         [] leaves # {} /\ method = "weighted" ->
               {Sum(leaves, LAMBDA k : value[k] * weight[k]) \div Sum(leaves, LAMBDA k : weight[k])}
         [] leaves # {} /\ method = "mean" -> {Sum(leaves, LAMBDA k : value[k]) \div Cardinality(leaves)}

GroupOf(tree, k) == IF tree[k].parent = Null THEN k ELSE tree[k].parent
MethodOf(node) == IF node.method = Null THEN BenchmarkDefinitions.bfcl.rollup ELSE node.method

GroupValue(tree, scores, g) ==
    LET leaves == {k \in DOMAIN scores : GroupOf(tree, k) = g}
    IN Combine(MethodOf(tree[g]), [k \in leaves |-> scores[k] * Unit], [k \in leaves |-> WeightOf(tree[k])])

\* The sum of the weights counts the groups without a value too, as sum() does.
BenchmarkRunRollup(tree, scores) ==
    LET groups == {GroupOf(tree, k) : k \in DOMAIN scores}
        value == [g \in groups |-> GroupValue(tree, scores, g)]
        rated == {g \in groups : value[g] # {}}
        weighed == Sum(rated, LAMBDA g : (CHOOSE v \in value[g] : TRUE) * WeightOf(tree[g]))
    IN IF rated = {} THEN {} ELSE {weighed \div Sum(groups, LAMBDA g : WeightOf(tree[g]))}

----------------------------------------------------------------------------
(* One number for each subject and benchmark, by declared precedence and   *)
(* never by value; uuids break the ties that remain.                       *)

\* The number of a run in the headline metric of its benchmark: reported for the whole, or computed.
ValueOf(tree, results) ==
    CASE DOMAIN results = {} -> {}
      [] Whole \in DOMAIN results -> {results[Whole] * Unit}
      [] OTHER -> BenchmarkRunRollup(tree, results)

MatchesPattern(config, pattern) ==
    \E p \in pattern : /\ p.mode \in {"unspecified", config.mode}
                       /\ p.attempts \in {0, config.attempts}

\* A bug to rule out: the most flattering number first.
HeadlineKeyByValue(db, run) ==
    << Flag(MatchesPattern(run.config, BenchmarkDefinitions[run.benchmark].headline)), CHOOSE v \in db.value[run.id] : TRUE >>

HeadlineKey(db, run) ==
    << Flag(MatchesPattern(run.config, BenchmarkDefinitions[run.benchmark].headline)),
       0 - OriginRank[run.origin], db.sources[run.source].priority, run.measuredOn, 0 - run.id >>

Candidates(db, b, subject) == {run \in db.runs : run.benchmark = b /\ run.subject = subject /\ db.value[run.id] # {}}

FirstBy(S, Key(_)) == {x \in S : \A y \in S : y = x \/ Ahead(Key(x), Key(y))}

BenchmarkHeadlineResult(db, b, subject) == FirstBy(Candidates(db, b, subject), LAMBDA run : HeadlineKey(db, run))

\* A bug to rule out: the latest report is preferred, whoever made it.
CanonicalKeyByRecency(db, run) == << run.measuredOn, run.createdAt, 0 - run.id >>

CanonicalKey(db, run) ==
    << 0 - OriginRank[run.origin], db.sources[run.source].priority, run.measuredOn, run.createdAt, 0 - run.id >>

\* The preferred report of one measurement (a subtask, or the whole, under one configuration), beside the reports it stands for.
Measurements(db, b, subject, subtask, config) ==
    {run \in db.runs : /\ run.benchmark = b /\ run.subject = subject /\ run.config = config
                       /\ run.id \in DOMAIN db.results /\ subtask \in DOMAIN db.results[run.id]}
BenchmarkResultCanonical(db, b, subject, subtask, config) ==
    FirstBy(Measurements(db, b, subject, subtask, config), LAMBDA run : CanonicalKey(db, run))

----------------------------------------------------------------------------
(* What the pages read.                                                    *)

Database(runs, results, tree, sources) ==
    [runs |-> runs, results |-> results, sources |-> sources,
     value |-> [id \in {run.id : run \in runs} |-> IF id \in DOMAIN results THEN ValueOf(tree, results[id]) ELSE {}]]

database == Database(benchmarkRun, benchmarkResult, benchmarkSubtask, resultSource)

HeadlinesOf(db, b, v) ==
    {[benchmark |-> b, variant |-> v, run |-> run, value |-> CHOOSE x \in db.value[run.id] : TRUE] :
        run \in BenchmarkHeadlineResult(db, b, v.slug)}
Headlines(db) == UNION {HeadlinesOf(db, b, v) : b \in DOMAIN BenchmarkDefinitions, v \in Range(Variants)}

SlugRank(v) == CHOOSE i \in DOMAIN Variants : Variants[i] = v

\* Of the variants of a model, the one with the highest headline.
ListBenchmarkScores(db) ==
    LET all == Headlines(db)
        best(h) == \A o \in all : (o.benchmark = h.benchmark /\ o.variant.model = h.variant.model /\ o # h) =>
                       Ahead(<< h.value, 0 - SlugRank(h.variant) >>, << o.value, 0 - SlugRank(o.variant) >>)
    IN {h \in all : best(h)}

ProfileScores(db) ==
    {[subject |-> h.variant.model, benchmark |-> h.benchmark, value |-> h.value \div Unit] : h \in ListBenchmarkScores(db)}
ListCapabilityProfiles(db, model) == CapabilityProfile(ProfileScores(db), model)

\* A bug to rule out: results of one day in any order.
FrontierKeyByDate(p) == << 0 - p.date >>

\* Results that set a new best, in the order of their dates; the database returns the points in no order.
FrontierKey(p) == << 0 - p.date, p.value >>

Frontier(points) ==
    FoldLeft(LAMBDA out, p : IF out = << >> \/ p.value > Last(out).value THEN Append(out, p) ELSE out,
             << >>, SortedBy(points, FrontierKey))

Dated(db, b) == {h \in Headlines(db) : h.benchmark = b /\ h.variant.released # 0}
DatedPoints(db, b) ==
    Each(Select(Variants, LAMBDA v : \E h \in Dated(db, b) : h.variant = v),
         LAMBDA v : [subject |-> v.slug, date |-> v.released, value |-> (CHOOSE h \in Dated(db, b) : h.variant = v).value])

BenchmarkFrontier(db, b) == Frontier(DatedPoints(db, b))

----------------------------------------------------------------------------
(* Properties.                                                             *)

Independence == << "benchmark_operator", "third_party", "editorial", "submitted_registry", "developer_reported" >>
OriginOrder(origin) == CHOOSE i \in DOMAIN Independence : Independence[i] = origin

\* Which report is shown never depends on the numbers reported: whatever a report claims, the same one stays the
\* headline, and none of the same standing is more independent than it (ADR-0010, "never by value").
Claiming(db, run, value) == [db EXCEPT !.value[run.id] = {value}]
Standing(run) == MatchesPattern(run.config, BenchmarkDefinitions[run.benchmark].headline)

HeadlineIsNotFlattering ==
    LET db == database
    IN \A h \in Headlines(db) : \A run \in Candidates(db, h.benchmark, h.variant.slug) :
          /\ Standing(run) = Standing(h.run) => OriginOrder(h.run.origin) <= OriginOrder(run.origin)
          /\ \A value \in {0, 100 * Unit} :
                BenchmarkHeadlineResult(Claiming(db, run, value), h.benchmark, h.variant.slug) = {h.run}

\* What the harness computes from a row: 10, 10, 10, 30 and 40 parts of the non-live, live, irrelevance, multi-turn and
\* agentic summaries, the last the mean of web search and memory (the ADR's reading of eval_runner_helper.py).
Mean(scores, keys) == Sum(keys, LAMBDA k : scores[k] * Unit) \div Cardinality(keys)
Children(parent) == {n.key : n \in {n \in BfclNodes : n.parent = parent}}

HarnessOverall(scores) ==
    LET live == (258 * scores.live_simple + 1053 * scores.live_multiple + 16 * scores.live_parallel
                    + 24 * scores.live_parallel_multiple) * (Unit \div 1351)
        agentic == Mean(scores, Children("web_search")) + Mean(scores, Children("memory"))
    IN (10 * Mean(scores, Children("non_live")) + 10 * live + 10 * scores.irrelevance * Unit
            + 30 * Mean(scores, Children("multi_turn")) + 20 * agentic) \div 100

\* The score shown for a variant is the overall of one whole row that some edition published under a name that stands
\* for its repository and no other: never a mixture of two editions, of part of a row, or of a guess.
PublishedFor(variant) ==
    {row \in UNION {Range(Editions[e].table) : e \in 1 .. edition} :
        /\ Complete(row)
        /\ \E e \in 1 .. edition :
              LET repositories == {c.modelName : c \in {c \in Range(Editions[e].configs) : c.displayName = row.name /\ c.isRepo}}
              IN repositories # {} /\ \A r \in repositories : Repositories[r] = variant}

ShownWasPublished ==
    BfclTree = benchmarkSubtask =>
        \A h \in {h \in Headlines(database) : h.run.source = "bfcl_leaderboard"} :
            \E row \in PublishedFor(h.variant.slug) : h.value = HarnessOverall(row.scores)

\* The frontier holds exactly the results that beat everything released before them and everything of their own day.
Records(points) ==
    {p \in Range(points) : \A q \in Range(points) : (q.date < p.date => q.value < p.value) /\ (q.date = p.date => q.value <= p.value)}
Marks(points) == {<< p.date, p.value >> : p \in points}

FrontierHoldsTheRecords ==
    LET db == database
    IN \A b \in DOMAIN BenchmarkDefinitions :
          LET points == DatedPoints(db, b)
          IN /\ Marks(Range(Frontier(points))) = Marks(Records(points))
             /\ Len(Frontier(points)) = Cardinality(Marks(Records(points)))

\* The table of a model's page supports its headline: for each number the headline rests on, the report shown under the
\* same configuration is the headline's own, or one that origin, source and date do not tell from it.
Declared(db, run) == << OriginRank[run.origin], db.sources[run.source].priority, run.measuredOn >>

TableSupportsHeadline ==
    LET db == database
    IN \A h \in Headlines(db) : \A subtask \in DOMAIN benchmarkResult[h.run.id] :
          \E run \in BenchmarkResultCanonical(db, h.benchmark, h.variant.slug, subtask, h.run.config) :
              Declared(db, run) = Declared(db, h.run)

\* Importing again what is stored changes no number that is shown: the run is replaced by its equal, under a new
\* identifier ("makes re-ingesting the same leaderboard entry idempotent", packages/db/src/schema/ecosystem.ts:482).
Scores(db) == {<< h.benchmark, h.variant.slug, h.value >> : h \in Headlines(db)}

Reimported(run, id) ==
    Database((benchmarkRun \ {run}) \cup {[run EXCEPT !.id = id, !.createdAt = Clock]},
             Without({run.id}) @@ (id :> benchmarkResult[run.id]), benchmarkSubtask, resultSource)

ReimportChangesNothing ==
    \A run \in {run \in benchmarkRun : run.dedupeKey # Null /\ run.id \in DOMAIN benchmarkResult} :
        \A id \in RunIds \ {r.id : r \in benchmarkRun} : Scores(Reimported(run, id)) = Scores(database)
=============================================================================
