------------------------------ MODULE Discovery ------------------------------
(***************************************************************************)
(* How the pages describe, group and order what the catalog holds:         *)
(* packages/domain/src/discovery.ts and profile.ts. Memory counts in       *)
(* hundredths of a GB, speeds in tenths of a token a second, parameters in *)
(* billions, shares in thousandths; 0 is a value that is not known.        *)
(***************************************************************************)
EXTENDS Compat

LicenseOpenness(uses) ==
    CASE "allowed" \in uses -> "permissive"
      [] "allowed" \notin uses /\ "restricted" \in uses -> "restricted"
      [] uses \cap {"allowed", "restricted"} = {} /\ "prohibited" \in uses -> "noncommercial"
      [] OTHER -> "unknown"

----------------------------------------------------------------------------
(* One scale of memory for models and machines. The last tier is open.     *)

Unbounded == 1000000
TierCeiling == << 600, 1500, 2200, 3000, 4600, 9200, Unbounded >>
Tiers == DOMAIN TierCeiling
NoTier == 0

ModelMemoryTier(need) ==
    IF need = 0 THEN NoTier
    ELSE CHOOSE t \in Tiers : need <= TierCeiling[t] /\ \A u \in 1 .. t - 1 : need > TierCeiling[u]

Reaches(usable, t) ==
    IF TierCeiling[t] = Unbounded THEN usable > TierCeiling[t - 1] ELSE usable >= TierCeiling[t]

HardwareMemoryTier(usable) ==
    LET reached == {t \in Tiers : Reaches(usable, t)}
    IN IF reached = {} THEN NoTier ELSE CHOOSE t \in reached : \A u \in reached : u <= t

----------------------------------------------------------------------------
(* Where a model runs, over the reference systems.                         *)

ReachShare(reach) == IF reach.of = 0 THEN 0 ELSE (reach.runsWell * 1000) \div reach.of

ReachPhrase(reach) ==
    CASE reach.of = 0 -> "nothing"
      [] reach.of # 0 /\ ReachShare(reach) >= 750 -> "most"
      [] ReachShare(reach) \in 400 .. 749 -> "many"
      [] ReachShare(reach) < 400 /\ reach.runsWell > 0 -> "high-memory"
      [] reach.of # 0 /\ reach.runsWell = 0 /\ reach.slow > 0 -> "slowly"
      [] OTHER -> "server"

ComfortableTps == 80

ReadingSpeed(tps) ==
    CASE tps = 0 -> "unknown"
      [] tps >= 250 -> "much faster"
      [] tps \in ComfortableTps .. 249 -> "faster"
      [] tps \in 50 .. ComfortableTps - 1 -> "as fast"
      [] OTHER -> "slower"

----------------------------------------------------------------------------
(* Capability profiles: on each axis the best score of a model on one of   *)
(* the benchmarks of the axis, in percent of the best score of all.        *)

Axes == [coding |-> {"humaneval", "livecodebench"}, reasoning |-> {"gpqa-diamond", "math-500"},
         knowledge |-> {"mmlu-pro"}, instruction |-> {"ifeval"}]

Greatest(S) == IF S = {} THEN 0 ELSE CHOOSE x \in S : \A y \in S : y <= x

\* scores: a set of [subject, benchmark, value]
CapabilityProfile(scores, subject) ==
    LET top(b) == Greatest({s.value : s \in {s \in scores : s.benchmark = b}})
        relative(s) == (s.value * 100 + top(s.benchmark) \div 2) \div top(s.benchmark)
        counted == {s \in scores : s.subject = subject /\ top(s.benchmark) > 0}
    IN [a \in DOMAIN Axes |-> Greatest({relative(s) : s \in {s \in counted : s.benchmark \in Axes[a]}})]

ProfileMean(profile) ==
    LET rated == Select(<< "coding", "reasoning", "knowledge", "instruction" >>, LAMBDA a : profile[a] # 0)
    IN IF rated = << >> THEN 0 ELSE SumOver(rated, LAMBDA a : profile[a]) \div Len(rated)

----------------------------------------------------------------------------
(* Questions a visitor starts from, each with a test and an order.         *)

PerToken(m) == IF m.active # 0 THEN m.active ELSE m.params

IntentTest(key, m) ==
    CASE key = "coding" -> "code" \in m.capabilities
      [] key = "local" -> m.minMemory # 0 /\ m.minMemory <= 2200
      [] key = "reasoning" -> "reasoning" \in m.capabilities
      [] key = "vision" -> "vision" \in m.capabilities
      [] key = "agents" -> "tool_use" \in m.capabilities
      [] key = "fast" -> PerToken(m) <= 15
      [] key = "small" -> m.params <= 10
      [] key = "open" -> LicenseOpenness(m.licenses) = "permissive"

IntentScore(key, m, profile, reach) ==
    CASE key = "coding" -> profile.coding * 10000 + ReachShare(reach)
      [] key = "local" -> ReachShare(reach) * 100 + ProfileMean(profile) * 100
      [] key = "reasoning" -> profile.reasoning * 10000 + ReachShare(reach)
      [] key = "agents" -> profile.instruction * 10000 + ReachShare(reach)
      [] key = "fast" -> ReachShare(reach) - PerToken(m) * 1000
      [] OTHER -> ProfileMean(profile) * 1000 + ReachShare(reach)

Intents == {"coding", "local", "reasoning", "vision", "agents", "fast", "small", "open"}

IsSpecialist(m) ==
    \E c \in {"code", "reasoning"} : m.capabilities \ {"chat", "multilingual", "long_context"} = {c}

\* The purpose a query states, by whole words, the most specific first. Words are abstracted to the intent they name.
SearchIntents == << "coding", "vision", "reasoning", "agents", "small", "chat" >>

SearchIntent(words) == Select(SearchIntents, LAMBDA k : k \in words)

Suggested(models, intent, profiles, reach) ==
    LET test(m) == IF intent = "chat" THEN "chat" \in m.capabilities /\ ~IsSpecialist(m) ELSE IntentTest(intent, m)
        rank(m) == IF intent = "chat" THEN ProfileMean(profiles[m.slug]) * 1000 + ReachShare(reach[m.slug]) * 50
                   ELSE IntentScore(intent, m, profiles[m.slug], reach[m.slug])
        ranked == SortedBy(Select(models, test), LAMBDA m : << rank(m) >>)
    IN SubSeq(ranked, 1, AtMost(6, Len(ranked)))

----------------------------------------------------------------------------
(* Hardware: categories, goals and the memory usable for a model.          *)

DeviceCategory(d) ==
    CASE d.kind = "accelerator" -> "server"
      [] d.kind # "accelerator" /\ d.memory = "unified" -> "unified"
      [] d.kind = "gpu" /\ d.memory # "unified" -> "gpu"
      [] OTHER -> "none"

GpuCount(system) ==
    SumOver(Select(system.components, LAMBDA c : c.device.memory = "dedicated"), LAMBDA c : c.count)

SystemCategories(system) ==
    {c \in {"systems", "unified", "server"} :
        CASE c = "systems" -> system.form # "server"
          [] c = "unified" -> system.unified # 0
          [] c = "server" -> \/ system.form = "server" \/ GpuCount(system) >= 2
                             \/ \E i \in DOMAIN system.components : system.components[i].device.kind = "accelerator"}

DedicatedGb(system) ==
    SumOver(Select(system.components, LAMBDA c : c.device.memory = "dedicated"), LAMBDA c : c.device.gb * c.count)

SystemUsable(system) ==
    CASE system.unified # 0 -> system.unified * DefaultUnifiedUsable
      [] system.unified = 0 /\ DedicatedGb(system) # 0 -> DedicatedGb(system) * DedicatedUsable
      [] OTHER -> system.ram * SystemRamUsable

SystemMatchesGoal(goal, system) ==
    CASE goal = "first" -> system.price # 0 /\ system.price <= 2500
      [] goal = "workstation" -> system.form # "server" /\ SystemUsable(system) >= 4000
      [] OTHER -> TRUE

----------------------------------------------------------------------------
(* The first model to try, and the download of it to start with.           *)

StarterMinTps == 150

InMemoryPlaced(r) == InMemory(r) /\ r.placement \in {"accelerator", "cpu"}

Flag(b) == IF b THEN 1 ELSE 0

DownloadKey(r) == << AtMost(r.bits, QualityCeiling), Flag(r.fit = "full"), Flag(r.speed.basis = "measured"), r.speed.gen >>

\* A bug to rule out: any quicker download will do, one that spills out of memory too.
QuickerAtAnyCost(recommended, alternatives) ==
    LET quick == Select(alternatives, LAMBDA a : a.speed.gen > recommended.speed.gen)
    IN IF recommended.speed.gen >= StarterMinTps \/ quick = << >> THEN recommended
       ELSE Head(SortedBy(quick, DownloadKey))

BalanceStarterDownload(recommended, alternatives) ==
    LET quick == Select(alternatives, LAMBDA a : InMemoryPlaced(a) /\ a.speed.gen >= StarterMinTps)
    IN IF recommended.speed.gen >= StarterMinTps \/ quick = << >> THEN recommended
       ELSE Head(SortedBy(quick, DownloadKey))

StarterKey(c) == << Flag(c.pick.fit = "full"), c.quality, c.pick.speed.gen, 0 - c.params >>

\* Candidates: [kind, capabilities, pick, quality, params, ...]; a sequence of at most one is returned.
PickStarter(candidates) ==
    LET general == Select(candidates, LAMBDA c : /\ c.kind \in {"instruct", "vision"}
                                                    /\ "chat" \in c.capabilities
                                                    /\ InMemoryPlaced(c.pick))
        comfortable == Select(general, LAMBDA c : c.pick.speed.gen >= ComfortableTps)
        ranked == SortedBy(IF comfortable # << >> THEN comfortable ELSE general, StarterKey)
    IN SubSeq(ranked, 1, AtMost(1, Len(ranked)))
=============================================================================
