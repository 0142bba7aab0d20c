------------------------------- MODULE RunPage -------------------------------
(***************************************************************************)
(* The pages that say what runs where: /run (apps/web/src/app/run), its    *)
(* API, /hardware and /models, over a catalog that changes meanwhile.      *)
(*                                                                         *)
(* A visitor edits the query string of /run, a parameter at a time; each   *)
(* page is a function of it and of the database, so what a page shows is   *)
(* an operator and its request needs no step of its own.  Ingestion adds   *)
(* files and benchmark runs and rewrites rows, moderators rule on what     *)
(* members submitted.                                                      *)
(***************************************************************************)
EXTENDS CompatQueries, Discovery

NoParameters == [mode |-> "", mine |-> "", system |-> "", d0 |-> "", c0 |-> NotGiven, d1 |-> "", c1 |-> NotGiven,
                 ram |-> NotGiven, unified |-> NotGiven, ctx |-> NotGiven, cap |-> "", runtime |-> "", commercial |-> FALSE]

CONSTANTS
    Files,          \* artifact rows that ingestion may publish
    Base,           \* the files published from the beginning, in storage order
    Systems,        \* reference systems
    Devices,        \* devices a custom machine is made of
    Runtimes,       \* by name
    Saved,          \* hardware configurations members have saved
    BenchmarkRuns,  \* runs that may be imported
    Submissions,    \* submissions of members, with their measurements
    Quality,        \* mean of the capability profile of each model
    Setups,         \* machines the visitor enters in the form, as query strings
    Filters         \* values the visitor tries for the other parameters of the query string

IsTyped(u) ==
    /\ DOMAIN u = DOMAIN NoParameters /\ u = [p \in DOMAIN u |-> u[p]]
    /\ {u.c0, u.c1, u.ram, u.unified, u.ctx} \subseteq Nat \cup {NotGiven}
    /\ u.commercial \in BOOLEAN

\* Slugs are not empty and name one row.
ASSUME RunPageAssumption ==
    /\ Base \in Seq(Files) /\ \A i, j \in DOMAIN Base : Base[i] = Base[j] => i = j
    /\ \A f \in Files : IsFile(f) /\ Quality[f.model] \in Nat
    /\ \A s \in Systems \cup Saved : IsMachine(s)
    /\ IsFiniteSet(Systems) /\ \A s \in Systems : s.id # "" /\ \A t \in Systems : s.id = t.id => s = t
    /\ \A d \in Devices : IsDevice(d)
    /\ Runtimes \in Seq(Range(Runtimes))
    /\ IsFiniteSet(BenchmarkRuns) /\ \A r \in BenchmarkRuns : r.measurement.gen \in Nat
    /\ IsFiniteSet(Submissions) /\ \A s \in Submissions : s.gen \in Nat
    /\ \A u \in Setups : IsTyped(u)
    /\ \A f \in Filters : f.ctx \in Nat \cup {NotGiven} /\ f.commercial \in BOOLEAN

VARIABLES
    rows,           \* published files, in storage order
    runs,           \* imported benchmark runs
    standing,       \* status, visibility and verification of each submission
    contributions,  \* does this deployment accept contributions?
    viewer,         \* who is signed in, or NoOne
    url             \* query string of /run: a record of its parameters

vars == << rows, runs, standing, contributions, viewer, url >>

Models == {f.model : f \in Files}

db == [files |-> rows, runtimes |-> Runtimes, devices |-> Devices, systems |-> Systems, saved |-> Saved,
       runs |-> runs,
       submissions |-> {[measurement |-> s, verification |-> standing[s].verification,
                         visibility |-> standing[s].visibility, status |-> standing[s].status] : s \in Submissions}]

Init ==
    /\ rows = Base
    /\ runs = {}
    /\ standing = [s \in Submissions |-> [visibility |-> "public", status |-> "published", verification |-> "unverified"]]
    /\ contributions \in BOOLEAN
    /\ viewer = NoOne
    /\ url = NoParameters

----------------------------------------------------------------------------
(* What /run shows to a request: who asks, for which query string, of      *)
(* which database and deployment.                                          *)

Request == [db |-> db, viewer |-> viewer, url |-> url, contributions |-> contributions]

Mode(u) ==
    CASE u.mode # "" -> u.mode
      [] u.mode = "" /\ u.mine # "" -> "mine"
      [] u.mode = "" /\ u.mine = "" /\ u.d0 # "" -> "custom"
      [] OTHER -> IF u.system # "" THEN "system" ELSE "none"

CustomInput(u) ==
    [components |-> Select(<< [slug |-> u.d0, count |-> Default(u.c0, 1)],
                                 [slug |-> u.d1, count |-> Default(u.c1, 1)] >>, LAMBDA c : c.slug # ""),
     ram |-> Default(u.ram, 32), unified |-> u.unified]

Hardware(q) ==
    CASE Mode(q.url) = "mine" /\ q.url.mine # "" -> LoadUserHardware(q.db, q.viewer, q.url.mine)
      [] Mode(q.url) = "custom" /\ q.url.d0 # "" -> BuildCustomHardware(q.db, CustomInput(q.url))
      [] Mode(q.url) = "system" /\ q.url.system # "" -> LoadReferenceHardware(q.db, q.url.system)
      [] OTHER -> {}

Context(u) == Default(u.ctx, 8)
CommunityContentIsSample(q) == ~q.contributions
IncludeCommunityMeasurements(q) == ~CommunityContentIsSample(q)

Options(q) ==
    [ctx |-> Context(q.url), capability |-> q.url.cap, runtime |-> q.url.runtime, commercialOnly |-> q.url.commercial,
     includeCommunity |-> IncludeCommunityMeasurements(q)]

Results(q) ==
    LET hardware == Hardware(q)
    IN IF hardware = {} THEN << >> ELSE RunCompatibility(q.db, CHOOSE h \in hardware : TRUE, Options(q))

Shown(results) == {r \in Range(results) : Runs(r)}
Section(results, placement) == {r \in Shown(results) : Recommended(r).placement = placement}
WontRun(results) == Range(results) \ Shown(results)

StarterCandidates(results) ==
    Each(Select(results, Runs), LAMBDA r :
        [kind |-> r.kind, capabilities |-> r.capabilities, params |-> r.params, quality |-> Quality[r.model],
         from |-> Recommended(r), pick |-> BalanceStarterDownload(Recommended(r), r.alternatives)])

Starter(results) == PickStarter(StarterCandidates(results))

----------------------------------------------------------------------------
(* The catalog changes.                                                    *)

PublishFile(f) ==
    /\ f \notin Range(rows)
    /\ rows' = Append(rows, f)
    /\ UNCHANGED << runs, standing, contributions, viewer, url >>

\* An update writes a new version of the row, which the database returns last.
RewriteRow ==
    /\ Len(rows) > 1
    /\ rows' = Append(Tail(rows), Head(rows))
    /\ UNCHANGED << runs, standing, contributions, viewer, url >>

ImportRun(r) ==
    /\ r \notin runs
    /\ runs' = runs \cup {r}
    /\ UNCHANGED << rows, standing, contributions, viewer, url >>

Verify(s) ==
    /\ standing' = [standing EXCEPT ![s].verification = IF @ = "verified" THEN "disputed" ELSE "verified"]
    /\ UNCHANGED << rows, runs, contributions, viewer, url >>

Hide(s) ==
    /\ standing[s].visibility = "public"
    /\ standing' = [standing EXCEPT ![s].visibility = "private"]
    /\ UNCHANGED << rows, runs, contributions, viewer, url >>

----------------------------------------------------------------------------
(* The visitor.                                                            *)

\* Without an identity provider no session is valid.
SignIn(m) ==
    /\ contributions /\ viewer' = IF viewer = m THEN NoOne ELSE m
    /\ UNCHANGED << rows, runs, standing, contributions, url >>

\* A chip of the picker keeps only the filters of the page.
Kept == [NoParameters EXCEPT !.ctx = url.ctx, !.cap = url.cap, !.runtime = url.runtime, !.commercial = url.commercial]

Go(u) == url' = u /\ u # url /\ UNCHANGED << rows, runs, standing, contributions, viewer >>

ChooseSystem(slug) == Go([Kept EXCEPT !.mode = "system", !.system = slug])
\* The picker lists the viewer's own; the address of any can be kept or passed on.
ChooseSaved(id) == Go([Kept EXCEPT !.mode = "mine", !.mine = id])

\* "Check this setup" submits every field of the form and keeps only the context.
CheckSetup(u) == Go([u EXCEPT !.mode = "custom", !.ctx = url.ctx])

\* "Update", shown beside the results, keeps the selection and sets the filters.
Update(ctx, cap, runtime, commercial) ==
    /\ Hardware(Request) # {}
    /\ Go([url EXCEPT !.ctx = ctx, !.cap = cap, !.runtime = runtime, !.commercial = commercial])

Next ==
    \/ \E f \in Files : PublishFile(f)
    \/ RewriteRow
    \/ \E r \in BenchmarkRuns : ImportRun(r)
    \/ \E s \in Submissions : Verify(s) \/ Hide(s)
    \/ \E m \in Members : SignIn(m)
    \/ \E s \in Systems : ChooseSystem(s.id)
    \/ \E c \in Saved : ChooseSaved(c.id)
    \/ \E u \in Setups : CheckSetup(u)
    \/ \E f \in Filters : Update(f.ctx, f.cap, f.runtime, f.commercial)

Spec == Init /\ [][Next]_vars

----------------------------------------------------------------------------
(* What /models and /hardware say of the same catalog.                     *)

ReferenceContext == 8

FilesOf(model) == Select(rows, LAMBDA f : f.model = model)

\* Memory of the smallest file of known size at the reference context, to a tenth of a GB.
MinMemory(model) ==
    LET sized == {f \in Range(FilesOf(model)) : f.size # 0}
        smallest == CHOOSE f \in sized : \A g \in sized : f.size <= g.size
    IN IF sized = {} THEN 0 ELSE ((TotalGb(smallest, ReferenceContext) + 5) \div 10) * 10

\* A tab or a goal of the hardware page, and the groups in which both pages show machines and models.
SystemsFor(category, goal) ==
    {s \in Systems : (category = "all" \/ category \in SystemCategories(s)) /\ SystemMatchesGoal(goal, s)}
HardwareGroup(t) == {s \in SystemsFor("all", "none") : HardwareMemoryTier(SystemUsable(s)) = t}
ModelGroup(t) == {model \in {f.model : f \in Range(rows)} : ModelMemoryTier(MinMemory(model)) = t}

Summary(model) == CompatSummaryByModel(db, model, IncludeCommunityMeasurements(Request), ReferenceContext)
OnSystem(model, s) == CompatForModel(db, s, model, IncludeCommunityMeasurements(Request), ReferenceContext)

----------------------------------------------------------------------------
(* Properties.                                                             *)

Custom(u) == u.mode = "custom" /\ u.d0 # ""

\* u asks for the devices of v, at least as much of everything, and no longer a context.
AtLeast(u, v) ==
    /\ Custom(u) /\ Custom(v) /\ u.d0 = v.d0 /\ u.d1 = v.d1
    /\ u.cap = v.cap /\ u.runtime = v.runtime /\ u.commercial = v.commercial
    /\ Default(u.c0, 1) >= Default(v.c0, 1) /\ Default(u.c1, 1) >= Default(v.c1, 1)
    /\ Default(u.ram, 32) >= Default(v.ram, 32)
    /\ Default(u.unified, DefaultUnified) >= Default(v.unified, DefaultUnified)
    /\ Default(u.ctx, 8) <= Default(v.ctx, 8)

\* How well a variant runs: in memory (2), spilling out of it (1) or not at all.
Standing(r) == IF ~Runs(r) THEN 0 ELSE IF InMemory(Recommended(r)) THEN 2 ELSE 1

\* A visitor who adds cards or memory to a machine, or shortens the context, loses no model: what ran in memory still
\* does, what ran at all still runs, whatever runtime and file are then recommended (comparisons of assessMemory).
MoreMemoryNeverHurts ==
    [][AtLeast(url', url) =>
        LET before == Results(Request)
            after == Results(Request')
        IN \A i \in DOMAIN before : \E j \in DOMAIN after :
              after[j].variant = before[i].variant /\ Standing(after[j]) >= Standing(before[i])]_vars

Told(r) ==
    [variant |-> r.variant, considered |-> r.considered, runs |-> Runs(r),
     best |-> IF Runs(r)
              THEN LET b == Recommended(r) IN << InMemory(b), b.speed, IF InMemory(b) THEN InMemoryKey(b) ELSE OffloadKey(b) >>
              ELSE << >>]

\* The query has no ORDER BY, so an update may move a row; that changes nothing a visitor is told of speed, fit or
\* precision, although the file named may change between equals.
StorageOrderIsImmaterial ==
    [][rows' # rows /\ Range(rows') = Range(rows) =>
          {Told(r) : r \in Range(Results(Request))} = {Told(r) : r \in Range(Results(Request'))}]_vars

General(c) == c.kind \in {"instruct", "vision"} /\ "chat" \in c.capabilities /\ InMemoryPlaced(c.from)

Comfortable(results, offered, starter) ==
    offered # {} =>
        /\ starter # << >>
        /\ InMemoryPlaced(starter[1].pick)
        /\ (\E c \in offered : c.from.speed.gen >= ComfortableTps) => starter[1].pick.speed.gen >= ComfortableTps
        /\ \E r \in Shown(results) : starter[1].pick \in {Recommended(r)} \cup Range(r.alternatives)

ComfortableAmong(results) ==
    Comfortable(results, {c \in Range(StarterCandidates(results)) : General(c)}, Starter(results))

\* Trading the recommended download for a quicker one never costs a visitor the starter: when some general chat model
\* runs in memory there is one, at reading speed if any of them reaches it, and its download is listed on the page.
StarterIsComfortable == ComfortableAmong(Results(Request))

AskedPlainly(u) == Mode(u) = "system" /\ u.cap = "" /\ u.runtime = "" /\ ~u.commercial /\ Context(u) = ReferenceContext

Best(model) == [s \in Systems |-> OnSystem(model, s)]

Listed(results, model) == {Recommended(r) : r \in {r \in Shown(results) : r.model = model}}

Agree(system, listed, best, summary) ==
    /\ (best[system] = << >>) <=> (listed = {})
    /\ best[system] # << >> => best[system][1] \in listed
    /\ summary.tooLarge = Cardinality({s \in Systems : best[s] = << >>})
    /\ summary.runsWell >= Cardinality({s \in Systems : best[s] # << >> /\ best[s][1].placement = "accelerator"})

PagesAgreeOn(system, results) ==
    \A model \in {f.model : f \in Range(rows)} : Agree(system, Listed(results, model), Best(model), Summary(model))

\* The pages agree: /run lists a model for a system exactly when the page of the model has a row for it, the row is one
\* of the recommendations of /run, and the summary of the model counts the systems as those rows do.
PagesAgree ==
    \A system \in Systems : AskedPlainly(url) /\ url.system = system.id => PagesAgreeOn(system, Results(Request))

\* The page of the hardware groups machines by the tiers of the models page: "a machine in a group runs every model in
\* that group" (apps/web/src/app/hardware/page.tsx:98). The last tier has no ceiling and makes no such promise.
MachineRunsItsTier ==
    \A t \in Tiers : TierCeiling[t] # Unbounded =>
        \A s \in HardwareGroup(t), model \in ModelGroup(t) : OnSystem(model, s) # << >>

EstimatedBesideMeasured(spec, c, measurements) ==
    /\ c.speed.basis = "estimated"
    /\ \E f \in Range(rows), rt \in Range(Runtimes) :
          LET r == Evaluate(spec, f, rt, Context(url), measurements)
          IN f.id = c.artifact /\ InMemory(r) /\ r.speed.basis = "measured"

\* "A measurement outranks an estimate": an estimate for one runtime never displaces a measurement of the same file on the
\* same system with another (packages/domain/src/compat.ts:298).
MeasurementOutranksEstimate ==
    \A h \in Hardware(Request) : \A r \in Shown(Results(Request)) : \A c \in {Recommended(r)} \cup Range(r.alternatives) :
        ~EstimatedBesideMeasured(h.spec, c, LoadMeasurements(db, IncludeCommunityMeasurements(Request)))
=============================================================================
