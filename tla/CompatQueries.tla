---------------------------- MODULE CompatQueries ----------------------------
(***************************************************************************)
(* What the compatibility engine is given, and what the pages make of its  *)
(* answers: packages/db/src/queries/compat.ts.  A database is a record of  *)
(* the tables read: files in the order the database returns them (there is *)
(* no ORDER BY), runtimes by name, devices, systems, saved hardware of     *)
(* members, benchmark runs and submissions of members.                     *)
(***************************************************************************)
EXTENDS Compat, VisibilityPolicy

NotGiven == -1          \* a parameter the visitor left out
Default(n, d) == IF n = NotGiven THEN d ELSE n

MaxCount == 16
DefaultUnified == 32
DefaultRamBandwidth == 80

----------------------------------------------------------------------------
(* The machine asked about: a set of at most one.                          *)

HardwareSpec(id, components, ram, ramBandwidth, unified) ==
    [id |-> id, components |-> components, ram |-> ram, ramBandwidth |-> ramBandwidth, unified |-> unified]

Selection(source, row) ==
    [source |-> source,
     spec |-> HardwareSpec(row.id, row.components, row.ram, row.ramBandwidth, row.unified)]

LoadReferenceHardware(db, slug) == {Selection("reference", s) : s \in {s \in db.systems : s.id = slug}}

LoadUserHardware(db, viewer, id) ==
    {Selection("user", c) : c \in {c \in db.saved : c.id = id /\ CanView(viewer, c, "direct")}}

HostCpu == [device |-> [slug |-> "generic-cpu", kind |-> "cpu", memory |-> "none", gb |-> 0, bandwidth |-> 0,
                        usable |-> 0, backends |-> {"cpu"}],
            count |-> 1]

Clamped(count) == IF count < 1 THEN 1 ELSE AtMost(count, MaxCount)

BuildCustomHardware(db, input) ==
    LET named == Select(input.components, LAMBDA c : \E d \in db.devices : d.slug = c.slug)
        components == Each(named, LAMBDA c :
            [device |-> CHOOSE d \in db.devices : d.slug = c.slug, count |-> Clamped(c.count)])
        has(P(_)) == \E i \in DOMAIN components : P(components[i].device)
        unified == has(LAMBDA d : d.memory = "unified")
        cpu == has(LAMBDA d : d.kind = "cpu")
    IN IF components = << >> THEN {}
       ELSE {[source |-> "custom",
              spec |-> HardwareSpec("custom",
                          IF cpu \/ unified THEN components ELSE Append(components, HostCpu),
                          IF unified THEN 0 ELSE input.ram,
                          IF unified THEN 0 ELSE DefaultRamBandwidth,
                          IF unified THEN Default(input.unified, DefaultUnified) ELSE 0)]}

----------------------------------------------------------------------------
(* Measured speeds: benchmark runs of a file on a system and, unless they  *)
(* are only samples, submissions that are public, published and verified.  *)

Eligible(s) == PublicAggregateEligible(s) /\ s.verification = "verified"

LoadMeasurements(db, includeCommunity) ==
    {r.measurement : r \in db.runs}
        \cup (IF includeCommunity THEN {s.measurement : s \in {s \in db.submissions : Eligible(s)}} ELSE {})

LoadCompatCatalog(db, includeCommunity) ==
    [files |-> Select(db.files, LAMBDA f : f.kind # "base"),
     runtimes |-> db.runtimes,
     measurements |-> LoadMeasurements(db, includeCommunity)]

----------------------------------------------------------------------------
(* Every file of one variant on one system. The recommended result is a    *)
(* sequence of at most one; the alternatives are what else runs.           *)

ResultOf(group, candidates, ranked) ==
    LET recommended == SubSeq(ranked, 1, AtMost(1, Len(ranked)))
        others == Select(candidates, LAMBDA c : c.fit # "none" /\ \A i \in DOMAIN recommended : recommended[i] # c)
    IN [variant |-> group[1].variant, kind |-> group[1].kind, model |-> group[1].model,
        capabilities |-> group[1].capabilities, params |-> group[1].params,
        recommended |-> recommended,
        alternatives |-> SortedBy(others, CompareKey),
        considered |-> Len(group)]

VariantResult(group, candidates) == ResultOf(group, candidates, PickRecommended(candidates))

EvaluateVariant(spec, group, runtimes, measurements, ctx) ==
    VariantResult(group,
        IF runtimes = << >> THEN << >>
        ELSE Each(group, LAMBDA f : Head(EvaluateAcrossRuntimes(spec, f, runtimes, ctx, measurements))))

Runs(result) == result.recommended # << >>
Recommended(result) == result.recommended[1]

(* One group per variant, in the order of its first file. *)
GroupByVariant(files) ==
    LET firsts == Select([i \in DOMAIN files |-> i],
                            LAMBDA i : \A j \in 1 .. i - 1 : files[j].variant # files[i].variant)
    IN Each(firsts, LAMBDA i : Select(files, LAMBDA f : f.variant = files[i].variant))

ResultKey(result) == << IF Runs(result) THEN FitRank[Recommended(result).fit] ELSE 0, result.params >>

RunCompatibility(db, hardware, opts) ==
    LET catalog == LoadCompatCatalog(db, opts.includeCommunity)
        runtimes == IF opts.runtime = "" THEN catalog.runtimes
                    ELSE Select(catalog.runtimes, LAMBDA r : r.id = opts.runtime)
        chosen == Select(catalog.files,
                      LAMBDA f : /\ opts.capability # "" => opts.capability \in f.capabilities
                                 /\ opts.commercialOnly => f.commercialUse = "allowed")
        groups == GroupByVariant(chosen)
        result(group) == EvaluateVariant(hardware.spec, group, runtimes, catalog.measurements, opts.ctx)
    IN SortedBy(Each(groups, result), ResultKey)

----------------------------------------------------------------------------
(* One model over all reference systems.                                   *)

ModelGroups(files, model) == Select(GroupByVariant(files), LAMBDA g : g[1].model = model)

EvaluateModel(catalog, system, model, ctx) ==
    LET result(group) == EvaluateVariant(Selection("reference", system).spec, group, catalog.runtimes, catalog.measurements, ctx)
    IN Each(ModelGroups(catalog.files, model), result)

PlacementsOf(results) == {Recommended(results[g]).placement : g \in {g \in DOMAIN results : Runs(results[g])}}

\* A bug to rule out: a system too small for one variant of a model is counted as too small for the model.
TooLargeForSome(db, model, includeCommunity, ctx) ==
    LET catalog == LoadCompatCatalog(db, includeCommunity)
        results == [s \in db.systems |-> EvaluateModel(catalog, s, model, ctx)]
        tooLarge == {s \in db.systems : \E g \in DOMAIN results[s] : ~Runs(results[s][g])}
        well == {s \in db.systems \ tooLarge : "accelerator" \in PlacementsOf(results[s])}
    IN [runsWell |-> Cardinality(well), slow |-> Cardinality(db.systems \ (tooLarge \cup well)),
        tooLarge |-> Cardinality(tooLarge), of |-> Cardinality(db.systems)]

CompatSummaryByModel(db, model, includeCommunity, ctx) ==
    LET catalog == LoadCompatCatalog(db, includeCommunity)
        placements == [s \in db.systems |-> PlacementsOf(EvaluateModel(catalog, s, model, ctx))]
        well == {s \in db.systems : "accelerator" \in placements[s]}
        slow == {s \in db.systems \ well : placements[s] # {}}
    IN [runsWell |-> Cardinality(well), slow |-> Cardinality(slow),
        tooLarge |-> Cardinality(db.systems \ (well \cup slow)), of |-> Cardinality(db.systems)]

(* The best recommendation for a model on a system: empty when none runs. *)
CompatForModel(db, system, model, includeCommunity, ctx) ==
    LET catalog == LoadCompatCatalog(db, includeCommunity)
        running == Select(EvaluateModel(catalog, system, model, ctx), Runs)
    IN PickRecommended(Each(running, Recommended))
=============================================================================
