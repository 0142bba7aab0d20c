------------------------------- MODULE Catalog -------------------------------
(***************************************************************************)
(* The pages about models: the list (packages/db/src/queries/catalog.ts,   *)
(* apps/web/src/app/models/page.tsx), the sections of the home page drawn  *)
(* from it (app/page.tsx) and families (domain/src/families.ts), over the  *)
(* benchmark results of Benchmarks, the files published for a model and    *)
(* what members said of it.                                                *)
(*                                                                         *)
(* The tests of text search are left out. Dates are days, 0 when none is   *)
(* recorded, and memory counts in hundredths of a GB.                      *)
(***************************************************************************)
EXTENDS Benchmarks

CONSTANTS
    FamilyRows,     \* families in the order of their names, with their parents and developers; some have no models
    ModelRows,      \* models in the order of their slugs, with the families of their releases
    Files,          \* files that publishers may publish, of known size or not
    Held,           \* files published from the beginning
    Contributions,  \* reviews and runs of members, each of a model
    Reach           \* model |-> on how many reference systems it runs, and how

\* What the foreign keys of model_family and model_release say.
FamilySlugs == {f.slug : f \in Range(FamilyRows)}
ASSUME CatalogAssumption ==
    /\ Cardinality(FamilySlugs) = Len(FamilyRows)
    /\ \A f \in Range(FamilyRows) : f.parent \in FamilySlugs \cup {Null}
    /\ \A m \in Range(ModelRows) : m.family \in FamilySlugs

VARIABLES
    artifacts,      \* files published
    community       \* contributions that are public and published

catalogVars == << benchmarkVars, artifacts, community >>

CatalogInit == BenchmarkInit /\ artifacts = Held /\ community = {}

PublishArtifact(f) ==
    /\ f \notin artifacts
    /\ artifacts' = artifacts \cup {f}
    /\ UNCHANGED << benchmarkVars, community >>

Contribute(c) ==
    /\ c \notin community
    /\ community' = community \cup {c}
    /\ UNCHANGED << benchmarkVars, artifacts >>

\* Hidden by a moderator, made private or deleted.
Withdraw(c) ==
    /\ c \in community
    /\ community' = community \ {c}
    /\ UNCHANGED << benchmarkVars, artifacts >>

CatalogNext ==
    \/ BenchmarkNext /\ UNCHANGED << artifacts, community >>
    \/ \E f \in Files : PublishArtifact(f)
    \/ \E c \in Contributions : Contribute(c) \/ Withdraw(c)

CatalogSpec == CatalogInit /\ [][CatalogNext]_catalogVars

----------------------------------------------------------------------------
(* The list of models.                                                     *)

MemoryReferenceContext == 8

\* Memory of the smallest file of known size, to a tenth of a GB.
MinMemory(files, m) ==
    LET sizes == {f.size : f \in {f \in files : f.model = m.slug /\ f.size # 0}}
        smallest == CHOOSE s \in sizes : \A t \in sizes : s <= t
        file == [size |-> smallest, kvPerToken |-> m.kvPerToken, context |-> m.context]
    IN IF sizes = {} THEN 0 ELSE ((TotalGb(file, MemoryReferenceContext) + 5) \div 10) * 10

Item(files, said, m) ==
    m @@ [minMemory |-> MinMemory(files, m), activity |-> Cardinality({c \in said : c.model = m.slug})]

NoFilters == [family |-> "", developer |-> "", architecture |-> "", capability |-> "", commercial |-> "",
              min |-> 0, max |-> Unbounded, fits |-> Unbounded, sort |-> "released"]

FamilyOf(m) == CHOOSE f \in Range(FamilyRows) : f.slug = m.family

\* A family is asked for with the families right below it.
Passes(f, m) ==
    /\ f.family \in {"", m.family, FamilyOf(m).parent}
    /\ f.developer \in {"", FamilyOf(m).developer}
    /\ f.architecture \in {"", m.architecture}
    /\ f.capability # "" => f.capability \in m.capabilities
    /\ f.commercial # "" => f.commercial \in m.licenses
    /\ m.params \in f.min .. f.max

NameRank(m) == CHOOSE i \in DOMAIN ModelRows : ModelRows[i].slug = m.slug

OrderOf(sort, m) ==
    CASE sort = "released" -> << m.released, 0 - m.params >>
      [] sort = "params_asc" -> << 0 - m.params >>
      [] sort = "params_desc" -> << m.params >>
      [] sort = "name" -> << 0 - NameRank(m) >>
      [] sort = "activity" -> << m.released >>

ListModels(files, said, f) ==
    LET items == Each(Select(ModelRows, LAMBDA m : Passes(f, m)), LAMBDA m : Item(files, said, m))
        listed == Select(SortedBy(items, LAMBDA m : OrderOf(f.sort, m)),
                            LAMBDA m : f.fits # Unbounded => m.minMemory # 0 /\ m.minMemory <= f.fits)
    IN IF f.sort = "activity" THEN SortedBy(listed, LAMBDA m : << m.activity >>) ELSE listed

\* Every family, with or without models, and who develops one.
ListModelFacets == [families |-> FamilyRows, developers |-> {f.developer : f \in Range(FamilyRows)}]

----------------------------------------------------------------------------
(* /models: what it is asked (an intent, a sort or "recommended", filters) *)
(* and whether what members said is only a sample.                         *)

TakeFirst(s, n) == SubSeq(s, 1, AtMost(n, Len(s)))

\* Counts of members' contributions are claims about a model: samples are not shown as such.
ScrubNothing(sample, models) == models
Scrub(sample, models) == IF sample THEN Each(models, LAMBDA m : [m EXCEPT !.activity = 0]) ELSE models

ShownModels(models, intent, sort, profiles) ==
    LET tested == Select(models, LAMBDA m : intent # "" => IntentTest(intent, m))
    IN IF intent = "" \/ sort # "recommended" THEN tested
       ELSE SortedBy(tested, LAMBDA m : << IntentScore(intent, m, profiles[m.slug], Reach[m.slug]) >>)

Groups(shown) ==
    Each([t \in Tiers |-> t], LAMBDA t : Select(shown, LAMBDA m : ModelMemoryTier(m.minMemory) = t))
        \o << Select(shown, LAMBDA m : m.minMemory = 0) >>

Pick(picks, candidates) ==
    LET free == Select(candidates, LAMBDA m : \A i \in DOMAIN picks : picks[i].slug # m.slug)
    IN picks \o TakeFirst(free, 1)

\* Two models to start with, the most discussed and the newest, without repeats.
Picks(all, profiles) ==
    LET recommended == SortedBy(Select(all, LAMBDA m : ReachShare(Reach[m.slug]) >= 500),
                                LAMBDA m : << ProfileMean(profiles[m.slug]), m.params >>)
        popular == SortedBy(Select(all, LAMBDA m : m.activity > 0), LAMBDA m : << m.activity >>)
        latest == SortedBy(Select(all, LAMBDA m : m.released # 0), LAMBDA m : << m.released, m.params >>)
    IN Pick(Pick(TakeFirst(recommended, 2), TakeFirst(popular, 3)), TakeFirst(latest, 3))

ModelsPage(files, said, sample, profiles, asked) ==
    LET sort == IF asked.sort = "recommended" THEN "released" ELSE asked.sort
        models == Scrub(sample, ListModels(files, said, [asked.filters EXCEPT !.sort = sort]))
        all == Scrub(sample, ListModels(files, said, NoFilters))
        shown == ShownModels(models, asked.intent, asked.sort, profiles)
    IN [shown |-> shown, groups |-> Groups(shown), picks |-> Picks(all, profiles), facets |-> ListModelFacets]

----------------------------------------------------------------------------
(* The home page: families, one card for each concept, models to run       *)
(* locally, and what members discuss.                                      *)

SummariseFamily(models) ==
    [capabilities |-> UNION {m.capabilities : m \in models},
     paramsMin |-> CHOOSE n \in {m.params : m \in models} : \A m \in models : n <= m.params,
     paramsMax |-> Greatest({m.params : m \in models}),
     architectures |-> {m.architecture : m \in models},
     latest |-> Greatest({m.released : m \in models}),
     count |-> Cardinality(models)]

RankFamilies(families) == SortedBy(families, LAMBDA f : << f.summary.latest, f.summary.count >>)

MaxFamilyCards == 6

\* A family appears in the order of its first model.
HomeFamilies(models) ==
    LET firsts == Select(models, LAMBDA m : \A i \in DOMAIN models :
                      models[i].family = m.family => \E j \in 1 .. i : models[j] = m)
        family(m) == LET own == {n \in Range(models) : n.family = m.family}
                     IN [slug |-> m.family, models |-> own, summary |-> SummariseFamily(own)]
    IN TakeFirst(RankFamilies(Each(firsts, family)), MaxFamilyCards)

\* The test with the most results, and the models that lead it.
AxisCard(scores, axis) ==
    LET on(b) == {s \in scores : s.benchmark = b}
        tests == {b \in Axes[axis] : on(b) # {}}
        chosen == CHOOSE b \in tests : \A c \in tests : Cardinality(on(c)) <= Cardinality(on(b))
        rowsOf(b) == Select(Each(ModelRows, LAMBDA m : {s \in on(b) : s.subject = m.slug}), LAMBDA S : S # {})
        ranked(b) == SortedBy(Each(rowsOf(b), LAMBDA S : CHOOSE s \in S : TRUE), LAMBDA s : << s.value >>)
    IN IF tests = {} THEN << >> ELSE TakeFirst(ranked(chosen), 3)

LocalMemoryOfCard == 2400      \* A bug to rule out: all the memory of a 24 GB card.
LocalMemory == 2200

LocalLeaders(models, profiles) ==
    TakeFirst(SortedBy(Select(models, LAMBDA m : m.minMemory # 0 /\ m.minMemory <= LocalMemory),
                       LAMBDA m : << ProfileMean(profiles[m.slug]), 0 - m.minMemory >>), 3)

ActiveModels(models, sample) ==
    IF sample THEN << >>
    ELSE TakeFirst(SortedBy(Select(models, LAMBDA m : m.activity > 0), LAMBDA m : << m.activity >>), 3)

HomePage(files, said, sample, scores, profiles) ==
    LET models == ListModels(files, said, NoFilters)
    IN [families |-> HomeFamilies(models), cards |-> [a \in DOMAIN Axes |-> AxisCard(scores, a)],
        local |-> LocalLeaders(models, profiles), active |-> ActiveModels(models, sample)]

----------------------------------------------------------------------------
(* Properties.                                                             *)

Slugs == {m.slug : m \in Range(ModelRows)}
ProfilesOf(scores) == FoldSet(LAMBDA slug, f : f @@ (slug :> CapabilityProfile(scores, slug)), << >>, Slugs)

Asked(intent, filters) == [intent |-> intent, sort |-> "recommended", filters |-> filters]

\* A model that is listed is found in one group of the page, and only there.
ListedOnce(page) ==
    LET places == {<< g, i >> : g \in DOMAIN page.groups, i \in 1 .. Len(page.shown)}
        filled == {p \in places : p[2] \in DOMAIN page.groups[p[1]]}
    IN /\ Cardinality(filled) = Len(page.shown)
       /\ {page.groups[p[1]][p[2]] : p \in filled} = Range(page.shown)

\* A concept's card and the profiles rate the same results: who leads the card is unbeaten on that axis.
LeadersAreUnbeaten(home, profiles) ==
    \A a \in DOMAIN Axes : home.cards[a] # << >> /\ Head(home.cards[a]).value > 0 =>
        profiles[Head(home.cards[a]).subject][a] = 100

\* "The same threshold the Models 'Run locally' path uses" (apps/web/src/app/page.tsx:50), and the best of them.
LocalIsLocal(home, profiles, page) ==
    /\ Range(home.local) \subseteq Range(page.shown)
    /\ \A m \in Range(page.shown) \ Range(home.local) :
          Len(home.local) = 3 /\ ProfileMean(profiles[m.slug]) <= ProfileMean(profiles[home.local[3].slug])

\* A card of a family shows its models: those the list finds when it is asked for the family, less those of the
\* families below it. A family has no card only where six others have one and none of them is older.
CardsMatchTheList(home, listed, listedUnder(_)) ==
    LET carded == UNION {f.models : f \in Range(home.families)}
    IN /\ \A f \in Range(home.families) : f.models = {m \in Range(listedUnder(f.slug)) : m.family = f.slug}
       /\ \A m \in Range(listed) \ carded :
             /\ Cardinality({f.slug : f \in Range(home.families)}) = MaxFamilyCards
             /\ \A f \in Range(home.families) : m.released <= f.summary.latest

\* What the home page and the list say of the same models agrees: a listed model stands in one group of the list, the
\* cards of families show what the list finds under their families and the newest come first, the local models are those
\* of the list, and the leaders of a concept are those of the profiles.
ModelPagesAgree ==
    LET scores == ProfileScores(database)
        profiles == ProfilesOf(scores)
        home == HomePage(artifacts, community, FALSE, scores, profiles)
        page(intent) == ModelsPage(artifacts, community, FALSE, profiles, Asked(intent, NoFilters))
        whole == page("")
        locally == page("local")
        under(family) == ListModels(artifacts, community, [NoFilters EXCEPT !.family = family])
    IN /\ ListedOnce(whole) /\ ListedOnce(locally) /\ ListedOnce(page("coding"))
       /\ CardsMatchTheList(home, whole.shown, under)
       /\ LocalIsLocal(home, profiles, locally)
       /\ LeadersAreUnbeaten(home, profiles)

\* Where nobody can sign in, what the seed says of members changes nothing on these pages, unless the visitor asks for
\* the order of activity ("sample content must never read as member activity", apps/web/src/app/page.tsx:88).
SampleContentIsInvisible ==
    LET scores == ProfileScores(database)
        profiles == ProfilesOf(scores)
        page(said, intent) == ModelsPage(artifacts, said, TRUE, profiles, Asked(intent, NoFilters))
    IN /\ \A intent \in {"", "local", "coding"} : page(community, intent) = page({}, intent)
       /\ HomePage(artifacts, community, TRUE, scores, profiles).active = << >>

\* The same, whatever the visitor asks for.
SampleActivityChangesNothing ==
    LET profiles == ProfilesOf(ProfileScores(database))
        page(said) == ModelsPage(artifacts, said, TRUE, profiles, [Asked("", NoFilters) EXCEPT !.sort = "activity"])
    IN page(community) = page({})
=============================================================================
