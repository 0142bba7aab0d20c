------------------------------ MODULE Promotion ------------------------------
(***************************************************************************)
(* What a repository with complete weights becomes (applyVariant and       *)
(* promoteFirstPartyRoot in packages/ingestion/src/pipeline.ts, with the   *)
(* rules of packages/ingestion/src/promotion.ts): a release, a model and a *)
(* variant of a known developer, a variant derived from known ones, or     *)
(* nothing but a review item.                                              *)
(*                                                                         *)
(* The sources are the processes: each evaluates its repositories one at a *)
(* time in a transaction under READ COMMITTED, and two sources (the Hub    *)
(* and its fixture) may name the same repository.  A transaction reads the *)
(* catalog when it classifies its repository, when it looks for a release  *)
(* or a model by name, and when it looks for a free slug; inserting waits  *)
(* for whoever is inserting the same slug and fails when that commits.     *)
(*                                                                         *)
(* A repository is its facts.  What its own name and metadata say against  *)
(* a promotion is the set `unmet` of rules; which family its name belongs  *)
(* to depends on the families of the catalog, by the score of each name.   *)
(***************************************************************************)
EXTENDS Integers, FiniteSets

CONSTANTS
    Sources,
    Serial,       \* one process takes the sources one after another
    Repos,
    Lists,        \* the repositories each source lists
    Facts,        \* what is known of each repository
    Orgs,
    KnownOrgs,    \* organizations of the seeded catalog
    Families,     \* [name, developer]: families the catalog has or may get
    SeedFamilies,
    SeedEntities, \* models and variants of the seeded catalog
    SeedLinks,
    NoOrg, NoFamily

ASSUME PromotionAssumption ==
    /\ Serial \in BOOLEAN
    /\ Lists \in [Sources -> SUBSET Repos]
    /\ KnownOrgs \subseteq Orgs /\ SeedFamilies \subseteq Families
    /\ \A r \in Repos : Facts[r].owner \in Orgs /\ Facts[r].bases \subseteq Repos

VARIABLES
    families,   \* families of the catalog
    orgs,       \* its organizations
    entities,   \* its releases, models and variants
    links,      \* external_identifier: <<repository, variant>>
    status,     \* of each source's snapshot of each repository
    raised,     \* reasons of the review items its last evaluation raised
    tx          \* the transaction each source has open

vars == <<families, orgs, entities, links, status, raised, tx>>

Levels == {"release", "model", "variant"}

\* The slug is <<name, n>>, unique per kind; `parent` is a family for a release
\* and the slug of a release or model below; `repo` is where it comes from.
Entity(kind, name, n, parent, publisher, lineage, repo) ==
    [kind |-> kind, slug |-> <<name, n>>, parent |-> parent, publisher |-> publisher,
     lineage |-> lineage, repo |-> repo]

NoTx == [at |-> "none"]
Open(s) == tx[s].at # "none"

TypeOK ==
    /\ families \subseteq Families /\ orgs \subseteq Orgs
    /\ \A e \in entities : e.kind \in Levels /\ e.publisher \in Orgs \cup {NoOrg}
    /\ links \subseteq Repos \X entities
    /\ \A k, l \in links : k[1] = l[1] => k = l
    /\ status \in [Sources -> [Repos -> {"new", "unresolved", "processed"}]]
    /\ \A e, f \in entities : e.kind = f.kind /\ e.slug = f.slug => e = f

Init ==
    /\ families = SeedFamilies /\ orgs = KnownOrgs
    /\ entities = SeedEntities /\ links = SeedLinks
    /\ status = [s \in Sources |-> [r \in Repos |-> "new"]]
    /\ raised = [s \in Sources |-> [r \in Repos |-> {}]]
    /\ tx = [s \in Sources |-> NoTx]

-----------------------------------------------------------------------------
(* What transaction s sees: what is committed and what it has inserted. *)

Repo(s) == tx[s].repo
Seen(s) == entities \cup tx[s].added

Variants(s) == {e \in Seen(s) : e.kind = "variant"}

\* resolveIdentifier of a repository.
Resolved(r) == {l[2] : l \in {k \in links : k[1] = r}}

\* findCandidates: variants that have the name of the repository as an alias.
ExactMatches(r) == {e \in entities : e.kind = "variant" /\ e.slug[1] = Facts[r].name}

\* developerOfModel of the model with this slug.
ModelOf(v) == CHOOSE m \in entities : m.kind = "model" /\ m.slug = v.parent
ReleaseOf(m) == CHOOSE e \in entities : e.kind = "release" /\ e.slug = m.parent
Developer(m) == ReleaseOf(m).parent.developer

DevelopedBy(org) == {f \in families : f.developer = org}

\* matchFamily: the families the name of the repository fits best.
BestFamilies(r) ==
    LET own == DevelopedBy(Facts[r].owner)
        score(f) == Facts[r].score[f.name]
    IN {f \in own : score(f) > 0 /\ \A g \in own : score(g) <= score(f)}

\* A bug to rule out: a failed rule does not stop the promotion.
FailuresIgnored(r) == {}

\* planFirstPartyRelease: the rules that are not met.
Failures(r) ==
    Facts[r].unmet
        \cup {x \in {"publisher_not_known_developer"} :
                 Facts[r].owner \notin orgs \/ DevelopedBy(Facts[r].owner) = {}}
        \cup {x \in {"no_matching_family"} : BestFamilies(r) = {}}
        \cup {x \in {"ambiguous_family"} : Cardinality(BestFamilies(r)) > 1}

-----------------------------------------------------------------------------
(* applyVariant up to its first write: what becomes of the repository. *)

Review(reason) == [at |-> "finish", reason |-> reason]

\* Weights without a declared parent.
Root(r) ==
    IF ExactMatches(r) # {}
    THEN {Review(IF e.publisher = Facts[r].owner THEN "new_first_party_model" ELSE "possible_reupload") :
             e \in ExactMatches(r)}
    ELSE IF Failures(r) # {} THEN {Review("new_first_party_model")}
    ELSE {[at |-> "find", reason |-> "none"]}

Reupload(r) ==
    \E b \in Repos : /\ Facts[r].bases = {b}
                     /\ Facts[b].name = Facts[r].name /\ Facts[b].owner # Facts[r].owner

\* A bug to rule out: whoever publishes them, derivatives are created.
DerivedByAnyone(r) ==
    IF \E b \in Facts[r].bases : Resolved(b) = {} THEN {Review("unknown_base")}
    ELSE {[at |-> "derive", reason |-> "none"]}

\* Weights with declared parents.
Derived(r) ==
    LET parents == UNION {Resolved(b) : b \in Facts[r].bases} IN
    IF Reupload(r) THEN {Review("possible_reupload")}
    ELSE IF \E b \in Facts[r].bases : Resolved(b) = {} THEN {Review("unknown_base")}
    ELSE IF Cardinality({v.parent : v \in parents}) > 1 THEN {Review("merge_across_models")}
    ELSE IF \E v \in parents : Developer(ModelOf(v)) = Facts[r].owner
         THEN {Review("first_party_variant_kind")}
    ELSE {[at |-> "derive", reason |-> "none"]}

Classes(r) ==
    IF Resolved(r) # {} THEN {Review("none")}
    ELSE IF Facts[r].bases = {} THEN Root(r)
    ELSE Derived(r)

\* Every reason but these leaves the snapshot unresolved.
Advisory == {"none", "possible_reupload", "unmapped_license", "fact_conflict", "new_organization"}

\* licenseIdFor: a license the catalog has no record of.
LicenseAdvice(r) == {x \in {"unmapped_license"} : ~Facts[r].licensed}

\* checkObservedFacts: what the repository reports against the model of its variant,
\* whose facts are those of the repository it was promoted from.
FactAdvice(r) ==
    {x \in {"fact_conflict"} :
        \E v \in Resolved(r) : Facts[r].observed # Facts[ModelOf(v).repo].observed}

-----------------------------------------------------------------------------
Set(s, t) == tx' = [tx EXCEPT ![s] = t]
CatalogUnchanged == UNCHANGED <<families, orgs, entities, links, status, raised>>

\* processItem and the reads of applyVariant.
Classify(s) ==
    /\ ~Open(s)
    /\ Serial => \A q \in Sources : ~Open(q)
    /\ \E r \in Lists[s] :
          /\ status[s][r] # "processed"
          /\ \E c \in Classes(r) :
                Set(s, [at |-> c.at, repo |-> r, reason |-> c.reason, level |-> "release",
                        parent |-> NoFamily, slug |-> <<r, 0>>, added |-> {}, account |-> NoOrg,
                        advice |-> IF Resolved(r) = {} THEN {} ELSE LicenseAdvice(r) \cup FactAdvice(r)])
    /\ CatalogUnchanged

Name(s, level) ==
    CASE level = "release" -> Facts[Repo(s)].release
      [] level = "model" -> Facts[Repo(s)].model
      [] level = "variant" -> Facts[Repo(s)].name

\* The family a new release joins; below it the entity found or created last.
Parent(s) == IF tx[s].level = "release" THEN CHOOSE f \in BestFamilies(Repo(s)) : TRUE ELSE tx[s].parent

\* A bug to rule out: the release or model is not looked for.
FindNothing(s) == {}

\* findNamed: entities of this level and name within their parent.
FindNamed(s) ==
    {e \in Seen(s) : e.kind = tx[s].level /\ e.slug[1] = Name(s, tx[s].level) /\ e.parent = Parent(s)}

\* One level down; a variant is made only when the name states its kind.
Below(t, slug) ==
    LET next == IF t.level = "release" THEN "model" ELSE "variant" IN
    IF next = "variant" /\ Facts[t.repo].kind = "none"
    THEN [t EXCEPT !.at = "finish", !.reason = "first_party_variant_kind"]
    ELSE [t EXCEPT !.at = IF next = "variant" THEN "slug" ELSE "find", !.level = next, !.parent = slug]

\* promoteFirstPartyRoot: the release, then the model, is found or created.
Find(s) ==
    /\ tx[s].at = "find"
    /\ BestFamilies(Repo(s)) # {}
    /\ LET found == FindNamed(s) IN
          \/ /\ Cardinality(found) > 1
             /\ Set(s, [tx[s] EXCEPT !.at = "finish", !.reason = "new_first_party_model"])
          \/ \E e \in found : found = {e} /\ Set(s, Below(tx[s], e.slug))
          \/ /\ found = {}
             /\ Set(s, [tx[s] EXCEPT !.at = "slug", !.parent = Parent(s)])
    /\ CatalogUnchanged

\* resolveOrCreateOrganization, for the publisher of a derived variant: whoever
\* is creating the same account is waited for.
Derive(s) ==
    /\ tx[s].at = "derive"
    /\ LET owner == Facts[Repo(s)].owner
           base == CHOOSE v \in UNION {Resolved(b) : b \in Facts[Repo(s)].bases} : TRUE
       IN /\ \A q \in Sources \ {s} : Open(q) => tx[q].account # owner
          /\ Set(s, [tx[s] EXCEPT !.at = "slug", !.level = "variant", !.parent = base.parent,
                                  !.account = IF owner \in orgs THEN NoOrg ELSE owner,
                                  !.advice = @ \cup {x \in {"new_organization"} : owner \notin orgs}])
    /\ CatalogUnchanged

\* uniqueSlug: the first number nobody visible has.
FreeSlug(s) ==
    LET name == Name(s, tx[s].level)
        taken == {e.slug[2] : e \in {x \in Seen(s) : x.kind = tx[s].level /\ x.slug[1] = name}}
    IN <<name, CHOOSE n \in 1 .. Cardinality(taken) + 1 :
                  n \notin taken /\ \A k \in 1 .. n - 1 : k \in taken>>

Slug(s) ==
    /\ tx[s].at = "slug"
    /\ Set(s, [tx[s] EXCEPT !.at = "insert", !.slug = FreeSlug(s)])
    /\ CatalogUnchanged

\* entity_kind_slug_key
SlugsOf(set) == {<<e.kind, e.slug>> : e \in set}

NewEntity(s) ==
    LET f == Facts[Repo(s)] IN
    IF tx[s].level = "variant"
    THEN Entity("variant", tx[s].slug[1], tx[s].slug[2], tx[s].parent, f.owner, f.bases, Repo(s))
    ELSE Entity(tx[s].level, tx[s].slug[1], tx[s].slug[2], tx[s].parent, NoOrg, {}, Repo(s))

\* createEntity and linkExternalId: whoever is inserting the same slug or mapping
\* the same repository is waited for, and entity_kind_slug_key must not be violated.
Insert(s) ==
    /\ tx[s].at = "insert"
    /\ \A q \in Sources \ {s} : Open(q) =>
          /\ <<tx[s].level, tx[s].slug>> \notin SlugsOf(tx[q].added)
          /\ tx[s].level = "variant" => \A e \in tx[q].added : e.kind # "variant" \/ e.repo # Repo(s)
    /\ <<tx[s].level, tx[s].slug>> \notin SlugsOf(entities)
    /\ LET e == NewEntity(s)
           t == [tx[s] EXCEPT !.added = @ \cup {e},
                              !.advice = @ \cup (IF e.kind = "model" THEN {} ELSE LicenseAdvice(Repo(s)))]
       IN Set(s, IF tx[s].level = "variant" THEN [t EXCEPT !.at = "finish"] ELSE Below(t, e.slug))
    /\ CatalogUnchanged

\* A bug to rule out: the new variant is not mapped to its repository.
NoLinks(s) == {}

\* linkExternalId does nothing when the repository is mapped already.
NewLinks(s) ==
    {<<Repo(s), e>> : e \in {x \in tx[s].added : x.kind = "variant" /\ Resolved(Repo(s)) = {}}}

\* The end of processItem.
Commit(s) ==
    /\ tx[s].at = "finish"
    /\ entities' = entities \cup tx[s].added
    /\ orgs' = orgs \cup ({tx[s].account} \ {NoOrg})
    /\ links' = links \cup NewLinks(s)
    /\ status' = [status EXCEPT ![s][Repo(s)] = IF tx[s].reason \in Advisory THEN "processed" ELSE "unresolved"]
    /\ raised' = [raised EXCEPT ![s][Repo(s)] = ({tx[s].reason} \cup tx[s].advice) \ {"none"}]
    /\ Set(s, NoTx)
    /\ UNCHANGED families

\* An error, a slug taken in between among them, or the end of the process.
Rollback(s) ==
    /\ Open(s)
    /\ Set(s, NoTx)
    /\ CatalogUnchanged

\* An editor adds a family to the catalog, and its developer with it.
AddFamily ==
    /\ \E f \in Families \ families : families' = families \cup {f} /\ orgs' = orgs \cup {f.developer}
    /\ UNCHANGED <<entities, links, status, raised, tx>>

Step(s) ==
    Classify(s) \/ Find(s) \/ Derive(s) \/ Slug(s) \/ Insert(s) \/ Commit(s) \/ Rollback(s)

Next == AddFamily \/ \E s \in Sources : Step(s)

Spec == Init /\ [][Next]_vars

-----------------------------------------------------------------------------
(* Properties *)

\* promoteFirstPartyRoot: "Re-evaluation is idempotent: existing releases and models
\* are matched by name within their parent": there is one of each name.
OnePerName ==
    \A e, f \in entities :
        (e.kind = f.kind /\ e.kind # "variant" /\ e.slug[1] = f.slug[1] /\ e.parent = f.parent) => e = f

\* What was made of a repository is what the repository resolves to from then on.
VariantsAreLinked ==
    \A e \in entities \ SeedEntities : e.kind = "variant" => <<e.repo, e>> \in links

\* promotion.ts: "Any failure creates nothing": releases and models come only from
\* repositories of their developer that fail no rule; only derivatives are published
\* by others.
PromotedOnEvidence ==
    \A e \in entities \ SeedEntities :
        /\ e.kind = "model" => Facts[e.repo].unmet = {} /\ Developer(e) = Facts[e.repo].owner
        /\ e.kind = "release" => Facts[e.repo].unmet = {} /\ e.parent.developer = Facts[e.repo].owner
        /\ e.kind = "variant" => (e.lineage = {} <=> Developer(ModelOf(e)) = e.publisher)

\* An unresolved repository that is evaluated again, and blocked by the same reason
\* again, has added nothing the second time.
RecheckAddsNothing ==
    \A s \in Sources, r \in Repos :
        (/\ Commit(s) /\ Repo(s) = r
         /\ status[s][r] = "unresolved" /\ status'[s][r] = "unresolved"
         /\ raised'[s][r] \ Advisory = raised[s][r] \ Advisory)
           => entities' = entities
RecheckIsIdempotent == [][RecheckAddsNothing]_vars

\* docs/adr/0008: "A third-party repo with a known variant's name is a likely
\* re-upload, not a new variant."
NoTwinVariants ==
    \A e, f \in entities :
        (e.kind = "variant" /\ f.kind = "variant" /\ e.slug[1] = f.slug[1]) => e.publisher = f.publisher
=============================================================================
