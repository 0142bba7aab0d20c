----------------------------- MODULE RecordsProofs -----------------------------
(***************************************************************************)
(* Theorems about promotions and records, for any sources, repositories,   *)
(* families, quantized files and sheets of devices: with one process at    *)
(* work a release or model is never made twice, and no item violates a     *)
(* constraint of the database.                                             *)
(***************************************************************************)
EXTENDS Records, TLAPS

\* One release or model of each name within its parent.
Named(set) ==
    \A e, f \in set :
        (e.kind = f.kind /\ e.kind # "variant" /\ e.slug[1] = f.slug[1] /\ e.parent = f.parent) => e = f

\* What the migrations and the seed see to.
SeedIsNamed == Named(SeedEntities)
DeviceFields == {"name", "kind", "memory"}
SeedIsConstrained == \A d \in SeedDevices : DOMAIN d = DeviceFields /\ MemoryIsOfItsKind(d)

-----------------------------------------------------------------------------
(* The inductive invariant of promotions.                                  *)

TxFields == {"at", "repo", "reason", "level", "parent", "slug", "added", "account", "advice"}

TxTypes ==
    /\ DOMAIN tx = Sources
    /\ \A s \in Sources :
          /\ tx[s].at \in {"none", "find", "derive", "slug", "insert", "finish"}
          /\ Open(s) => DOMAIN tx[s] = TxFields /\ tx[s].level \in Levels
          /\ tx[s].at = "find" => tx[s].level # "variant"

\* Sources take turns.
OneTx == \A s, q \in Sources : Open(s) /\ Open(q) => s = q

\* A transaction adds no second release or model of a name.
SeenIsNamed == \A s \in Sources : Open(s) => Named(Seen(s))

\* What is about to be added is not there, and still has the name that was looked for.
NewIsNew ==
    \A s \in Sources :
        /\ (tx[s].at \in {"slug", "insert"} /\ tx[s].level # "variant") =>
              \A e \in Seen(s) : ~(/\ e.kind = tx[s].level /\ e.slug[1] = Name(s, tx[s].level)
                                   /\ e.parent = tx[s].parent)
        /\ tx[s].at = "insert" => tx[s].slug[1] = Name(s, tx[s].level)

PInv == TxTypes /\ OneTx /\ SeenIsNamed /\ NewIsNew /\ OnePerName

\* The catalog has a seed of one release and model per name, and no transaction is open.
LEMMA PInitially == ASSUME SeedIsNamed PROVE Init => PInv
<1> SUFFICES ASSUME Init PROVE PInv
  OBVIOUS
<1>1. \A s \in Sources : tx[s].at = "none"
  BY DEF Init, NoTx
<1>2. OnePerName
  BY DEF Init, OnePerName, SeedIsNamed, Named
<1> QED
  BY <1>1, <1>2 DEF PInv, TxTypes, OneTx, SeenIsNamed, NewIsNew, Open, Init

\* A step of a transaction replaces its own state; what others see is what it was.
LEMMA OwnStep ==
    ASSUME PInv, NEW s \in Sources, NEW t, Set(s, t), UNCHANGED entities,
           \A q \in Sources \ {s} : ~Open(q),
           t.at \in {"none", "find", "derive", "slug", "insert", "finish"},
           t.at # "none" => DOMAIN t = TxFields /\ t.level \in Levels /\ Named(entities \cup t.added),
           t.at = "find" => t.level # "variant",
           (t.at \in {"slug", "insert"} /\ t.level # "variant") =>
              \A e \in entities \cup t.added :
                 ~(e.kind = t.level /\ e.slug[1] = Name(s, t.level)' /\ e.parent = t.parent),
           t.at = "insert" => t.slug[1] = Name(s, t.level)'
    PROVE  PInv'
<1>1. tx' = [tx EXCEPT ![s] = t] /\ DOMAIN tx = Sources
  BY DEF Set, PInv, TxTypes
<1>2. tx'[s] = t /\ DOMAIN tx' = Sources /\ \A q \in Sources \ {s} : tx'[q] = tx[q] /\ tx[q].at = "none"
  BY <1>1 DEF Open
<1>3. TxTypes'
  BY <1>2 DEF TxTypes, Open
<1>4. OneTx'
  BY <1>2 DEF OneTx, Open
<1>5. SeenIsNamed'
  BY <1>2 DEF SeenIsNamed, Open, Seen
<1>6. NewIsNew'
  BY <1>2 DEF NewIsNew, Seen
<1>7. OnePerName'
  BY DEF PInv, OnePerName
<1> QED
  BY <1>3, <1>4, <1>5, <1>6, <1>7 DEF PInv

LEMMA ClassesAt == ASSUME NEW r PROVE \A c \in Classes(r) : c.at \in {"finish", "find", "derive"}
<1>1. \A reason : Review(reason).at = "finish"
  BY DEF Review
<1>2. \A c \in Root(r) : c.at \in {"finish", "find", "derive"}
  BY <1>1 DEF Root
<1>3. \A c \in Derived(r) : c.at \in {"finish", "find", "derive"}
  <2> DEFINE parents == UNION {Resolved(b) : b \in Facts[r].bases}
  <2> HIDE DEF parents
  <2> QED
    BY <1>1 DEF Derived
<1> QED
  BY <1>1, <1>2, <1>3 DEF Classes

\* One level down there is nothing to look for by name, or it is to be looked for yet.
LEMMA BelowIs ==
    ASSUME NEW t, DOMAIN t = TxFields, t.level \in {"release", "model"}, NEW slug
    PROVE  LET b == Below(t, slug) IN
           /\ DOMAIN b = TxFields /\ b.at \in {"finish", "slug", "find"} /\ b.level \in Levels
           /\ b.at = "find" => b.level # "variant"
           /\ b.at = "slug" => b.level = "variant"
           /\ b.added = t.added /\ b.repo = t.repo
BY DEF Below, TxFields, Levels


LEMMA ClassifyStep == ASSUME PInv, Serial, NEW s \in Sources, Classify(s) PROVE PInv'
<1>0. PICK r \in Lists[s] : \E c \in Classes(r) :
        Set(s, [at |-> c.at, repo |-> r, reason |-> c.reason, level |-> "release",
                parent |-> NoFamily, slug |-> <<r, 0>>, added |-> {}, account |-> NoOrg,
                advice |-> IF Resolved(r) = {} THEN {} ELSE LicenseAdvice(r) \cup FactAdvice(r)])
  BY DEF Classify
<1>1. PICK c \in Classes(r) :
        Set(s, [at |-> c.at, repo |-> r, reason |-> c.reason, level |-> "release",
                parent |-> NoFamily, slug |-> <<r, 0>>, added |-> {}, account |-> NoOrg,
                advice |-> IF Resolved(r) = {} THEN {} ELSE LicenseAdvice(r) \cup FactAdvice(r)])
  BY <1>0
<1> DEFINE t == [at |-> c.at, repo |-> r, reason |-> c.reason, level |-> "release",
                 parent |-> NoFamily, slug |-> <<r, 0>>, added |-> {}, account |-> NoOrg,
                 advice |-> IF Resolved(r) = {} THEN {} ELSE LicenseAdvice(r) \cup FactAdvice(r)]
<1>2. /\ t.at \in {"finish", "find", "derive"} /\ DOMAIN t = TxFields /\ t.level = "release" /\ t.added = {}
  BY ClassesAt DEF TxFields
<1>3. Set(s, t) /\ UNCHANGED entities /\ \A q \in Sources \ {s} : ~Open(q)
  BY <1>1 DEF Classify, CatalogUnchanged
<1>4. Named(entities)
  BY DEF PInv, OnePerName, Named
<1> HIDE DEF t
<1>5. Named(entities \cup t.added) /\ t.level \in Levels
  BY <1>2, <1>4 DEF Levels
<1> QED
  BY <1>2, <1>3, <1>5, OwnStep

\* What a source knows of its own transaction while it is open.
LEMMA OpenTx ==
    ASSUME PInv, NEW s \in Sources, Open(s)
    PROVE  /\ DOMAIN tx[s] = TxFields /\ tx[s].level \in Levels /\ Named(entities \cup tx[s].added)
           /\ \A q \in Sources \ {s} : ~Open(q)
BY DEF PInv, TxTypes, OneTx, SeenIsNamed, Seen

LEMMA FindStep == ASSUME PInv, NEW s \in Sources, Find(s) PROVE PInv'
<1>1. /\ tx[s].at = "find" /\ tx[s].level \in {"release", "model"} /\ DOMAIN tx[s] = TxFields
      /\ Named(entities \cup tx[s].added) /\ \A q \in Sources \ {s} : ~Open(q)
  BY OpenTx DEF Find, Open, PInv, TxTypes, Levels
<1>2. UNCHANGED entities /\ DOMAIN tx = Sources
  BY DEF Find, CatalogUnchanged, PInv, TxTypes
<1>3. CASE Set(s, [tx[s] EXCEPT !.at = "finish", !.reason = "new_first_party_model"])
  <2> DEFINE t == [tx[s] EXCEPT !.at = "finish", !.reason = "new_first_party_model"]
  <2>1. t.at = "finish" /\ DOMAIN t = TxFields /\ t.level = tx[s].level /\ t.added = tx[s].added
    BY <1>1 DEF TxFields
  <2>2. t.level \in Levels /\ Set(s, t)
    BY <1>1, <1>3, <2>1 DEF Levels
  <2> HIDE DEF t
  <2> QED
    BY <1>1, <1>2, <2>1, <2>2, OwnStep
<1>4. ASSUME NEW e, Set(s, Below(tx[s], e.slug)) PROVE PInv'
  <2> DEFINE t == Below(tx[s], e.slug)
  <2>1. /\ DOMAIN t = TxFields /\ t.at \in {"finish", "slug", "find"} /\ t.level \in Levels
        /\ (t.at = "find" => t.level # "variant") /\ (t.at = "slug" => t.level = "variant") /\ t.added = tx[s].added
    BY <1>1, BelowIs
  <2> HIDE DEF t
  <2> QED
    BY <1>1, <1>2, <1>4, <2>1, OwnStep DEF t
<1>5. CASE FindNamed(s) = {} /\ Set(s, [tx[s] EXCEPT !.at = "slug", !.parent = Parent(s)])
  <2>0. PICK t : t = [tx[s] EXCEPT !.at = "slug", !.parent = Parent(s)]
    OBVIOUS
  <2>1. /\ t.at = "slug" /\ DOMAIN t = TxFields /\ t.level = tx[s].level /\ t.added = tx[s].added
        /\ t.parent = Parent(s) /\ t.repo = tx[s].repo
    BY <1>1, <2>0 DEF TxFields
  <2>2. t.level \in Levels /\ Set(s, t)
    BY <1>1, <1>5, <2>0, <2>1 DEF Levels
  <2>3. tx'[s] = t
    BY <1>2, <2>2 DEF Set
  <2>4. \A e \in entities \cup t.added : ~(e.kind = t.level /\ e.slug[1] = Name(s, t.level)' /\ e.parent = t.parent)
    BY <1>5, <2>1, <2>3 DEF FindNamed, Seen, Name, Repo
  <2> QED
    BY <1>1, <1>2, <2>1, <2>2, <2>4, OwnStep
<1> QED
  BY <1>3, <1>4, <1>5 DEF Find

LEMMA DeriveStep == ASSUME PInv, NEW s \in Sources, Derive(s) PROVE PInv'
<1>1. /\ tx[s].at = "derive" /\ DOMAIN tx[s] = TxFields /\ Named(entities \cup tx[s].added)
      /\ \A q \in Sources \ {s} : ~Open(q)
  BY OpenTx DEF Derive, Open
<1>2. PICK parent, account, advice :
        Set(s, [tx[s] EXCEPT !.at = "slug", !.level = "variant", !.parent = parent, !.account = account,
                             !.advice = @ \cup advice])
  BY DEF Derive
<1> DEFINE t == [tx[s] EXCEPT !.at = "slug", !.level = "variant", !.parent = parent, !.account = account,
                              !.advice = @ \cup advice]
<1>3. t.at = "slug" /\ DOMAIN t = TxFields /\ t.level = "variant" /\ t.added = tx[s].added
  BY <1>1 DEF TxFields
<1> HIDE DEF t
<1>4. Set(s, t) /\ UNCHANGED entities /\ t.level \in Levels
  BY <1>2, <1>3 DEF Derive, CatalogUnchanged, Levels, t
<1> QED
  BY <1>1, <1>3, <1>4, OwnStep

LEMMA SlugStep == ASSUME PInv, NEW s \in Sources, Slug(s) PROVE PInv'
<1>1. /\ tx[s].at = "slug" /\ DOMAIN tx[s] = TxFields /\ Named(entities \cup tx[s].added)
      /\ tx[s].level \in Levels /\ \A q \in Sources \ {s} : ~Open(q)
  BY OpenTx DEF Slug, Open
<1>0. PICK t : t = [tx[s] EXCEPT !.at = "insert", !.slug = FreeSlug(s)]
  OBVIOUS
<1>2. /\ t.at = "insert" /\ DOMAIN t = TxFields /\ t.level = tx[s].level /\ t.added = tx[s].added
      /\ t.parent = tx[s].parent /\ t.repo = tx[s].repo /\ t.slug = FreeSlug(s)
  BY <1>0, <1>1 DEF TxFields
<1>3. Set(s, t) /\ UNCHANGED entities /\ tx'[s] = t
  BY <1>0 DEF Slug, CatalogUnchanged, Set, PInv, TxTypes
<1>4. Name(s, t.level)' = Name(s, tx[s].level)
  BY <1>2, <1>3 DEF Name, Repo
<1>5. t.slug[1] = Name(s, tx[s].level)
  BY <1>2 DEF FreeSlug
<1>6. t.level # "variant" =>
        \A e \in entities \cup t.added : ~(e.kind = t.level /\ e.slug[1] = Name(s, tx[s].level) /\ e.parent = t.parent)
  BY <1>1, <1>2 DEF PInv, NewIsNew, Seen
<1> QED
  BY <1>1, <1>2, <1>3, <1>4, <1>5, <1>6, OwnStep

\* The new entity has the name that was looked for in vain.
LEMMA InsertStep == ASSUME PInv, NEW s \in Sources, Insert(s) PROVE PInv'
<1>1. /\ tx[s].at = "insert" /\ DOMAIN tx[s] = TxFields /\ Named(entities \cup tx[s].added)
      /\ tx[s].level \in Levels /\ \A q \in Sources \ {s} : ~Open(q)
  BY OpenTx DEF Insert, Open
<1> DEFINE e == NewEntity(s)
<1>2. PICK advice :
        Set(s, LET t == [tx[s] EXCEPT !.added = @ \cup {e}, !.advice = @ \cup advice]
               IN IF tx[s].level = "variant" THEN [t EXCEPT !.at = "finish"] ELSE Below(t, e.slug))
  BY DEF Insert
<1>3. /\ e.kind = tx[s].level
      /\ tx[s].level # "variant" => e.slug[1] = Name(s, tx[s].level) /\ e.parent = tx[s].parent
  BY <1>1 DEF NewEntity, Entity, PInv, NewIsNew
<1>4. Named(entities \cup (tx[s].added \cup {e}))
  <2>1. e.kind # "variant" =>
          \A f \in entities \cup tx[s].added : ~(f.kind = e.kind /\ f.slug[1] = e.slug[1] /\ f.parent = e.parent)
    BY <1>1, <1>3 DEF PInv, NewIsNew, Seen
  <2> HIDE DEF e
  <2> QED
    BY <1>1, <2>1 DEF Named
<1> DEFINE t == [tx[s] EXCEPT !.added = @ \cup {e}, !.advice = @ \cup advice]
<1>5. DOMAIN t = TxFields /\ t.added = tx[s].added \cup {e} /\ t.level = tx[s].level
  BY <1>1 DEF TxFields
<1>6. UNCHANGED entities
  BY DEF Insert, CatalogUnchanged
<1> HIDE DEF e, t
<1>7. CASE tx[s].level = "variant"
  <2> DEFINE u == [t EXCEPT !.at = "finish"]
  <2>1. Set(s, u)
    BY <1>2, <1>7 DEF t
  <2>2. DOMAIN u = TxFields /\ u.at = "finish" /\ u.level = tx[s].level /\ u.added = tx[s].added \cup {e}
    BY <1>5 DEF TxFields
  <2> HIDE DEF u
  <2> QED
    BY <1>1, <1>4, <1>6, <2>1, <2>2, OwnStep
<1>8. CASE tx[s].level # "variant"
  <2> DEFINE u == Below(t, e.slug)
  <2>1. Set(s, u)
    BY <1>2, <1>8 DEF t
  <2>2. /\ DOMAIN u = TxFields /\ u.at \in {"finish", "slug", "find"} /\ u.level \in Levels
        /\ (u.at = "find" => u.level # "variant") /\ (u.at = "slug" => u.level = "variant") /\ u.added = t.added
    BY <1>1, <1>5, <1>8, BelowIs DEF Levels
  <2> HIDE DEF u
  <2> QED
    BY <1>1, <1>4, <1>5, <1>6, <2>1, <2>2, OwnStep
<1> QED
  BY <1>7, <1>8

\* What a transaction has added becomes the catalog's, when no other is open.
LEMMA CommitStep == ASSUME PInv, NEW s \in Sources, Commit(s) PROVE PInv'
<1>1. Open(s) /\ Named(entities \cup tx[s].added) /\ \A q \in Sources \ {s} : ~Open(q)
  BY OpenTx DEF Commit, Open
<1>2. entities' = entities \cup tx[s].added /\ tx' = [tx EXCEPT ![s] = NoTx] /\ DOMAIN tx = Sources
  BY DEF Commit, Set, PInv, TxTypes
<1>3. \A q \in Sources : tx'[q].at = "none"
  BY <1>1, <1>2 DEF NoTx, Open
<1>4. OnePerName'
  BY <1>1, <1>2 DEF OnePerName, Named
<1> QED
  BY <1>2, <1>3, <1>4 DEF PInv, TxTypes, OneTx, SeenIsNamed, NewIsNew, Open

LEMMA RollbackStep == ASSUME PInv, NEW s \in Sources, Rollback(s) PROVE PInv'
<1>1. Set(s, NoTx) /\ UNCHANGED entities /\ \A q \in Sources \ {s} : ~Open(q)
  BY OpenTx DEF Rollback, CatalogUnchanged
<1>2. NoTx.at = "none"
  BY DEF NoTx
<1> QED
  BY <1>1, <1>2, OwnStep

LEMMA CatalogStep == ASSUME PInv, UNCHANGED <<entities, tx>> PROVE PInv'
BY DEF PInv, TxTypes, OneTx, SeenIsNamed, NewIsNew, OnePerName, Open, Seen, Name, Repo

LEMMA PStep == ASSUME Serial PROVE PInv /\ [Next]_vars => PInv'
<1> SUFFICES ASSUME PInv, [Next]_vars PROVE PInv'
  OBVIOUS
<1>1. CASE AddFamily
  BY <1>1, CatalogStep DEF AddFamily
<1>2. CASE UNCHANGED vars
  BY <1>2, CatalogStep DEF vars
<1> QED
  BY <1>1, <1>2, ClassifyStep, FindStep, DeriveStep, SlugStep, InsertStep, CommitStep, RollbackStep DEF Next, Step

\* A release or model is made once, however often a repository is evaluated (promoteFirstPartyRoot:
\* "existing releases and models are matched by name within their parent"), by one process at a time.
THEOREM OnePerNameHolds == ASSUME Serial, SeedIsNamed PROVE Spec => []OnePerName
<1>1. PInv => OnePerName
  BY DEF PInv
<1> QED
  BY <1>1, PInitially, PStep, PTL DEF Spec

-----------------------------------------------------------------------------
(* The inductive invariant of the other records.                           *)

\* A publisher has one artifact of a variant and scheme, and what a file is mapped to exists.
ArtifactsAreKeyed ==
    /\ OneArtifactEach(DOMAIN artifacts)
    /\ \A l \in fileLinks : l[3] \in DOMAIN artifacts

\* A device has memory of its own exactly when it is dedicated, and what a row is mapped to exists.
DevicesAreSized ==
    /\ \A id \in DOMAIN devices : DOMAIN devices[id] = DeviceFields /\ MemoryIsOfItsKind(devices[id])
    /\ \A l \in rowLinks : l[2] \in DOMAIN devices

RInv == ArtifactsAreKeyed /\ DevicesAreSized /\ NothingIsPoisoned

LEMMA RInitially == ASSUME SeedIsConstrained PROVE RecordsInit => RInv
<1> SUFFICES ASSUME RecordsInit PROVE RInv
  OBVIOUS
<1>1. ArtifactsAreKeyed
  BY DEF RecordsInit, ArtifactsAreKeyed, OneArtifactEach
<1>2. DevicesAreSized
  BY DEF RecordsInit, DevicesAreSized, SeedIsConstrained
<1> QED
  BY <1>1, <1>2 DEF RInv, RecordsInit, NothingIsPoisoned

\* A file stands for an artifact there is, or for the first its publisher gets of the variant and scheme.
LEMMA ArtifactIs ==
    ASSUME ArtifactsAreKeyed, NEW i, NEW v, NEW p, NEW c
    PROVE  \/ ArtifactOf(i, v, p, c) \in DOMAIN artifacts
           \/ /\ ArtifactOf(i, v, p, c) = [variant |-> v, scheme |-> c, publisher |-> p.owner,
                                          n |-> Cardinality({}) + 1]
              /\ \A a \in DOMAIN artifacts : ~(a.variant = v /\ a.scheme = c /\ a.publisher = p.owner)
<1> DEFINE same == {a \in DOMAIN artifacts : a.variant = v /\ a.scheme = c /\ a.publisher = p.owner}
<1>1. CASE Existing(i, v, p, c) # {}
  <2>1. Existing(i, v, p, c) \subseteq DOMAIN artifacts
    BY DEF Existing, ArtifactsAreKeyed
  <2> QED
    BY <1>1, <2>1 DEF ArtifactOf
<1>2. CASE Existing(i, v, p, c) = {}
  <2>1. same = {}
    BY <1>2 DEF Existing
  <2> QED
    BY <1>2, <2>1 DEF ArtifactOf, NewArtifact
<1> QED
  BY <1>1, <1>2

LEMMA ApplyFilesStep ==
    ASSUME RInv, NEW s, NEW i, NEW v, NEW p, ApplyFiles(s, i, v, p), UNCHANGED <<devices, rowLinks>>
    PROVE  RInv'
<1> DEFINE known == {c \in DOMAIN p.files \cap schemes : ~Rejects(i, v, p, c)}
           target == [c \in known |-> ArtifactOf(i, v, p, c)]
           ids == DOMAIN artifacts \cup {target[c] : c \in known}
<1> HIDE DEF known
<1>1. OneArtifactEach(ids)
  <2>1. \A c \in known :
          \/ target[c] \in DOMAIN artifacts
          \/ /\ target[c] = [variant |-> v, scheme |-> c, publisher |-> p.owner, n |-> Cardinality({}) + 1]
             /\ \A a \in DOMAIN artifacts :
                   ~(a.variant = target[c].variant /\ a.scheme = target[c].scheme /\ a.publisher = target[c].publisher)
    BY ArtifactIs DEF RInv
  <2>2. OneArtifactEach(DOMAIN artifacts)
    BY DEF RInv, ArtifactsAreKeyed
  <2> HIDE DEF target
  <2>3. \A c \in known, a \in DOMAIN artifacts :
          (target[c].variant = a.variant /\ target[c].scheme = a.scheme /\ target[c].publisher = a.publisher)
            => target[c] = a
    BY <2>1, <2>2 DEF OneArtifactEach
  <2>4. \A c, d \in known :
          (/\ target[c].variant = target[d].variant /\ target[c].scheme = target[d].scheme
           /\ target[c].publisher = target[d].publisher)
            => target[c] = target[d]
    <3> SUFFICES ASSUME NEW c \in known, NEW d \in known,
                        target[c].variant = target[d].variant, target[c].scheme = target[d].scheme,
                        target[c].publisher = target[d].publisher
                 PROVE  target[c] = target[d]
      OBVIOUS
    <3>1. CASE target[c] \in DOMAIN artifacts \/ target[d] \in DOMAIN artifacts
      BY <2>3, <3>1
    <3>2. CASE target[c] \notin DOMAIN artifacts /\ target[d] \notin DOMAIN artifacts
      <4>1. /\ target[c] = [variant |-> v, scheme |-> c, publisher |-> p.owner, n |-> Cardinality({}) + 1]
            /\ target[d] = [variant |-> v, scheme |-> d, publisher |-> p.owner, n |-> Cardinality({}) + 1]
        BY <2>1, <3>2
      <4>2. c = d
        BY <4>1
      <4> QED
        BY <4>2
    <3> QED
      BY <3>1, <3>2
  <2> QED
    BY <2>2, <2>3, <2>4 DEF OneArtifactEach
<1>2. /\ DOMAIN artifacts' = ids
      /\ fileLinks' = fileLinks \cup {<<i, c, target[c]>> : c \in known}
      /\ poisoned' = poisoned
  BY <1>1 DEF ApplyFiles, known
<1> HIDE DEF target
<1>3. ArtifactsAreKeyed'
  BY <1>1, <1>2 DEF RInv, ArtifactsAreKeyed, OneArtifactEach
<1> QED
  BY <1>2, <1>3 DEF RInv, DevicesAreSized, NothingIsPoisoned

\* A size is asserted only of a device that has memory of its own.
LEMMA AssertedIs ==
    ASSUME NEW device, DOMAIN device = DeviceFields, MemoryIsOfItsKind(device), NEW row
    PROVE  DOMAIN Asserted(device, row) = DeviceFields /\ MemoryIsOfItsKind(Asserted(device, row))
BY DEF Asserted, MemoryIsOfItsKind, DeviceFields

LEMMA ApplyDeviceStep ==
    ASSUME RInv, NEW row, NEW id, NEW device, NEW account, ApplyDevice(row, id, device, account),
           DOMAIN device = DeviceFields, MemoryIsOfItsKind(device), UNCHANGED <<artifacts, fileLinks>>
    PROVE  RInv'
<1>1. DOMAIN Asserted(device, row) = DeviceFields /\ MemoryIsOfItsKind(Asserted(device, row))
  BY AssertedIs
<1>2. /\ devices' = [d \in DOMAIN devices \cup {id} |-> IF d = id THEN Asserted(device, row) ELSE devices[d]]
      /\ rowLinks' \subseteq rowLinks \cup {<<row.device, id>>}
      /\ poisoned' = poisoned
  BY <1>1 DEF ApplyDevice
<1>3. DevicesAreSized'
  BY <1>1, <1>2 DEF RInv, DevicesAreSized
<1> QED
  BY <1>2, <1>3 DEF RInv, ArtifactsAreKeyed, NothingIsPoisoned

LEMMA ApplyHardwareDeviceStep ==
    ASSUME RInv, NEW row \in Rows, ApplyHardwareDevice(row) PROVE RInv'
<1>1. UNCHANGED <<artifacts, fileLinks>> /\ Normalizes(row)
  BY DEF ApplyHardwareDevice
<1>2. CASE UNCHANGED <<devices, rowLinks, poisoned>>
  BY <1>1, <1>2 DEF RInv, ArtifactsAreKeyed, DevicesAreSized, NothingIsPoisoned
<1>3. ASSUME row.kind # Unstated,
             ApplyDevice(row, NewDevice(row), [name |-> row.name, kind |-> row.kind, memory |-> row.memory],
                         {row.vendor})
      PROVE  RInv'
  <2> DEFINE device == [name |-> row.name, kind |-> row.kind, memory |-> row.memory]
  <2>1. DOMAIN device = DeviceFields /\ MemoryIsOfItsKind(device)
    BY <1>1, <1>3 DEF Normalizes, MemoryIsOfItsKind, DeviceFields
  <2> HIDE DEF device
  <2> QED
    BY <1>1, <1>3, <2>1, ApplyDeviceStep DEF device
<1>4. ASSUME NEW id \in KnownDevices(row), ApplyDevice(row, id, devices[id], {}) PROVE RInv'
  <2>1. id \in DOMAIN devices
    BY DEF KnownDevices, RInv, DevicesAreSized
  <2> QED
    BY <1>1, <1>4, <2>1, ApplyDeviceStep DEF RInv, DevicesAreSized
<1> QED
  BY <1>2, <1>3, <1>4 DEF ApplyHardwareDevice

LEMMA RStep == RInv /\ [RecordsNext]_allVars => RInv'
<1> SUFFICES ASSUME RInv, [RecordsNext]_allVars PROVE RInv'
  OBVIOUS
<1>1. CASE UNCHANGED <<artifacts, fileLinks, devices, rowLinks, poisoned>>
  BY <1>1 DEF RInv, ArtifactsAreKeyed, DevicesAreSized, NothingIsPoisoned
<1>2. ASSUME NEW k \in FileKeys, ApplyArtifactSet(k[1], k[2], k[3]) PROVE RInv'
  <2>1. UNCHANGED <<devices, rowLinks>>
    BY <1>2 DEF ApplyArtifactSet
  <2>2. CASE UNCHANGED <<artifacts, fileLinks, poisoned>>
    BY <1>1, <2>1, <2>2
  <2> QED
    BY <1>2, <2>1, <2>2, ApplyFilesStep DEF ApplyArtifactSet
<1> QED
  BY <1>1, <1>2, ApplyHardwareDeviceStep DEF RecordsNext, AddScheme, recordVars, allVars

\* No snapshot of quantized files or of the sheet of devices violates
\* model_artifact_variant_scheme_publisher_key or hardware_device_dedicated_memory, whatever was
\* evaluated before it: no item ends its run, and every later one, for that (pipeline.ts:278).
THEOREM NothingIsPoisonedHolds == ASSUME SeedIsConstrained PROVE RecordsSpec => []NothingIsPoisoned
<1>1. RInv => NothingIsPoisoned
  BY DEF RInv
<1> QED
  BY <1>1, RInitially, RStep, PTL DEF RecordsSpec

\* With the other records in the same catalog a release or model is still made once.
THEOREM RecordsOnePerName == ASSUME Serial, SeedIsNamed PROVE RecordsSpec => []OnePerName
<1>1. RecordsInit => PInv
  BY PInitially DEF RecordsInit
<1>2. PInv /\ [RecordsNext]_allVars => PInv'
  <2> SUFFICES ASSUME PInv, [RecordsNext]_allVars PROVE PInv'
    OBVIOUS
  <2>1. CASE Next
    BY <2>1, PStep
  <2>2. CASE UNCHANGED <<entities, tx>>
    BY <2>2, CatalogStep
  <2> QED
    BY <2>1, <2>2 DEF RecordsNext, ApplyArtifactSet, ApplyHardwareDevice, AddScheme, allVars, vars
<1>3. PInv => OnePerName
  BY DEF PInv
<1> QED
  BY <1>1, <1>2, <1>3, PTL DEF RecordsSpec
=============================================================================
