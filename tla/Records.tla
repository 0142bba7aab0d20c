------------------------------- MODULE Records -------------------------------
(***************************************************************************)
(* The records of a source that are not weights of their own: the files of *)
(* a repository of quantized weights (applyArtifactSet), which wait for    *)
(* the variant Promotion makes of their base, and the rows of the sheet of *)
(* device specifications (applyHardwareDevice, adapters/hardware-specs.ts).*)
(*                                                                         *)
(* One evaluation (processItem) is one step, as the sources take turns.    *)
(* An item may be served with any of its payloads at any time; each payload*)
(* is a snapshot that is evaluated until it is processed.                  *)
(*                                                                         *)
(* A constraint of the database that a write violates is an error that is  *)
(* not an OntologyError: it rolls the item back and ends the run, on every *)
(* run again.  Such snapshots are collected in `poisoned`.                 *)
(*                                                                         *)
(* Sizes of files are units of one size of model; of the facts of a device *)
(* only the size of its memory is kept, which its memory kind constrains.  *)
(***************************************************************************)
EXTENDS Promotion

CONSTANTS
    SetRepos,      \* repositories of quantized weights
    SetLists,      \* the repositories of quantized weights each source lists
    SetPayloads,   \* what each may say: [base, owner, files: scheme -> size]
    Schemes, KnownSchemes,
    Plausible,     \* the sizes validateArtifact accepts for each scheme
    Sheet,         \* the source of device specifications
    Rows,          \* its rows: [device, name, vendor, kind, memory]
    SeedDevices,   \* devices of the seeded catalog: [name, kind, memory]
    Priority,      \* of each source
    Unstated       \* a size or kind that is not stated

VARIABLES
    schemes,       \* quantization schemes of the catalog
    artifacts,     \* model_artifact: id -> [repo, size, by], `by` the priority that owns the size
    fileLinks,     \* external_identifier huggingface-artifact: <<repository, scheme, id>>
    devices,       \* hardware_device: id -> [name, kind, memory]
    rowLinks,      \* external_identifier editorial-hardware: <<identifier, id>>
    snapshots,     \* source_record: key -> [status, reviews]
    poisoned       \* snapshots whose evaluation violates a constraint

recordVars == <<schemes, artifacts, fileLinks, devices, rowLinks, snapshots, poisoned>>
allVars == <<vars, recordVars>>

FileKeys ==
    {k \in Sources \X SetRepos \X UNION {SetPayloads[i] : i \in SetRepos} :
        k[2] \in SetLists[k[1]] /\ k[3] \in SetPayloads[k[2]]}
RowKey(row) == <<Sheet, row.name, row>>
Keys == FileKeys \cup {RowKey(row) : row \in Rows}

RecordsTypeOK ==
    /\ schemes \subseteq Schemes
    /\ \A a \in DOMAIN artifacts : a.scheme \in schemes /\ a.variant \in entities /\ a.publisher \in orgs
    /\ \A l \in fileLinks : l[3] \in DOMAIN artifacts
    /\ \A l \in rowLinks : l[2] \in DOMAIN devices
    /\ \A k \in Keys : snapshots[k].status \in {"new", "unresolved", "processed"}

RecordsInit ==
    /\ Init
    /\ schemes = KnownSchemes
    /\ artifacts = <<>> /\ fileLinks = {}
    /\ devices = [id \in {<<d.name, 1>> : d \in SeedDevices} |-> CHOOSE d \in SeedDevices : d.name = id[1]]
    /\ rowLinks = {}
    /\ snapshots = [k \in Keys |-> [status |-> "new", reviews |-> {}]]
    /\ poisoned = {}

\* The sources take turns: no transaction of a repository of weights is open.
Turn == \A s \in Sources : ~Open(s)

\* processItem skips a snapshot that has been processed.
Due(k) == snapshots[k].status # "processed"

\* What an evaluation raised decides the status; new_organization and fact_conflict
\* are advisory.
Conclude(k, reviews) ==
    snapshots' = [snapshots EXCEPT ![k] =
        [status |-> IF \A x \in reviews : x[1] \in Advisory THEN "processed" ELSE "unresolved",
         reviews |-> reviews]]

\* resolveOrCreateOrganization
NewAccount(org) == {<<"new_organization", x>> : x \in {org} \ orgs}

-----------------------------------------------------------------------------
(* applyArtifactSet *)

\* A bug to rule out: only the identifier of the file is looked for.
ByFileOnly(i, v, p, scheme) == {l[3] : l \in {m \in fileLinks : m[1] = i /\ m[2] = scheme}}

\* The artifact a file stands for: by its own identifier, or else the artifact the
\* publisher has of this variant and scheme.
Existing(i, v, p, scheme) ==
    LET own == {l[3] : l \in {m \in fileLinks : m[1] = i /\ m[2] = scheme}}
    IN IF own # {} THEN own
       ELSE {a \in DOMAIN artifacts : a.variant = v /\ a.scheme = scheme /\ a.publisher = p.owner}

\* validateArtifact, asked of artifacts to create only.
Implausible(p, scheme) == p.files[scheme] # Unstated /\ p.files[scheme] \notin Plausible[scheme]

Creates(i, v, p, scheme) == Existing(i, v, p, scheme) = {} /\ ~Implausible(p, scheme)
Rejects(i, v, p, scheme) == Existing(i, v, p, scheme) = {} /\ Implausible(p, scheme)

\* uniqueSlug over the slug of variant, scheme and publisher.
NewArtifact(v, p, scheme) ==
    LET same == {a \in DOMAIN artifacts : a.variant = v /\ a.scheme = scheme /\ a.publisher = p.owner}
    IN [variant |-> v, scheme |-> scheme, publisher |-> p.owner, n |-> Cardinality(same) + 1]

ArtifactOf(i, v, p, scheme) ==
    IF Existing(i, v, p, scheme) = {} THEN NewArtifact(v, p, scheme)
    ELSE CHOOSE a \in Existing(i, v, p, scheme) : TRUE

\* createArtifact with the size of the file, then assertField of that size.
SizedBy(s, i, old, size) ==
    IF size # Unstated /\ old.by <= Priority[s] THEN [old EXCEPT !.size = size, !.by = Priority[s]] ELSE old
Created(i, size) == [repo |-> i, size |-> size, by |-> 0]

\* model_artifact_variant_scheme_publisher_key
OneArtifactEach(ids) ==
    \A a, b \in ids : (a.variant = b.variant /\ a.scheme = b.scheme /\ a.publisher = b.publisher) => a = b

ApplyFiles(s, i, v, p) ==
    LET k == <<s, i, p>>
        known == {c \in DOMAIN p.files \cap schemes : ~Rejects(i, v, p, c)}
        target == [c \in known |-> ArtifactOf(i, v, p, c)]
        before(c) == IF target[c] \in DOMAIN artifacts THEN artifacts[target[c]] ELSE Created(i, p.files[c])
        ids == DOMAIN artifacts \cup {target[c] : c \in known}
    IN IF ~OneArtifactEach(ids)
       THEN poisoned' = poisoned \cup {k} /\ UNCHANGED <<artifacts, fileLinks, orgs, snapshots>>
       ELSE /\ artifacts' = [a \in ids |->
                  IF \E c \in known : target[c] = a
                  THEN LET c == CHOOSE x \in known : target[x] = a IN SizedBy(s, i, before(c), p.files[c])
                  ELSE artifacts[a]]
            /\ fileLinks' = fileLinks \cup {<<i, c, target[c]>> : c \in known}
            /\ orgs' = orgs \cup {p.owner}
            /\ Conclude(k, {<<"unknown_quantization", c>> : c \in DOMAIN p.files \ schemes}
                           \cup {<<"ontology_rejected", c>> : c \in {x \in DOMAIN p.files \cap schemes : Rejects(i, v, p, x)}}
                           \cup NewAccount(p.owner))
            /\ UNCHANGED poisoned

ApplyArtifactSet(s, i, p) ==
    /\ Turn
    /\ Due(<<s, i, p>>)
    /\ \/ /\ Resolved(p.base) = {}
          /\ Conclude(<<s, i, p>>, {<<"unknown_base", p.base>>})
          /\ UNCHANGED <<artifacts, fileLinks, orgs, poisoned>>
       \/ /\ Resolved(p.base) # {} /\ DOMAIN p.files = {}
          /\ Conclude(<<s, i, p>>, {<<"unknown_quantization", i>>})
          /\ UNCHANGED <<artifacts, fileLinks, orgs, poisoned>>
       \/ /\ DOMAIN p.files # {}
          /\ \E v \in Resolved(p.base) : ApplyFiles(s, i, v, p)
    /\ UNCHANGED <<families, entities, links, status, raised, tx, schemes, devices, rowLinks>>

\* An editor adds a quantization scheme.
AddScheme ==
    /\ \E c \in Schemes \ schemes : schemes' = schemes \cup {c}
    /\ UNCHANGED <<vars, artifacts, fileLinks, devices, rowLinks, snapshots, poisoned>>

-----------------------------------------------------------------------------
(* applyHardwareDevice *)

\* A bug to rule out: every row is taken as it is.
Everything(row) == TRUE

\* normalizeHardwareSpecRow: a classified device has memory of its own exactly when
\* the row states how much (the other refusals are of single cells).  fetch skips
\* the rows it refuses.
Normalizes(row) == row.kind # Unstated => (row.kind = "dedicated" <=> row.memory # Unstated)

\* resolveIdentifier, or else the one device of that name (resolveAlias).
KnownDevices(row) ==
    LET linked == {l[2] : l \in {m \in rowLinks : m[1] = row.device}}
        named == {id \in DOMAIN devices : devices[id].name = row.name}
    IN IF linked # {} THEN linked ELSE IF Cardinality(named) = 1 THEN named ELSE {}

\* uniqueSlug
NewDevice(row) ==
    LET taken == {id[2] : id \in {d \in DOMAIN devices : d[1] = row.device}}
    IN <<row.device, Cardinality(taken) + 1>>

\* A bug to rule out: the size is asserted of every device.
AssertedOfAll(device, row) == IF row.memory # Unstated THEN [device EXCEPT !.memory = row.memory] ELSE device

\* A size is not asserted of a device whose memory the system sizes.
Asserted(device, row) ==
    IF row.memory # Unstated /\ device.kind = "dedicated" THEN [device EXCEPT !.memory = row.memory] ELSE device

\* hardware_device_dedicated_memory
MemoryIsOfItsKind(device) == device.kind = "dedicated" <=> device.memory # Unstated

ApplyDevice(row, id, device, account) ==
    LET updated == Asserted(device, row) IN
    IF ~MemoryIsOfItsKind(device) \/ ~MemoryIsOfItsKind(updated)
    THEN poisoned' = poisoned \cup {RowKey(row)} /\ UNCHANGED <<devices, rowLinks, orgs, snapshots>>
    ELSE /\ devices' = [d \in DOMAIN devices \cup {id} |-> IF d = id THEN updated ELSE devices[d]]
         /\ rowLinks' = IF \E l \in rowLinks : l[1] = row.device THEN rowLinks ELSE rowLinks \cup {<<row.device, id>>}
         /\ orgs' = orgs \cup account
         /\ Conclude(RowKey(row), {<<"fact_conflict", row.name>> : x \in {y \in {row} : y.memory # Unstated /\ device.kind # "dedicated"}}
                          \cup UNION {NewAccount(o) : o \in account})
         /\ UNCHANGED poisoned

ApplyHardwareDevice(row) ==
    /\ Turn
    /\ Due(RowKey(row)) /\ Normalizes(row)
    /\ \/ /\ KnownDevices(row) = {} /\ row.kind = Unstated
          /\ Conclude(RowKey(row), {<<"unclassified_device", row.name>>})
          /\ UNCHANGED <<devices, rowLinks, orgs, poisoned>>
       \/ /\ KnownDevices(row) = {} /\ row.kind # Unstated
          /\ ApplyDevice(row, NewDevice(row),
                         [name |-> row.name, kind |-> row.kind, memory |-> row.memory], {row.vendor})
       \/ \E id \in KnownDevices(row) : ApplyDevice(row, id, devices[id], {})
    /\ UNCHANGED <<families, entities, links, status, raised, tx, schemes, artifacts, fileLinks>>

-----------------------------------------------------------------------------
RecordsNext ==
    \/ Next /\ UNCHANGED recordVars
    \/ \E k \in FileKeys : ApplyArtifactSet(k[1], k[2], k[3])
    \/ AddScheme
    \/ \E row \in Rows : ApplyHardwareDevice(row)

RecordsSpec == RecordsInit /\ [][RecordsNext]_allVars

-----------------------------------------------------------------------------
(* Properties *)

\* No item of a source, in no order of evaluations, violates a constraint of the
\* database: processItem would roll it back and end its run (pipeline.ts:278), and
\* every later run would fail at the same item.
NothingIsPoisoned == poisoned = {}

\* pipeline.ts: "re-evaluation is idempotent": a snapshot that is evaluated again and
\* blocked as before adds no release, model, variant, artifact, device, account or
\* identifier.
Blocking(reviews) == {x \in reviews : x[1] \notin Advisory}
BlockedAgain(k) ==
    /\ snapshots[k].status = "unresolved" /\ snapshots'[k].status = "unresolved"
    /\ Blocking(snapshots'[k].reviews) = Blocking(snapshots[k].reviews)
RechecksAddNothing ==
    [][/\ RecheckAddsNothing
       /\ \A k \in FileKeys :
             ApplyArtifactSet(k[1], k[2], k[3]) /\ BlockedAgain(k)
                => UNCHANGED <<DOMAIN artifacts, fileLinks, orgs>>
       /\ \A row \in Rows :
             ApplyHardwareDevice(row) /\ BlockedAgain(RowKey(row))
                => UNCHANGED <<devices, rowLinks, orgs>>]_allVars

\* ontology.ts: an artifact's "size must be plausible for params x bpw".
SizesArePlausible ==
    \A a \in DOMAIN artifacts : artifacts[a].size \in Plausible[a.scheme] \cup {Unstated}

\* The advisory item that tells of a new publisher account stays until what it
\* was raised for is processed.
AccountsAreReported ==
    \A org \in orgs \ KnownOrgs :
        \/ \E f \in families : f.developer = org
        \/ \E k \in Keys : <<"new_organization", org>> \in snapshots[k].reviews
        \/ \E s \in Sources, r \in Repos : "new_organization" \in raised[s][r]
=============================================================================
