------------------------------ MODULE Provenance ------------------------------
(***************************************************************************)
(* Field-level provenance (assertField in                                  *)
(* packages/ingestion/src/pipeline.ts): every source that states a value   *)
(* for a field of an entity adds an assertion; the statement of the        *)
(* highest priority is the applied one and its value is in the canonical   *)
(* row.                                                                    *)
(*                                                                         *)
(* One field of one entity, and the transactions of the processes that     *)
(* ingest different sources.  A transaction runs its statements one by one *)
(* under READ COMMITTED: each sees what is committed when it starts and    *)
(* what its own transaction wrote, and an update waits for the row locks   *)
(* of the others, then looks at the row again.  A snapshot is a payload of *)
(* a source; a payload is the sequence of values it states for the field,  *)
(* of which there are two when two file names of an artifact set resolve   *)
(* to one quantization scheme.                                             *)
(***************************************************************************)
EXTENDS Integers, Sequences

CONSTANTS
    Procs,       \* processes that ingest
    Sources,
    Priority,    \* source.priority
    Values,
    SeedValue,   \* what the row holds before any source states a value
    MaxFiles     \* bound: values one payload states for the field

ASSUME ProvenanceAssumption ==
    /\ Priority \in [Sources -> Nat]
    /\ MaxFiles \in Nat \ {0}
    /\ SeedValue \notin Values

Payloads == UNION {[1 .. n -> Values] : n \in 1 .. MaxFiles}

\* A source_record: the content hash stands for the payload.
Snapshots == [source : Sources, payload : Payloads]

\* What an assertion holds: the second insert of a snapshot does nothing.
Stated(a) == a.payload[1]

VARIABLES
    asserted,    \* the snapshots that have an assertion row
    applied,     \* the rows with applied = 1
    rowValue,   \* the value in the entity's own table
    unresolved,  \* snapshots left unresolved: seen again, they are evaluated again
    tx           \* the open transaction of each process

fieldVars == <<asserted, applied, rowValue, unresolved, tx>>

NoTx == [at |-> "none"]

Open(p) == tx[p].at # "none"

Transaction ==
    [at : {"next", "insert", "unset", "wait", "set", "apply"}, snapshot : Snapshots,
     file : 1 .. MaxFiles + 1, wins : BOOLEAN, candidates : SUBSET Snapshots,
     cleared : SUBSET Snapshots, marked : BOOLEAN, wrote : Values \cup {SeedValue}]

FieldTypeOK ==
    /\ asserted \subseteq Snapshots
    /\ applied \subseteq asserted
    /\ rowValue \in Values \cup {SeedValue}
    /\ unresolved \subseteq asserted
    /\ tx \in [Procs -> Transaction \cup {NoTx}]
    /\ \A p \in Procs : Open(p) /\ tx[p].wrote # SeedValue => tx[p].marked

FieldInit ==
    /\ asserted = {} /\ applied = {} /\ unresolved = {}
    /\ rowValue = SeedValue
    /\ tx = [p \in Procs |-> NoTx]

-----------------------------------------------------------------------------
(* What the statements of transaction p see and lock. *)

Mine(p) == tx[p].snapshot

\* Rows with applied = 1: the committed ones as p left them, and its own.
SeenApplied(p) ==
    (applied \ tx[p].cleared) \cup (IF tx[p].marked THEN {Mine(p)} ELSE {})

SeenCanonical(p) == IF tx[p].wrote # SeedValue THEN tx[p].wrote ELSE rowValue

LockedBy(q) ==
    IF ~Open(q) THEN {}
    ELSE tx[q].cleared \cup (IF tx[q].marked THEN {Mine(q)} ELSE {})

LockedByOthers(p, a) == \E q \in Procs \ {p} : a \in LockedBy(q)

RowLockedByOthers(p) == \E q \in Procs \ {p} : Open(q) /\ tx[q].wrote # SeedValue

Set(p, r) == tx' = [tx EXCEPT ![p] = r]

-----------------------------------------------------------------------------
\* processItem: a new snapshot, or an unresolved one seen again.  No two
\* processes ingest one source.
Begin(p) ==
    /\ ~Open(p)
    /\ \E a \in Snapshots :
          /\ a \notin asserted \/ a \in unresolved
          /\ \A q \in Procs : Open(q) => Mine(q).source # a.source
          /\ Set(p, [at |-> "next", snapshot |-> a, file |-> 1, wins |-> FALSE,
                     candidates |-> {}, cleared |-> {}, marked |-> FALSE, wrote |-> SeedValue])
    /\ UNCHANGED <<asserted, applied, rowValue, unresolved>>

\* Bugs to rule out: every source wins; the first to state a value keeps it.
WinsAlways(p) == TRUE
WinsFirst(p) == SeenApplied(p) = {}

\* The applied assertion of the highest priority does not outrank this source.
Wins(p) == \A a \in SeenApplied(p) : Priority[a.source] <= Priority[Mine(p).source]

\* assertField begins: it selects the current owner.
SelectOwner(p) ==
    /\ tx[p].at = "next" /\ tx[p].file <= Len(Mine(p).payload)
    /\ Set(p, [tx[p] EXCEPT !.at = "insert", !.wins = Wins(p)])
    /\ UNCHANGED <<asserted, applied, rowValue, unresolved>>

\* A bug to rule out: the value is applied although the source does not win.
InsertAndApply(p) ==
    /\ tx[p].at = "insert"
    /\ Set(p, [tx[p] EXCEPT !.at = IF tx[p].wins THEN "unset" ELSE "apply"])
    /\ UNCHANGED <<asserted, applied, rowValue, unresolved>>

\* The insert locks nothing another transaction reaches; it shows at the commit.
InsertAssertion(p) ==
    /\ tx[p].at = "insert"
    /\ Set(p, IF tx[p].wins THEN [tx[p] EXCEPT !.at = "unset"]
              ELSE [tx[p] EXCEPT !.at = "next", !.file = @ + 1])
    /\ UNCHANGED <<asserted, applied, rowValue, unresolved>>

\* update ... set applied = 0 where ... applied = 1: the rows it finds ...
Unset(p) ==
    /\ tx[p].at = "unset"
    /\ Set(p, [tx[p] EXCEPT !.at = "wait", !.candidates = SeenApplied(p)])
    /\ UNCHANGED <<asserted, applied, rowValue, unresolved>>

\* A bug to rule out: the earlier owner stays marked.
NoneStillApplied(p) == {}

\* ... of which those still applied once their locks are free are changed.
StillApplied(p) == tx[p].candidates \cap applied

UnsetRows(p) ==
    /\ tx[p].at = "wait"
    /\ \A a \in tx[p].candidates : ~LockedByOthers(p, a)
    /\ Set(p, [tx[p] EXCEPT !.at = "set", !.cleared = @ \cup StillApplied(p), !.marked = FALSE])
    /\ UNCHANGED <<asserted, applied, rowValue, unresolved>>

\* update ... set applied = 1 where ... source_record_id = this one.
MarkOwn(p) ==
    /\ tx[p].at = "set"
    /\ ~LockedByOthers(p, Mine(p))
    /\ Set(p, [tx[p] EXCEPT !.at = "apply", !.marked = TRUE])
    /\ UNCHANGED <<asserted, applied, rowValue, unresolved>>

\* apply(): the canonical row is written unless it holds the value already.
Apply(p) ==
    /\ tx[p].at = "apply"
    /\ LET value == Mine(p).payload[tx[p].file] IN
          /\ SeenCanonical(p) = value \/ ~RowLockedByOthers(p)
          /\ Set(p, [tx[p] EXCEPT !.at = "next", !.file = @ + 1,
                                  !.wrote = IF SeenCanonical(p) = value THEN @ ELSE value])
    /\ UNCHANGED <<asserted, applied, rowValue, unresolved>>

\* The rest of the item may leave the snapshot unresolved.
Commit(p) ==
    /\ tx[p].at = "next" /\ tx[p].file > Len(Mine(p).payload)
    /\ asserted' = asserted \cup {Mine(p)}
    /\ applied' = SeenApplied(p)
    /\ rowValue' = SeenCanonical(p)
    /\ \E left \in BOOLEAN :
          unresolved' = IF left THEN unresolved \cup {Mine(p)} ELSE unresolved \ {Mine(p)}
    /\ Set(p, NoTx)

\* An error, a deadlock victim or the end of the process: all of it is undone.
Rollback(p) ==
    /\ Open(p)
    /\ Set(p, NoTx)
    /\ UNCHANGED <<asserted, applied, rowValue, unresolved>>

Step(p) ==
    \/ Begin(p) \/ SelectOwner(p) \/ InsertAssertion(p) \/ Unset(p) \/ UnsetRows(p)
    \/ MarkOwn(p) \/ Apply(p) \/ Commit(p) \/ Rollback(p)

FieldNext == \E p \in Procs : Step(p)

FieldSpec == FieldInit /\ [][FieldNext]_fieldVars

-----------------------------------------------------------------------------
(* Properties *)

\* schema/ingest.ts: "Whether this assertion's value is what the canonical row
\* currently holds": one assertion is applied at most, and its value is the row's.
AppliedIsCanonical ==
    /\ \A a, b \in applied : a = b
    /\ \A a \in applied : rowValue = Stated(a)

\* schema/ingest.ts: "Higher-priority sources overwrite canonical fields; lower ones
\* only add assertions": the owner of the field outranks all who state a value.
HighestPriorityOwns ==
    \A a \in asserted : \E b \in applied : Priority[a.source] <= Priority[b.source]

\* The canonical value changes only with its owner's assertion: what the row holds
\* is never changed by a source below the one that owned it.
NoDowngrade ==
    [][rowValue' # rowValue =>
          \E b \in applied' : \A a \in applied : Priority[a.source] <= Priority[b.source]]_fieldVars
=============================================================================
