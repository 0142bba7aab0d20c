------------------------------- MODULE Ingestion -------------------------------
(***************************************************************************)
(* Ingestion runs of one source (runAdapter), the snapshots and review     *)
(* items they leave (processItem and syncReviewItems), and the editor who  *)
(* dismisses or links review items (review() in apps/worker/src/main.ts).  *)
(*                                                                         *)
(* processItem is one transaction and one step.  The selection of items,   *)
(* the abandoning of old runs, the insertion of the run, each fetch, each  *)
(* item and the closing of the run are steps of their own: other runs, the *)
(* source and the editor act between them.                                 *)
(*                                                                         *)
(* Abstractions.  A payload is an element of Contents and matters by its   *)
(* Kind: `plain` resolves by itself, `derivative` needs a base that is in  *)
(* the catalog, `reupload` repeats a known name, `gone` is the payload of  *)
(* an item the source no longer serves, `malformed` cannot be normalized.  *)
(***************************************************************************)
EXTENDS Naturals, FiniteSets

CONSTANTS
    Items,        \* external ids; their order is the order of external_id
    Contents,     \* distinct payloads
    Kind,         \* what a payload is, see above
    Nothing,      \* no payload
    Runs,         \* processes that run the adapter, one run each at a time
    Watched,      \* items of the curated list, fetched by every run
    Limits,       \* item limits of runs: MUTINAI_INGEST_LIMIT, --limit or none
    MaxChanges,   \* bound: changes of the source
    MaxFaults,    \* bound: runs that fail, are killed, or outlive ABANDON_AFTER_HOURS
    MaxDecisions  \* bound: editor decisions

Kinds == {"plain", "derivative", "reupload", "gone", "malformed"}

ASSUME IngestionAssumption ==
    /\ Items \subseteq Nat /\ Watched \subseteq Items
    /\ Kind \in [Contents -> Kinds] /\ Nothing \notin Contents
    /\ Limits \subseteq Nat
    /\ {MaxChanges, MaxFaults, MaxDecisions} \subseteq Nat

VARIABLES
    upstream,   \* what the source serves for each item
    snapshot,   \* ingest.source_record.status by item and content
    lastSeen,   \* the content with the latest last_seen_at
    review,     \* ingest.review_item.status by item and reason
    raisedBy,   \* its last_source_record_id, as a content
    mapped,     \* items whose identifier maps to a catalog entity
    canonical,  \* the content the catalog entity was last updated from
    baseKnown,  \* derivatives whose declared base is in the catalog
    run,        \* ingest.ingestion_run.status of each process's run
    aged,       \* runs started more than ABANDON_AFTER_HOURS ago
    proc,       \* where each process stands in ingest() and runAdapter()
    todo,       \* what its adapter still has to fetch
    quota,      \* how many items its limit still allows
    held,       \* the item it is processing
    linking,    \* the review item an editor's `review link` is closing
    spent       \* counters of the bounds

catalog == <<snapshot, lastSeen, review, raisedBy, mapped, canonical>>
runVars == <<run, aged, proc, todo, quota, held>>
vars == <<upstream, catalog, baseKnown, runVars, linking, spent>>

Reasons == {"unknown_base", "possible_reupload", "source_unavailable"}
Linkable == {"unknown_base", "possible_reupload"}
NoItem == [item |-> Nothing, content |-> Nothing]
NothingToDo == [watched |-> {}, unresolved |-> {}, listed |-> {}]
Nobody == [item |-> Nothing, reason |-> "none"]

TypeOK ==
    /\ upstream \in [Items -> Contents]
    /\ snapshot \in [Items -> [Contents -> {"none", "processed", "unresolved", "failed"}]]
    /\ lastSeen \in [Items -> Contents \cup {Nothing}]
    /\ review \in [Items -> [Reasons -> {"none", "open", "resolved", "dismissed", "superseded"}]]
    /\ raisedBy \in [Items -> [Reasons -> Contents \cup {Nothing}]]
    /\ mapped \subseteq Items
    /\ canonical \in [Items -> Contents \cup {Nothing}]
    /\ baseKnown \subseteq Items
    /\ run \in [Runs -> {"none", "running", "succeeded", "failed", "abandoned"}]
    /\ aged \subseteq Runs
    /\ proc \in [Runs -> {"new", "abandon", "insert", "loop", "item", "done", "dead"}]
    /\ todo \in [Runs -> [watched : SUBSET Items, unresolved : SUBSET Items, listed : SUBSET Items]]
    /\ quota \in [Runs -> Nat]
    /\ held \in [Runs -> [item : Items, content : Contents] \cup {NoItem}]
    /\ linking \in [item : Items, reason : Linkable] \cup {Nobody}
    /\ spent \in [{"changes", "faults", "decisions"} -> Nat]

Spend(what, max) ==
    /\ spent[what] < max
    /\ spent' = [spent EXCEPT ![what] = @ + 1]

Init ==
    /\ upstream \in [Items -> Contents]
    /\ snapshot = [i \in Items |-> [c \in Contents |-> "none"]]
    /\ lastSeen = [i \in Items |-> Nothing]
    /\ review = [i \in Items |-> [x \in Reasons |-> "none"]]
    /\ raisedBy = [i \in Items |-> [x \in Reasons |-> Nothing]]
    /\ mapped = {} /\ baseKnown = {}
    /\ canonical = [i \in Items |-> Nothing]
    /\ run = [r \in Runs |-> "none"] /\ aged = {}
    /\ proc = [r \in Runs |-> "new"]
    /\ todo = [r \in Runs |-> NothingToDo]
    /\ quota = [r \in Runs |-> 0]
    /\ held = [r \in Runs |-> NoItem]
    /\ linking = Nobody
    /\ spent = [what \in {"changes", "faults", "decisions"} |-> 0]

-----------------------------------------------------------------------------
(* The run: buildAdapter, runAdapter                                       *)

\* A bug to rule out: the scheduled run does not re-check.
UnresolvedForgotten == {}

\* unresolvedExternalIds: the most recently seen snapshot is unresolved.
Unresolved == {i \in Items : lastSeen[i] # Nothing /\ snapshot[i][lastSeen[i]] = "unresolved"}

(* buildAdapter: the curated items are fetched first, then the unresolved  *)
(* ones, then any set of items the listings of the source come up with.    *)
SelectItems(r) ==
    /\ proc[r] = "new"
    /\ \E listed \in SUBSET Items :
          todo' = [todo EXCEPT ![r] = [watched |-> Watched, unresolved |-> Unresolved, listed |-> listed]]
    /\ \E limit \in Limits : quota' = [quota EXCEPT ![r] = limit]
    /\ proc' = [proc EXCEPT ![r] = "abandon"]
    /\ UNCHANGED <<upstream, catalog, baseKnown, run, aged, held, linking, spent>>

AbandonOldRuns(r) ==
    /\ proc[r] = "abandon"
    /\ run' = [q \in Runs |-> IF run[q] = "running" /\ q \in aged THEN "abandoned" ELSE run[q]]
    /\ proc' = [proc EXCEPT ![r] = "insert"]
    /\ UNCHANGED <<upstream, catalog, baseKnown, aged, todo, quota, held, linking, spent>>

\* A bug to rule out: no unique index.
NeverBusy == FALSE

\* ingestion_run_one_running refuses a second running row: IngestionBusyError.
Busy == \E q \in Runs : run[q] = "running"

InsertRun(r) ==
    /\ proc[r] = "insert"
    /\ IF Busy
       THEN proc' = [proc EXCEPT ![r] = "done"] /\ UNCHANGED run
       ELSE proc' = [proc EXCEPT ![r] = "loop"] /\ run' = [run EXCEPT ![r] = "running"]
    /\ UNCHANGED <<upstream, catalog, baseKnown, aged, todo, quota, held, linking, spent>>

\* The items the adapter may fetch next; unresolved ones come by external_id.
NextItems(r) ==
    LET next == todo[r] IN
    IF next.watched # {} THEN next.watched
    ELSE IF next.unresolved # {} THEN {i \in next.unresolved : \A j \in next.unresolved : i <= j}
    ELSE next.listed

Full(r) == quota[r] = 0

\* Each item is fetched once: the adapter remembers what it has `seen`.
FetchItem(r) ==
    /\ proc[r] = "loop" /\ ~Full(r)
    /\ \E i \in NextItems(r) :
          /\ held' = [held EXCEPT ![r] = [item |-> i, content |-> upstream[i]]]
          /\ todo' = [todo EXCEPT ![r] = [watched |-> @.watched \ {i}, unresolved |-> @.unresolved \ {i},
                                          listed |-> @.listed \ {i}]]
    /\ quota' = [quota EXCEPT ![r] = @ - 1]
    /\ proc' = [proc EXCEPT ![r] = "item"]
    /\ UNCHANGED <<upstream, catalog, baseKnown, run, aged, linking, spent>>

\* The last statement of runAdapter: by id, whatever the status has become.
FinishRun(r) ==
    /\ proc[r] = "loop"
    /\ NextItems(r) = {} \/ Full(r)
    /\ run' = [run EXCEPT ![r] = "succeeded"]
    /\ proc' = [proc EXCEPT ![r] = "done"]
    /\ UNCHANGED <<upstream, catalog, baseKnown, aged, todo, quota, held, linking, spent>>

\* A request or an item throws: the item's transaction rolls back, the run ends.
FailRun(r) ==
    /\ proc[r] \in {"loop", "item"} /\ Spend("faults", MaxFaults)
    /\ run' = [run EXCEPT ![r] = "failed"]
    /\ proc' = [proc EXCEPT ![r] = "done"]
    /\ held' = [held EXCEPT ![r] = NoItem]
    /\ UNCHANGED <<upstream, catalog, baseKnown, aged, todo, quota, linking>>

\* The process is killed: its run row stays `running`.
KillRun(r) ==
    /\ proc[r] \in {"loop", "item"} /\ Spend("faults", MaxFaults)
    /\ proc' = [proc EXCEPT ![r] = "dead"]
    /\ held' = [held EXCEPT ![r] = NoItem]
    /\ UNCHANGED <<upstream, catalog, baseKnown, run, aged, todo, quota, linking>>

\* Six hours have passed since the run started.
RunAges(r) ==
    /\ run[r] = "running" /\ r \notin aged
    /\ aged' = aged \cup {r}
    /\ IF proc[r] = "dead" THEN UNCHANGED spent ELSE Spend("faults", MaxFaults)
    /\ UNCHANGED <<upstream, catalog, baseKnown, run, proc, todo, quota, held, linking>>

\* The next scheduled run, once this one's row is closed.
NextRun(r) ==
    /\ proc[r] \in {"done", "dead"} /\ run[r] # "running"
    /\ proc' = [proc EXCEPT ![r] = "new"]
    /\ run' = [run EXCEPT ![r] = "none"]
    /\ aged' = aged \ {r}
    /\ todo' = [todo EXCEPT ![r] = NothingToDo]
    /\ quota' = [quota EXCEPT ![r] = 0]
    /\ UNCHANGED <<upstream, catalog, baseKnown, held, linking, spent>>

-----------------------------------------------------------------------------
(* One item: processItem                                                   *)

\* The review items an evaluation of content c of item i raises.
Raised(i, c) ==
    {x \in Reasons :
        \/ x = "unknown_base" /\ Kind[c] = "derivative" /\ i \notin mapped \cup baseKnown
        \/ x = "possible_reupload" /\ Kind[c] = "reupload" /\ i \notin mapped
        \/ x = "source_unavailable" /\ Kind[c] = "gone" /\ i \in mapped}

\* Only unknown_base is raised as blocking.
Blocking == {"unknown_base"}

\* A bug to rule out: what is raised for review is applied as well.
AppliesRegardless(i, c) == Kind[c] # "gone"

\* Whether the evaluation creates or updates the catalog entity of the item.
Applies(i, c) == Kind[c] # "gone" /\ Raised(i, c) = {}

\* Bugs to rule out: superseded items stay closed, items that are no longer
\* raised stay open, and what editors closed is reopened.
SyncedNeverReopens(status, raised) ==
    CASE raised /\ status = "none" -> "open"
      [] ~raised /\ status = "open" -> "superseded"
      [] OTHER -> status
SyncedNeverCloses(status, raised) ==
    IF raised /\ status \in {"none", "superseded"} THEN "open" ELSE status
SyncedReopensAll(status, raised) ==
    CASE raised -> "open"
      [] ~raised /\ status = "open" -> "superseded"
      [] OTHER -> status

\* The `on conflict` clause of syncReviewItems, then the update that supersedes.
Synced(status, raised) ==
    CASE raised /\ status \in {"none", "superseded"} -> "open"
      [] ~raised /\ status = "open" -> "superseded"
      [] OTHER -> status

Evaluate(i, c) ==
    /\ snapshot' = [snapshot EXCEPT ![i][c] =
                      IF Raised(i, c) \cap Blocking # {} THEN "unresolved" ELSE "processed"]
    /\ review' = [review EXCEPT ![i] = [x \in Reasons |-> Synced(@[x], x \in Raised(i, c))]]
    /\ raisedBy' = [raisedBy EXCEPT ![i] =
                      [x \in Reasons |-> IF x \in Raised(i, c) THEN c ELSE @[x]]]
    /\ mapped' = IF Applies(i, c) THEN mapped \cup {i} ELSE mapped
    /\ canonical' = IF Applies(i, c) THEN [canonical EXCEPT ![i] = c] ELSE canonical

\* A bug to rule out: a status that is not in source_record_status.
RecordMalformed(i, c) ==
    /\ snapshot' = [snapshot EXCEPT ![i][c] = "malformed"]
    /\ UNCHANGED <<review, raisedBy, mapped, canonical>>

\* A payload that cannot be normalized is recorded as failed once.
RecordFailure(i, c) ==
    /\ snapshot' = [snapshot EXCEPT ![i][c] = IF @ = "none" THEN "failed" ELSE @]
    /\ UNCHANGED <<review, raisedBy, mapped, canonical>>

(* A snapshot seen before is only touched, unless it is unresolved.        *)
ProcessItem(r) ==
    /\ proc[r] = "item"
    /\ LET i == held[r].item
           c == held[r].content
       IN /\ lastSeen' = [lastSeen EXCEPT ![i] = c]
          /\ \/ Kind[c] = "malformed" /\ RecordFailure(i, c)
             \/ /\ Kind[c] # "malformed"
                /\ snapshot[i][c] \in {"none", "unresolved"}
                /\ Evaluate(i, c)
             \/ /\ Kind[c] # "malformed"
                /\ snapshot[i][c] \in {"processed", "failed"}
                /\ UNCHANGED <<snapshot, review, raisedBy, mapped, canonical>>
    /\ held' = [held EXCEPT ![r] = NoItem]
    /\ proc' = [proc EXCEPT ![r] = "loop"]
    /\ UNCHANGED <<upstream, baseKnown, run, aged, todo, quota, linking, spent>>

-----------------------------------------------------------------------------
(* The source, other sources, and the editor                               *)

SourceChanges(i) ==
    /\ \E c \in Contents \ {upstream[i]} : upstream' = [upstream EXCEPT ![i] = c]
    /\ Spend("changes", MaxChanges)
    /\ UNCHANGED <<catalog, baseKnown, runVars, linking>>

\* Another item or source adds the base to the catalog.
BaseAppears(i) ==
    /\ i \notin baseKnown
    /\ baseKnown' = baseKnown \cup {i}
    /\ Spend("changes", MaxChanges)
    /\ UNCHANGED <<upstream, catalog, runVars, linking>>

Dismiss(i, x) ==
    /\ review[i][x] # "none" /\ Spend("decisions", MaxDecisions)
    /\ review' = [review EXCEPT ![i][x] = "dismissed"]
    /\ UNCHANGED <<upstream, snapshot, lastSeen, raisedBy, mapped, canonical, baseKnown, runVars, linking>>

(* review link: the identifier mapping is one statement, closing the item  *)
(* another.  An unknown base maps the base, a re-upload the item itself.   *)
LinkItem(i, x) ==
    /\ linking = Nobody /\ x \in Linkable /\ review[i][x] # "none"
    /\ Spend("decisions", MaxDecisions)
    /\ \/ x = "unknown_base" /\ baseKnown' = baseKnown \cup {i} /\ UNCHANGED mapped
       \/ x = "possible_reupload" /\ mapped' = mapped \cup {i} /\ UNCHANGED baseKnown
    /\ linking' = [item |-> i, reason |-> x]
    /\ UNCHANGED <<upstream, snapshot, lastSeen, review, raisedBy, canonical, runVars>>

CloseLinked ==
    /\ linking # Nobody
    /\ review' = [review EXCEPT ![linking.item][linking.reason] = "resolved"]
    /\ linking' = Nobody
    /\ UNCHANGED <<upstream, snapshot, lastSeen, raisedBy, mapped, canonical, baseKnown, runVars, spent>>

\* The editor's command dies between its two statements.
EditorDies ==
    /\ linking # Nobody
    /\ linking' = Nobody
    /\ Spend("faults", MaxFaults)
    /\ UNCHANGED <<upstream, catalog, baseKnown, runVars>>

RunStep(r) ==
    \/ SelectItems(r) \/ AbandonOldRuns(r) \/ InsertRun(r)
    \/ FetchItem(r) \/ ProcessItem(r) \/ FinishRun(r) \/ NextRun(r)

Next ==
    \/ \E r \in Runs : RunStep(r) \/ FailRun(r) \/ KillRun(r) \/ RunAges(r)
    \/ \E i \in Items : SourceChanges(i) \/ BaseAppears(i)
    \/ \E i \in Items, x \in Reasons : Dismiss(i, x) \/ LinkItem(i, x)
    \/ CloseLinked \/ EditorDies

Spec == Init /\ [][Next]_vars

-----------------------------------------------------------------------------
(* Properties *)

\* An item whose latest snapshot is blocked is never invisible to editors: the
\* review item that explains it is open, or an editor closed it.
BlockedIsExplained ==
    \A i \in Unresolved : review[i]["unknown_base"] \in {"open", "resolved", "dismissed"}

\* schema/ingest.ts: "Blocking items leave their source record `unresolved`": what is
\* open was raised by one and the same evaluation, whatever an older one raised has been
\* closed, and an open blocking item points at a snapshot that can be re-evaluated.
OpenItemsAreCurrent ==
    \A i \in Items :
        /\ \A x \in Blocking : review[i][x] = "open" => snapshot[i][raisedBy[i][x]] = "unresolved"
        /\ \A x, y \in Reasons :
              review[i][x] = "open" /\ review[i][y] = "open" => raisedBy[i][x] = raisedBy[i][y]

\* The catalog holds only content whose snapshot was applied as a whole.
CanonicalIsProcessed ==
    \A i \in Items : canonical[i] # Nothing => snapshot[i][canonical[i]] = "processed"

\* Two processes ingest the source at once only when the run of all but one of
\* them has been given up as abandoned.
OneUnlessAbandoned ==
    \A q, r \in Runs :
        (/\ q # r /\ proc[q] \in {"loop", "item"} /\ proc[r] \in {"loop", "item"})
          => run[q] = "abandoned" \/ run[r] = "abandoned"

\* pipeline.ts: "Dismissed/resolved items stay closed when raised again": no
\* run reopens or supersedes what an editor closed.
EditorDecisionsStick ==
    [][\A i \in Items, x \in Reasons :
         review[i][x] \in {"dismissed", "resolved"} => review'[i][x] \in {"dismissed", "resolved"}]_vars

\* schema/ingest.ts: the pipeline "closes items that no longer apply": an item
\* the source serves again is not reported as unavailable.
ServedAgainIsClosed ==
    \A i \in Items :
        lastSeen[i] # Nothing /\ Kind[lastSeen[i]] # "malformed" /\ review[i]["source_unavailable"] = "open"
          => Kind[lastSeen[i]] = "gone"

\* schema/ingest.ts: "At most one running ingestion per source, enforced by the
\* database rather than by scheduling discipline."
OneProcessIngests ==
    \A q, r \in Runs : proc[q] \in {"loop", "item"} /\ proc[r] \in {"loop", "item"} => q = r

-----------------------------------------------------------------------------
(* Liveness.  A run that started makes progress, the next one is scheduled, *)
(* and a killed run's row grows old.                                       *)
Fairness ==
    /\ \A r \in Runs : WF_vars(RunStep(r)) /\ WF_vars(RunAges(r) /\ proc[r] = "dead")
    /\ WF_vars(CloseLinked)

FairSpec == Spec /\ Fairness

\* docs/adr/0008: "An editor's `review link` therefore takes effect on the next
\* scheduled run without an upstream change": while the source goes on serving what
\* the editor linked, it reaches the catalog.
TakesEffect(i, x) ==
    (review[i][x] = "resolved" /\ raisedBy[i][x] = upstream[i] /\ lastSeen[i] = upstream[i])
        ~> (\/ canonical[i] # Nothing \/ review[i][x] # "resolved"
            \/ lastSeen[i] # upstream[i])

LinkTakesEffect == \A i \in Items, x \in Linkable : TakesEffect(i, x)

\* The same of the items whose snapshot was left unresolved, across failed, killed and
\* abandoned runs and two processes.
BlockingLinkTakesEffect == \A i \in Items, x \in Blocking : TakesEffect(i, x)
=============================================================================
