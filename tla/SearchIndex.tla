----------------------------- MODULE SearchIndex -----------------------------
(***************************************************************************)
(* The search index kept by the job queue: transactions that change an     *)
(* entity and enqueue search.reindex_entity for it (processItem in         *)
(* packages/ingestion/src/pipeline.ts), the queue (JobQueue), and the      *)
(* handler that recomputes entity.search_text (apps/worker/src/handlers.ts *)
(* and refreshSearchText in packages/db/src/search-text.ts).               *)
(*                                                                         *)
(* One dedupe key stands for one entity: the key is `search.reindex:<id>`. *)
(* Text is abstracted to the version of the entity it was computed from.   *)
(***************************************************************************)
EXTENDS JobQueue

CONSTANTS
    Writers,       \* processes that change entities
    NoJob,         \* the transaction inserted no job: an equal one was active
    Serial,        \* TRUE: writers and workers take turns, as in `scheduled`
    MaxEdits       \* bound: committed changes per entity

ASSUME SearchIndexAssumption ==
    /\ NoJob \notin Jobs
    /\ Serial \in BOOLEAN
    /\ MaxEdits \in Nat

VARIABLES
    data,      \* committed version of each entity
    indexed,   \* the version search_text was computed from
    tx,        \* the open transaction of each writer, if any
    ran        \* copies whose handler has returned

indexVars == <<data, indexed, tx, ran>>
allVars == <<vars, indexVars>>

Idle == [open |-> FALSE, key |-> NoKey, job |-> NoJob]

-----------------------------------------------------------------------------
IndexInit ==
    /\ Init
    /\ data = [k \in Keys |-> 0]
    /\ indexed = [k \in Keys |-> 0]
    /\ tx = [t \in Writers |-> Idle]
    /\ ran = {}

\* The uncommitted rows of open transactions, already in the unique index.
Inserting(k) == \E t \in Writers : tx[t].open /\ tx[t].key = k /\ tx[t].job # NoJob

\* A bug to rule out: the unique index without its `where status in (...)`.
SignalledOnce(k) == \E j \in Jobs : status[j] # "absent" /\ key[j] = k

Signalled(k) == \E j \in Jobs : status[j] \in ActiveStatus /\ key[j] = k

\* A bug to rule out: `scheduled` does not await its ingestions.
WritersRunAnyway == TRUE

\* In one scheduled process ingestion ends before the worker loop begins.
WritersMayRun == Serial => \A w \in Workers : ~Live(w)
WorkersMayRun == Serial => /\ \A t \in Writers : ~tx[t].open
                           /\ \A w \in Workers : ~Live(w)

(* The transaction has written the entity and executes enqueueJob.  An     *)
(* active committed row swallows the insert; an uncommitted one makes it   *)
(* wait.                                                                   *)
ChangeEntity(t, k) ==
    /\ ~tx[t].open /\ WritersMayRun
    /\ data[k] < MaxEdits
    /\ \/ /\ Signalled(k)
          /\ tx' = [tx EXCEPT ![t] = [open |-> TRUE, key |-> k, job |-> NoJob]]
       \/ /\ ~Signalled(k) /\ ~Inserting(k)
          /\ \E j \in Jobs :
                /\ status[j] = "absent" /\ \A u \in Writers : tx[u].job # j
                /\ tx' = [tx EXCEPT ![t] = [open |-> TRUE, key |-> k, job |-> j]]
    /\ UNCHANGED <<vars, data, indexed, ran>>

\* Change and job become visible together.
Commit(t) ==
    /\ tx[t].open
    /\ LET k == tx[t].key IN
          /\ data[k] < MaxEdits
          /\ data' = [data EXCEPT ![k] = @ + 1]
          /\ IF tx[t].job = NoJob THEN UNCHANGED vars ELSE EnqueueJob(tx[t].job, k)
    /\ tx' = [tx EXCEPT ![t] = Idle]
    /\ UNCHANGED <<indexed, ran>>

Rollback(t) ==
    /\ tx[t].open
    /\ tx' = [tx EXCEPT ![t] = Idle]
    /\ UNCHANGED <<vars, data, indexed, ran>>

\* refreshSearchText: one update statement over the committed tables.
RunHandler(w, c) ==
    /\ pc[w] = "batch" /\ c \in batch[w] /\ <<w, c>> \notin ran
    /\ indexed' = [indexed EXCEPT ![key[c.id]] = data[key[c.id]]]
    /\ ran' = ran \cup {<<w, c>>}
    /\ UNCHANGED <<vars, data, tx>>

\* `await handler(...); await completeJob(...)`.
Finish(w, c) ==
    /\ <<w, c>> \in ran
    /\ CompleteJob(w, c)
    /\ ran' = ran \ {<<w, c>>}
    /\ UNCHANGED <<data, indexed, tx>>

\* The handler threw, or completeJob did after it returned.  An update that
\* revives a row waits while an uncommitted row holds its key.
GiveBack(w, c) ==
    /\ status[c.id] \in ActiveStatus \/ Exhausted(c) \/ ~Inserting(key[c.id])
    /\ FailJob(w, c)
    /\ ran' = ran \ {<<w, c>>}
    /\ UNCHANGED <<data, indexed, tx>>

QueueStep(w) ==
    /\ \/ WorkersMayRun /\ Start(w)
       \/ ReleaseStaleJobs(w) \/ ClaimJobs(w)
       \/ Environment(w)
    /\ UNCHANGED indexVars

IndexNext ==
    \/ \E t \in Writers : Commit(t) \/ Rollback(t) \/ \E k \in Keys : ChangeEntity(t, k)
    \/ \E w \in Workers : QueueStep(w)
    \/ \E w \in Workers : \E c \in batch[w] : RunHandler(w, c) \/ Finish(w, c) \/ GiveBack(w, c)
    \/ \E j \in Jobs : BackoffEnds(j) /\ UNCHANGED indexVars

IndexSpec == IndexInit /\ [][IndexNext]_allVars

-----------------------------------------------------------------------------
(* Properties *)

\* A text that lags behind its entity is still going to be recomputed: a job
\* for it is pending or running, or dead where an operator sees it.
LagIsSignalled ==
    \A k \in Keys : indexed[k] # data[k] =>
        \E j \in Jobs : key[j] = k /\ status[j] \in {"pending", "running", "dead"}

\* The queue, its transactions and the worker loop implement ChangeSignals.
Owed == {k \in Keys : \E j \in Jobs : key[j] = k /\ status[j] \in {"pending", "running", "dead"}}

Signals == INSTANCE ChangeSignals WITH Entities <- Keys, owed <- Owed

ImplementsChangeSignals == Signals!Spec

\* docs/adr/0003: "Deduplication by `dedupe_key` makes "entity changed" signals
\* collapse naturally": once nothing is pending or running and no transaction
\* is open, every text whose refresh was not given up is up to date.
QuiescentTextIsCurrent ==
    (/\ \A j \in Jobs : status[j] \in {"absent", "succeeded"}
     /\ \A t \in Writers : ~tx[t].open)
       => indexed = data
=============================================================================
