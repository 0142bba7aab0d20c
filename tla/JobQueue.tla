------------------------------- MODULE JobQueue -------------------------------
(***************************************************************************)
(* The Postgres job queue (packages/db/src/jobs.ts over the table of       *)
(* packages/db/src/schema/jobs.ts) and the worker processes that drain it  *)
(* (work() in apps/worker/src/main.ts).                                    *)
(*                                                                         *)
(* Every SQL statement of jobs.ts is one transaction of its own, so it is  *)
(* one step here; a worker process runs releaseStaleJobs, claimJobs and    *)
(* then one completeJob or failJob per claimed job, and anything another   *)
(* process does may fall between two of those statements.                  *)
(*                                                                         *)
(* Abstractions.  Payload, kind and error text are left out: whether a     *)
(* handler succeeds is nondeterministic.  Clock time is two booleans per   *)
(* row: `due` (run_after <= now()) and `stale` (locked_at older than the   *)
(* release threshold).  The order by run_after, created_at is left open:   *)
(* a claim takes any of the due rows, up to the limit (the fairness of     *)
(* FairSpec gives back what the order promises).                           *)
(***************************************************************************)
EXTENDS Naturals, FiniteSets

CONSTANTS
    Jobs,          \* the ids of all rows ever inserted
    Keys,          \* dedupe keys in use
    NoKey,         \* dedupe_key is null
    Workers,       \* worker processes; a restarted process is another element
    NoWorker,      \* locked_by is null
    OnceWorkers,   \* the processes started with --once (or by `scheduled`)
    MaxAttempts,   \* max_attempts of every row
    ClaimLimit,    \* limit of claimJobs (20 in the worker loop)
    MaxCrashes,    \* bound: processes killed by the environment
    MaxOverruns    \* bound: batches that outlive the release threshold

ASSUME JobQueueAssumption ==
    /\ NoKey \notin Keys
    /\ NoWorker \notin Workers
    /\ OnceWorkers \subseteq Workers
    /\ MaxAttempts \in Nat \ {0}
    /\ ClaimLimit \in Nat \ {0}
    /\ MaxCrashes \in Nat
    /\ MaxOverruns \in Nat

VARIABLES
    status,    \* jobs.job.status, per id
    key,       \* jobs.job.dedupe_key
    attempts,  \* jobs.job.attempts
    lockedBy,  \* jobs.job.locked_by
    due,       \* the ids whose run_after has been reached
    stale,     \* the ids whose locked_at is older than the release threshold
    pc,        \* where each process stands in work()
    batch,     \* the ClaimedJob copies each process has still to handle
    crashes,   \* processes killed so far
    overruns   \* live processes whose claim outlived the threshold so far

table == <<status, key, attempts, lockedBy, due, stale>>
processes == <<pc, batch>>
budget == <<crashes, overruns>>
vars == <<table, processes, budget>>

-----------------------------------------------------------------------------
(* Types *)

\* job_status; "failed" is declared by the schema and written by nobody.
Status == {"absent", "pending", "running", "succeeded", "dead"}

\* What claimJobs returns: attempts is the value at claim time.
Copy == [id : Jobs, attempts : Nat]

TypeOK ==
    /\ status \in [Jobs -> Status]
    /\ key \in [Jobs -> Keys \cup {NoKey}]
    /\ attempts \in [Jobs -> Nat]
    /\ lockedBy \in [Jobs -> Workers \cup {NoWorker}]
    /\ due \subseteq Jobs
    /\ stale \subseteq Jobs
    /\ pc \in [Workers -> {"new", "poll", "claim", "batch", "exited", "crashed"}]
    /\ batch \in [Workers -> SUBSET Copy]
    /\ crashes \in Nat
    /\ overruns \in Nat

-----------------------------------------------------------------------------
(* Helpers *)

\* The predicate of the partial unique index job_active_dedupe_key.
ActiveStatus == {"pending", "running"}

\* A bug to rule out: only pending rows count as active.
KeyTakenWhilePending(j, k) ==
    /\ k # NoKey
    /\ \E i \in Jobs \ {j} : status[i] = "pending" /\ key[i] = k

\* Another active row already holds key k.
KeyTaken(j, k) ==
    /\ k # NoKey
    /\ \E i \in Jobs \ {j} : status[i] \in ActiveStatus /\ key[i] = k

Live(w) == pc[w] \in {"poll", "claim", "batch"}

\* Bugs to rule out: a claim that ignores the status, or claims anew what runs.
DueJobsOfAnyStatus == due
DueJobsRunningToo == {j \in due : status[j] \in ActiveStatus}

\* The rows of the claim's inner select.
DueJobs == {j \in due : status[j] = "pending"}

\* What `limit` lets one claim take.
Claimable ==
    {picked \in SUBSET DueJobs :
        /\ Cardinality(picked) <= ClaimLimit
        /\ picked = DueJobs \/ Cardinality(picked) = ClaimLimit}

\* A bug to rule out: attempts counted when they end.
NextAttemptUncounted(j) == attempts[j]

\* `attempts = attempts + 1`, in the row and in the copy.
NextAttempt(j) == attempts[j] + 1

\* The running rows of w's claim: all of them carry the same locked_at.
LockedRows(w) == {j \in Jobs : status[j] = "running" /\ lockedBy[j] = w}

\* A bug to rule out: the release looks for rows that are not running.
StaleJobsPending == {j \in stale : status[j] = "pending"}

\* The rows releaseStaleJobs gives back.
StaleJobs == {j \in stale : status[j] = "running"}

\* A bug to rule out: the loop over the batch ends after its first job.
HandledBatch(w, c) ==
    /\ batch' = [batch EXCEPT ![w] = {}]
    /\ pc' = [pc EXCEPT ![w] = "poll"]

\* Process w has dealt with copy c and turns to the next, or back to the loop.
Handled(w, c) ==
    /\ batch' = [batch EXCEPT ![w] = @ \ {c}]
    /\ pc' = [pc EXCEPT ![w] = IF batch[w] \subseteq {c} THEN "poll" ELSE "batch"]

\* The process is gone and its in-memory batch with it.
Dies(w) ==
    /\ batch' = [batch EXCEPT ![w] = {}]
    /\ pc' = [pc EXCEPT ![w] = "crashed"]

-----------------------------------------------------------------------------
Init ==
    /\ status = [j \in Jobs |-> "absent"]
    /\ key = [j \in Jobs |-> NoKey]
    /\ attempts = [j \in Jobs |-> 0]
    /\ lockedBy = [j \in Jobs |-> NoWorker]
    /\ due = {} /\ stale = {}
    /\ pc = [w \in Workers |-> "new"]
    /\ batch = [w \in Workers |-> {}]
    /\ crashes = 0 /\ overruns = 0

(* enqueueJob, when no active row holds the key.  When one does, the insert *)
(* does nothing and no state changes.                                      *)
EnqueueJob(j, k) ==
    /\ status[j] = "absent"
    /\ ~KeyTaken(j, k)
    /\ status' = [status EXCEPT ![j] = "pending"]
    /\ key' = [key EXCEPT ![j] = k]
    /\ due' = due \cup {j}
    /\ UNCHANGED <<attempts, lockedBy, stale, processes, budget>>

\* work() begins.
Start(w) ==
    /\ pc[w] = "new"
    /\ pc' = [pc EXCEPT ![w] = "poll"]
    /\ UNCHANGED <<table, batch, budget>>

\* SIGINT or SIGTERM: seen by `while (!stopping)` only.
Shutdown(w) ==
    /\ pc[w] = "poll"
    /\ pc' = [pc EXCEPT ![w] = "exited"]
    /\ UNCHANGED <<table, batch, budget>>

ReleaseStaleJobs(w) ==
    /\ pc[w] = "poll"
    /\ status' = [j \in Jobs |-> IF j \in StaleJobs THEN "pending" ELSE status[j]]
    /\ lockedBy' = [j \in Jobs |-> IF j \in StaleJobs THEN NoWorker ELSE lockedBy[j]]
    /\ stale' = stale \ StaleJobs
    /\ pc' = [pc EXCEPT ![w] = "claim"]
    /\ UNCHANGED <<key, attempts, due, batch, budget>>

(* claimJobs.  run_after is left alone, so a claimed row stays due.        *)
ClaimJobs(w) ==
    /\ pc[w] = "claim"
    /\ \E picked \in Claimable :
          /\ status' = [j \in Jobs |-> IF j \in picked THEN "running" ELSE status[j]]
          /\ lockedBy' = [j \in Jobs |-> IF j \in picked THEN w ELSE lockedBy[j]]
          /\ attempts' = [j \in Jobs |-> IF j \in picked THEN NextAttempt(j) ELSE attempts[j]]
          /\ batch' = [batch EXCEPT ![w] = {[id |-> j, attempts |-> NextAttempt(j)] : j \in picked}]
          /\ pc' = [pc EXCEPT ![w] = IF picked # {} THEN "batch"
                                     ELSE IF w \in OnceWorkers THEN "exited" ELSE "poll"]
          /\ stale' = stale \ picked
    /\ UNCHANGED <<key, due, budget>>

(* The handler returned and completeJob runs: `where id = ...` and nothing  *)
(* else, whatever has become of the row since the claim.                   *)
CompleteJob(w, c) ==
    /\ pc[w] = "batch" /\ c \in batch[w]
    /\ status' = [status EXCEPT ![c.id] = "succeeded"]
    /\ stale' = stale \ {c.id}
    /\ Handled(w, c)
    /\ UNCHANGED <<key, attempts, lockedBy, due, budget>>

\* Bugs to rule out: one attempt too few, one too many.
ExhaustedTooEarly(c) == c.attempts + 1 >= MaxAttempts
ExhaustedTooLate(c) == c.attempts > MaxAttempts

Exhausted(c) == c.attempts >= MaxAttempts

\* A bug to rule out: the status the schema declares and nothing handles.
FailedStatusUnknown(c) == IF Exhausted(c) THEN "failed" ELSE "pending"

\* What failJob makes of the row.
FailedStatus(c) == IF Exhausted(c) THEN "dead" ELSE "pending"

(* The handler (or completeJob itself) threw and failJob runs, deciding on *)
(* the attempts of the copy.  Putting a finished row back to pending may   *)
(* break the unique index: that error leaves work() and ends the process.  *)
FailJob(w, c) ==
    /\ pc[w] = "batch" /\ c \in batch[w]
    /\ \/ /\ Exhausted(c) \/ ~KeyTaken(c.id, key[c.id])
          /\ status' = [status EXCEPT ![c.id] = FailedStatus(c)]
          /\ lockedBy' = [lockedBy EXCEPT ![c.id] = NoWorker]
          /\ due' = due \ {c.id}
          /\ stale' = stale \ {c.id}
          /\ Handled(w, c)
       \/ /\ ~Exhausted(c) /\ KeyTaken(c.id, key[c.id])
          /\ Dies(w)
          /\ UNCHANGED <<status, lockedBy, due, stale>>
    /\ UNCHANGED <<key, attempts, budget>>

\* A process is killed (deploy, out of memory, host loss).
Crash(w) ==
    /\ Live(w) /\ crashes < MaxCrashes
    /\ crashes' = crashes + 1
    /\ Dies(w)
    /\ UNCHANGED <<table, overruns>>

(* The release threshold passes for the claim of w.  For a process still   *)
(* running it, this is a batch that takes longer than the threshold.       *)
ClaimLapses(w) ==
    /\ ~(LockedRows(w) \subseteq stale)
    /\ stale' = stale \cup LockedRows(w)
    /\ \/ /\ Live(w) /\ overruns < MaxOverruns
          /\ overruns' = overruns + 1
       \/ /\ ~Live(w)
          /\ UNCHANGED overruns
    /\ UNCHANGED <<status, key, attempts, lockedBy, due, processes, crashes>>

\* run_after of a failed job is reached.
BackoffEnds(j) ==
    /\ status[j] = "pending" /\ j \notin due
    /\ due' = due \cup {j}
    /\ UNCHANGED <<status, key, attempts, lockedBy, stale, processes, budget>>

WorkerStep(w) ==
    \/ Start(w)
    \/ ReleaseStaleJobs(w)
    \/ ClaimJobs(w)
    \/ \E c \in batch[w] : CompleteJob(w, c) \/ FailJob(w, c)

Environment(w) == Shutdown(w) \/ Crash(w) \/ ClaimLapses(w)

Next ==
    \/ \E j \in Jobs, k \in Keys \cup {NoKey} : EnqueueJob(j, k)
    \/ \E j \in Jobs : BackoffEnds(j)
    \/ \E w \in Workers : WorkerStep(w) \/ Environment(w)

Spec == Init /\ [][Next]_vars

-----------------------------------------------------------------------------
(* Properties *)

\* At most one pending or running row per dedupe key, whatever stale copies
\* are completed or failed late (docs/adr/0003: "unique while pending/running").
OneActivePerKey ==
    \A i, j \in Jobs :
        (/\ status[i] \in {"pending", "running"} /\ status[j] \in {"pending", "running"}
         /\ key[i] = key[j] /\ key[i] # NoKey) => i = j

\* No running row is forgotten: the process in locked_by still holds the copy
\* of that very attempt, or it died and the row waits for releaseStaleJobs.
RunningIsHeld ==
    \A j \in Jobs : status[j] = "running" =>
        LET w == lockedBy[j] IN
        /\ w \in Workers
        /\ pc[w] = "crashed" \/ [id |-> j, attempts |-> attempts[j]] \in batch[w]

\* Two processes never hold the same attempt of a job, so `attempts` tells a
\* stale copy from the current one although no statement compares it.
AttemptHasOneHolder ==
    \A v, w \in Workers : v # w => batch[v] \cap batch[w] = {}

\* Two processes hold the same job only once a live process has overrun the
\* release threshold (test: "concurrent claims never hand out the same job").
HeldTwiceOnlyAfterOverrun ==
    overruns = 0 =>
        \A v, w \in Workers : \A c \in batch[v], d \in batch[w] : c.id = d.id => v = w

\* A row is given up only after its attempts are used up, also when several
\* processes fail copies of it in any order.
DeadIsExhausted ==
    \A j \in Jobs : status[j] = "dead" => attempts[j] >= MaxAttempts

\* Attempts beyond max_attempts come only from crashes and overruns, one each.
ExtraAttemptsArePaidFor ==
    \A j \in Jobs : attempts[j] <= MaxAttempts + crashes + overruns

\* Unless some batch overran the threshold, a settled row stays as it is: no
\* late completeJob or failJob touches it, across crashes and releases.
SettledStaysSettled ==
    [][overruns = 0 =>
         \A j \in Jobs : status[j] \in {"succeeded", "dead"} => status'[j] = status[j]]_vars

\* jobs.ts: "Retries with exponential backoff until max attempts, then marks
\* the job dead": no row is attempted more often than that.
NeverBeyondMaxAttempts ==
    \A j \in Jobs : attempts[j] <= MaxAttempts

\* jobs.ts: "Returns jobs stuck in `running` (crashed worker) to `pending`":
\* a row is only taken away from a process that no longer runs.
ReleasesOnlyFromCrashed ==
    [][\A w \in Workers : ReleaseStaleJobs(w) =>
         \A j \in Jobs : status[j] = "running" /\ status'[j] = "pending"
                            => pc[lockedBy[j]] = "crashed"]_vars

-----------------------------------------------------------------------------
(* Liveness.  A started process keeps executing work() until it ends; clock *)
(* time passes; and since claims are ordered by run_after, a row that is   *)
(* due again and again is not passed over for ever.                        *)
ClaimsJob(j) == \E w \in Workers : ClaimJobs(w) /\ status'[j] = "running" /\ status[j] = "pending"

Fairness ==
    /\ \A w \in Workers :
          /\ WF_vars(ReleaseStaleJobs(w))
          /\ WF_vars(ClaimJobs(w))
          /\ WF_vars(\E c \in batch[w] : CompleteJob(w, c) \/ FailJob(w, c))
          /\ WF_vars(ClaimLapses(w) /\ ~Live(w))
    /\ \A j \in Jobs : WF_vars(BackoffEnds(j)) /\ SF_vars(ClaimsJob(j))

FairSpec == Spec /\ Fairness

\* If one process stays up, every enqueued job is eventually settled, through
\* failures, backoff and the crash of any other process.
EveryJobSettles ==
    \A w \in Workers : <>[]Live(w) =>
        \A j \in Jobs : status[j] = "pending" ~> status[j] \in {"succeeded", "dead"}

=============================================================================
