--------------------------- MODULE EnrichmentProofs ---------------------------
(***************************************************************************)
(* Theorems about the job queue and the texts it keeps, for every set of   *)
(* rows, keys, entities, writers and processes and every bound.            *)
(*                                                                         *)
(* The queue (JobQueue).  Its inductive invariant adds three facts to the  *)
(* ones the runs check: a process has copies only while it is in its       *)
(* batch, a copy never claims more attempts than its row has, and, as long *)
(* as no live process has overrun the release threshold, every copy is its *)
(* row's current claim.                                                    *)
(*                                                                         *)
(* The texts (SearchIndex, Enrichment).  The search index implements       *)
(* ChangeSignals when ingestion and the worker loop take turns, and an     *)
(* entity has one current enrichment, never made twice of one input,       *)
(* unless a batch outlives the release threshold beside others.  The queue *)
(* takes its own steps here too, so its invariant is not proved again.     *)
(***************************************************************************)
EXTENDS Enrichment, SequenceTheorems, TLAPS

-----------------------------------------------------------------------------
(* The queue.                                                              *)

CopiesOnlyInBatch ==
    \A w \in Workers : pc[w] # "batch" => batch[w] = {}

CopiesAreNotAhead ==
    \A w \in Workers : \A c \in batch[w] : c.attempts <= attempts[c.id]

CopiesAreCurrent ==
    overruns = 0 =>
        \A w \in Workers : \A c \in batch[w] :
            /\ status[c.id] = "running" /\ lockedBy[c.id] = w
            /\ attempts[c.id] = c.attempts /\ c.id \notin stale

IInv ==
    /\ TypeOK
    /\ CopiesOnlyInBatch
    /\ CopiesAreNotAhead
    /\ CopiesAreCurrent
    /\ OneActivePerKey
    /\ RunningIsHeld
    /\ AttemptHasOneHolder
    /\ DeadIsExhausted

-----------------------------------------------------------------------------
(* What a claim takes: pending rows only.                                  *)
LEMMA ClaimablePending ==
    ASSUME NEW picked \in Claimable, TypeOK
    PROVE  picked \subseteq Jobs /\ \A j \in picked : status[j] = "pending"
BY DEF Claimable, DueJobs, TypeOK

(* Every step keeps the types.                                             *)
LEMMA TypeStep == TypeOK /\ [Next]_vars => TypeOK'
<1> SUFFICES ASSUME TypeOK, [Next]_vars PROVE TypeOK'
  OBVIOUS
<1> USE JobQueueAssumption DEF table, processes, budget
<1>1. ASSUME NEW j \in Jobs, NEW k \in Keys \cup {NoKey}, EnqueueJob(j, k) PROVE TypeOK'
  BY <1>1 DEF EnqueueJob, TypeOK, Status
<1>2. ASSUME NEW j \in Jobs, BackoffEnds(j) PROVE TypeOK'
  BY <1>2 DEF BackoffEnds, TypeOK
<1>3. ASSUME NEW w \in Workers, Start(w) PROVE TypeOK'
  BY <1>3 DEF Start, TypeOK
<1>4. ASSUME NEW w \in Workers, ReleaseStaleJobs(w) PROVE TypeOK'
  BY <1>4 DEF ReleaseStaleJobs, StaleJobs, TypeOK, Status
<1>5. ASSUME NEW w \in Workers, ClaimJobs(w) PROVE TypeOK'
  <2>1. PICK picked \in Claimable :
          /\ status' = [j \in Jobs |-> IF j \in picked THEN "running" ELSE status[j]]
          /\ lockedBy' = [j \in Jobs |-> IF j \in picked THEN w ELSE lockedBy[j]]
          /\ attempts' = [j \in Jobs |-> IF j \in picked THEN attempts[j] + 1 ELSE attempts[j]]
          /\ batch' = [batch EXCEPT ![w] = {[id |-> j, attempts |-> attempts[j] + 1] : j \in picked}]
          /\ pc' = [pc EXCEPT ![w] = IF picked # {} THEN "batch"
                                     ELSE IF w \in OnceWorkers THEN "exited" ELSE "poll"]
          /\ stale' = stale \ picked
    BY <1>5 DEF ClaimJobs, NextAttempt
  <2>2. picked \subseteq Jobs
    BY ClaimablePending
  <2>3. {[id |-> j, attempts |-> attempts[j] + 1] : j \in picked} \subseteq Copy
    BY <2>2 DEF Copy, TypeOK
  <2>4. batch' \in [Workers -> SUBSET Copy]
    BY <2>1, <2>3 DEF TypeOK
  <2>5. /\ status' \in [Jobs -> Status] /\ lockedBy' \in [Jobs -> Workers \cup {NoWorker}]
        /\ attempts' \in [Jobs -> Nat] /\ stale' \subseteq Jobs
    BY <2>1 DEF TypeOK, Status
  <2>6. pc' \in [Workers -> {"new", "poll", "claim", "batch", "exited", "crashed"}]
    BY <2>1 DEF TypeOK
  <2> QED
    BY <1>5, <2>4, <2>5, <2>6 DEF ClaimJobs, TypeOK
<1>6. ASSUME NEW w \in Workers, NEW c \in batch[w], CompleteJob(w, c) PROVE TypeOK'
  <2>1. c.id \in Jobs
    BY DEF TypeOK, Copy
  <2> QED
    BY <1>6, <2>1 DEF CompleteJob, Handled, TypeOK, Status
<1>7. ASSUME NEW w \in Workers, NEW c \in batch[w], FailJob(w, c) PROVE TypeOK'
  <2>1. c.id \in Jobs
    BY DEF TypeOK, Copy
  <2>2. /\ status' \in [Jobs -> Status] /\ lockedBy' \in [Jobs -> Workers \cup {NoWorker}]
        /\ due' \subseteq Jobs /\ stale' \subseteq Jobs
    BY <1>7, <2>1 DEF FailJob, FailedStatus, TypeOK, Status
  <2>3. /\ batch' \in [Workers -> SUBSET Copy]
        /\ pc' \in [Workers -> {"new", "poll", "claim", "batch", "exited", "crashed"}]
    BY <1>7 DEF FailJob, Handled, Dies, TypeOK
  <2> QED
    BY <1>7, <2>2, <2>3 DEF FailJob, TypeOK
<1>8. ASSUME NEW w \in Workers, Shutdown(w) PROVE TypeOK'
  BY <1>8 DEF Shutdown, TypeOK
<1>9. ASSUME NEW w \in Workers, Crash(w) PROVE TypeOK'
  BY <1>9 DEF Crash, Dies, TypeOK
<1>10. ASSUME NEW w \in Workers, ClaimLapses(w) PROVE TypeOK'
  BY <1>10 DEF ClaimLapses, LockedRows, TypeOK
<1>11. CASE UNCHANGED vars
  BY <1>11 DEF vars, TypeOK
<1> QED
  BY <1>1, <1>2, <1>3, <1>4, <1>5, <1>6, <1>7, <1>8, <1>9, <1>10, <1>11
  DEF Next, WorkerStep, Environment

(* Type correctness: the table and the processes keep their shapes.        *)
THEOREM TypeCorrect == Spec => []TypeOK
<1>1. Init => TypeOK
  BY JobQueueAssumption DEF Init, TypeOK, Status
<1> QED
  BY <1>1, TypeStep, PTL DEF Spec

-----------------------------------------------------------------------------
(* One lemma per action for the rest of the inductive invariant.           *)

\* An insert keeps it: the unique index guards the new pending row.
LEMMA EnqueueStep ==
    ASSUME IInv, TypeOK', NEW j \in Jobs, NEW k \in Keys \cup {NoKey}, EnqueueJob(j, k)
    PROVE  IInv'
<1> USE DEF IInv, TypeOK, EnqueueJob, processes, budget
<1>1. CopiesOnlyInBatch' /\ CopiesAreNotAhead'
  BY DEF CopiesOnlyInBatch, CopiesAreNotAhead
<1>2. CopiesAreCurrent'
  BY DEF CopiesAreCurrent, Copy
<1>3. OneActivePerKey'
  BY DEF OneActivePerKey, KeyTaken, ActiveStatus
<1>4. RunningIsHeld' /\ AttemptHasOneHolder' /\ DeadIsExhausted'
  BY DEF RunningIsHeld, AttemptHasOneHolder, DeadIsExhausted
<1> QED
  BY <1>1, <1>2, <1>3, <1>4

\* A release keeps it: the rows it gives back lapsed, so no current copy is theirs.
LEMMA ReleaseStep ==
    ASSUME IInv, TypeOK', NEW w \in Workers, ReleaseStaleJobs(w)
    PROVE  IInv'
<1> USE DEF IInv, TypeOK, ReleaseStaleJobs, StaleJobs, processes, budget
<1>1. CopiesOnlyInBatch' /\ CopiesAreNotAhead'
  BY DEF CopiesOnlyInBatch, CopiesAreNotAhead
<1>2. CopiesAreCurrent'
  BY DEF CopiesAreCurrent, Copy
<1>3. OneActivePerKey'
  BY DEF OneActivePerKey
<1>4. RunningIsHeld' /\ AttemptHasOneHolder' /\ DeadIsExhausted'
  BY DEF RunningIsHeld, AttemptHasOneHolder, DeadIsExhausted
<1> QED
  BY <1>1, <1>2, <1>3, <1>4

\* A claim keeps it: it takes pending rows, and its copies carry a fresh attempt.
LEMMA ClaimStep ==
    ASSUME IInv, TypeOK', NEW w \in Workers, ClaimJobs(w)
    PROVE  IInv'
<1> USE DEF IInv, TypeOK, processes, budget
<1>1. PICK picked \in Claimable :
        /\ status' = [j \in Jobs |-> IF j \in picked THEN "running" ELSE status[j]]
        /\ lockedBy' = [j \in Jobs |-> IF j \in picked THEN w ELSE lockedBy[j]]
        /\ attempts' = [j \in Jobs |-> IF j \in picked THEN attempts[j] + 1 ELSE attempts[j]]
        /\ batch' = [batch EXCEPT ![w] = {[id |-> j, attempts |-> attempts[j] + 1] : j \in picked}]
        /\ pc' = [pc EXCEPT ![w] = IF picked # {} THEN "batch"
                                   ELSE IF w \in OnceWorkers THEN "exited" ELSE "poll"]
        /\ stale' = stale \ picked
  BY DEF ClaimJobs, NextAttempt
<1>2. picked \subseteq Jobs /\ \A j \in picked : status[j] = "pending"
  BY ClaimablePending
<1>3. pc[w] = "claim" /\ batch[w] = {} /\ key' = key /\ overruns' = overruns
  BY DEF ClaimJobs, CopiesOnlyInBatch
<1>4. CopiesOnlyInBatch'
  BY <1>1 DEF CopiesOnlyInBatch
<1>5. CopiesAreNotAhead'
  BY <1>1, <1>2 DEF CopiesAreNotAhead, Copy
<1>6. CopiesAreCurrent'
  BY <1>1, <1>2, <1>3 DEF CopiesAreCurrent, Copy
<1>7. OneActivePerKey'
  BY <1>1, <1>2, <1>3 DEF OneActivePerKey
<1>8. RunningIsHeld'
  BY <1>1, <1>2, <1>3 DEF RunningIsHeld
<1>9. AttemptHasOneHolder'
  BY <1>1, <1>2 DEF AttemptHasOneHolder, CopiesAreNotAhead, Copy
<1>10. DeadIsExhausted'
  BY <1>1, <1>2 DEF DeadIsExhausted
<1> QED
  BY <1>4, <1>5, <1>6, <1>7, <1>8, <1>9, <1>10

\* completeJob keeps it, also when the copy is no longer the current one.
LEMMA CompleteStep ==
    ASSUME IInv, TypeOK', NEW w \in Workers, NEW c \in batch[w], CompleteJob(w, c)
    PROVE  IInv'
<1> USE DEF IInv, TypeOK, CompleteJob, Handled, budget
<1>1. c \in Copy /\ c.id \in Jobs
  BY DEF Copy
<1>2. CopiesOnlyInBatch' /\ CopiesAreNotAhead'
  BY DEF CopiesOnlyInBatch, CopiesAreNotAhead
<1>3. CopiesAreCurrent'
  BY <1>1 DEF CopiesAreCurrent, Copy
<1>4. OneActivePerKey'
  BY <1>1 DEF OneActivePerKey
<1>5. RunningIsHeld'
  BY <1>1 DEF RunningIsHeld
<1>6. AttemptHasOneHolder' /\ DeadIsExhausted'
  BY <1>1 DEF AttemptHasOneHolder, DeadIsExhausted
<1> QED
  BY <1>2, <1>3, <1>4, <1>5, <1>6

\* failJob keeps it: a row it revives has its key to itself, a row it gives up is exhausted.
LEMMA FailStep ==
    ASSUME IInv, TypeOK', NEW w \in Workers, NEW c \in batch[w], FailJob(w, c)
    PROVE  IInv'
<1> USE DEF IInv, TypeOK, FailJob, FailedStatus, Handled, Dies, budget
<1>1. c \in Copy /\ c.id \in Jobs /\ c.attempts <= attempts[c.id]
  BY DEF Copy, CopiesAreNotAhead
<1>2. CopiesOnlyInBatch' /\ CopiesAreNotAhead'
  BY DEF CopiesOnlyInBatch, CopiesAreNotAhead
<1>3. CopiesAreCurrent'
  BY <1>1 DEF CopiesAreCurrent, Copy
<1>4. OneActivePerKey'
  BY <1>1 DEF OneActivePerKey, KeyTaken, ActiveStatus
<1>5. RunningIsHeld'
  BY <1>1 DEF RunningIsHeld
<1>6. AttemptHasOneHolder'
  BY DEF AttemptHasOneHolder
<1>7. DeadIsExhausted'
  BY <1>1, JobQueueAssumption DEF DeadIsExhausted, Exhausted, Copy
<1> QED
  BY <1>2, <1>3, <1>4, <1>5, <1>6, <1>7

\* A crash keeps it: the rows of the process are held by a crashed process.
LEMMA CrashStep ==
    ASSUME IInv, TypeOK', NEW w \in Workers, Crash(w)
    PROVE  IInv'
<1> USE DEF IInv, TypeOK, Crash, Dies, table
<1>1. CopiesOnlyInBatch' /\ CopiesAreNotAhead' /\ CopiesAreCurrent'
  BY DEF CopiesOnlyInBatch, CopiesAreNotAhead, CopiesAreCurrent
<1>2. OneActivePerKey' /\ AttemptHasOneHolder' /\ DeadIsExhausted'
  BY DEF OneActivePerKey, AttemptHasOneHolder, DeadIsExhausted
<1>3. RunningIsHeld'
  BY DEF RunningIsHeld
<1> QED
  BY <1>1, <1>2, <1>3

\* A lapse keeps it: it hits rows of dead processes, or counts as an overrun.
LEMMA LapseStep ==
    ASSUME IInv, TypeOK', NEW w \in Workers, ClaimLapses(w)
    PROVE  IInv'
<1> USE DEF IInv, TypeOK, ClaimLapses, LockedRows, processes
<1>1. CopiesOnlyInBatch' /\ CopiesAreNotAhead'
  BY DEF CopiesOnlyInBatch, CopiesAreNotAhead
<1>2. CopiesAreCurrent'
  BY DEF CopiesAreCurrent, CopiesOnlyInBatch, Live
<1>3. OneActivePerKey' /\ RunningIsHeld' /\ AttemptHasOneHolder' /\ DeadIsExhausted'
  BY DEF OneActivePerKey, RunningIsHeld, AttemptHasOneHolder, DeadIsExhausted
<1> QED
  BY <1>1, <1>2, <1>3

\* Start, Shutdown and BackoffEnds touch neither a claim nor a copy.
LEMMA QuietStep ==
    ASSUME IInv, TypeOK',
           \/ \E w \in Workers : Start(w) \/ Shutdown(w)
           \/ \E j \in Jobs : BackoffEnds(j)
           \/ UNCHANGED vars
    PROVE  IInv'
<1> USE DEF IInv, TypeOK, table, processes, budget
<1>1. ASSUME NEW w \in Workers, Start(w) \/ Shutdown(w) PROVE IInv'
  BY <1>1 DEF Start, Shutdown, CopiesOnlyInBatch, CopiesAreNotAhead, CopiesAreCurrent,
     OneActivePerKey, RunningIsHeld, AttemptHasOneHolder, DeadIsExhausted
<1>2. ASSUME NEW j \in Jobs, BackoffEnds(j) PROVE IInv'
  BY <1>2 DEF BackoffEnds, CopiesOnlyInBatch, CopiesAreNotAhead, CopiesAreCurrent,
     OneActivePerKey, RunningIsHeld, AttemptHasOneHolder, DeadIsExhausted
<1>3. CASE UNCHANGED vars
  BY <1>3 DEF vars, CopiesOnlyInBatch, CopiesAreNotAhead, CopiesAreCurrent,
     OneActivePerKey, RunningIsHeld, AttemptHasOneHolder, DeadIsExhausted
<1> QED
  BY <1>1, <1>2, <1>3

\* The invariant is inductive.
LEMMA InductiveStep == IInv /\ [Next]_vars => IInv'
<1> SUFFICES ASSUME IInv, [Next]_vars PROVE IInv'
  OBVIOUS
<1>1. TypeOK'
  BY TypeStep DEF IInv
<1> QED
  BY <1>1, EnqueueStep, ReleaseStep, ClaimStep, CompleteStep, FailStep, CrashStep, LapseStep,
     QuietStep DEF Next, WorkerStep, Environment

\* The invariant holds initially.
LEMMA InductiveInit == Init => IInv
<1> SUFFICES ASSUME Init PROVE IInv
  OBVIOUS
<1> USE DEF Init
<1>1. TypeOK
  BY JobQueueAssumption DEF TypeOK, Status
<1>2. CopiesOnlyInBatch /\ CopiesAreNotAhead /\ CopiesAreCurrent /\ AttemptHasOneHolder
  BY DEF CopiesOnlyInBatch, CopiesAreNotAhead, CopiesAreCurrent, AttemptHasOneHolder
<1>3. OneActivePerKey /\ RunningIsHeld /\ DeadIsExhausted
  BY DEF OneActivePerKey, RunningIsHeld, DeadIsExhausted
<1> QED
  BY <1>1, <1>2, <1>3 DEF IInv

-----------------------------------------------------------------------------
(* The inductive invariant holds in every reachable state.                 *)
THEOREM Inductive == Spec => []IInv
BY InductiveInit, InductiveStep, PTL DEF Spec

(* No two active rows share a dedupe key, late completions and failures of *)
(* stale copies included.                                                  *)
THEOREM OneActivePerKeyHolds == Spec => []OneActivePerKey
<1>1. IInv => OneActivePerKey
  BY DEF IInv
<1> QED
  BY <1>1, Inductive, PTL

(* A running row is in the hands of the process that locked it, or that    *)
(* process died: no claimed job is lost.                                   *)
THEOREM RunningIsHeldHolds == Spec => []RunningIsHeld
<1>1. IInv => RunningIsHeld
  BY DEF IInv
<1> QED
  BY <1>1, Inductive, PTL

(* An attempt is held by one process only.                                 *)
THEOREM AttemptHasOneHolderHolds == Spec => []AttemptHasOneHolder
<1>1. IInv => AttemptHasOneHolder
  BY DEF IInv
<1> QED
  BY <1>1, Inductive, PTL

(* Only rows whose attempts are used up are given up.                      *)
THEOREM DeadIsExhaustedHolds == Spec => []DeadIsExhausted
<1>1. IInv => DeadIsExhausted
  BY DEF IInv
<1> QED
  BY <1>1, Inductive, PTL

(* As long as no batch overran the release threshold, no job is in the     *)
(* hands of two processes.                                                 *)
THEOREM HeldTwiceOnlyAfterOverrunHolds == Spec => []HeldTwiceOnlyAfterOverrun
<1>1. IInv => HeldTwiceOnlyAfterOverrun
  BY DEF IInv, CopiesAreCurrent, HeldTwiceOnlyAfterOverrun
<1> QED
  BY <1>1, Inductive, PTL

(* As long as no batch overran the release threshold, a settled row keeps  *)
(* its status.                                                             *)
THEOREM SettledStaysSettledHolds == Spec => SettledStaysSettled
<1> DEFINE Keeps == overruns = 0 =>
             \A j \in Jobs : status[j] \in {"succeeded", "dead"} => status'[j] = status[j]
<1>1. IInv /\ [Next]_vars => [Keeps]_vars
  <2> SUFFICES ASSUME IInv, Next, overruns = 0,
                      NEW j \in Jobs, status[j] \in {"succeeded", "dead"}
               PROVE  status'[j] = status[j]
    BY DEF vars
  <2> USE DEF IInv, TypeOK, table
  <2>1. ASSUME NEW i \in Jobs, NEW k \in Keys \cup {NoKey}, EnqueueJob(i, k) PROVE status'[j] = status[j]
    BY <2>1 DEF EnqueueJob
  <2>2. ASSUME NEW w \in Workers, ReleaseStaleJobs(w) PROVE status'[j] = status[j]
    BY <2>2 DEF ReleaseStaleJobs, StaleJobs
  <2>3. ASSUME NEW w \in Workers, ClaimJobs(w) PROVE status'[j] = status[j]
    BY <2>3, ClaimablePending DEF ClaimJobs
  <2>4. ASSUME NEW w \in Workers, NEW c \in batch[w], CompleteJob(w, c) \/ FailJob(w, c)
        PROVE  status'[j] = status[j]
    <3>1. status[c.id] = "running"
      BY DEF CopiesAreCurrent
    <3> QED
      BY <2>4, <3>1 DEF CompleteJob, FailJob
  <2>5. ASSUME NEW w \in Workers, Start(w) \/ Environment(w) PROVE status'[j] = status[j]
    BY <2>5 DEF Start, Environment, Shutdown, Crash, ClaimLapses
  <2>6. ASSUME NEW i \in Jobs, BackoffEnds(i) PROVE status'[j] = status[j]
    BY <2>6 DEF BackoffEnds
  <2> QED
    BY <2>1, <2>2, <2>3, <2>4, <2>5, <2>6 DEF Next, WorkerStep
<1>2. Spec => [][Keeps]_vars
  BY <1>1, Inductive, PTL DEF Spec
<1> QED
  BY <1>2 DEF SettledStaysSettled

-----------------------------------------------------------------------------
(* The texts.                                                              *)

\* No two processes can be at work on one job: they take turns, or no batch overruns.
Exclusive == Serial \/ MaxOverruns = 0

-----------------------------------------------------------------------------
(* The inductive invariant of the writers and the queue.                   *)

IndexTypes ==
    /\ data \in [Keys -> 0 .. MaxEdits] /\ indexed \in [Keys -> 0 .. MaxEdits]
    /\ tx \in [Writers -> [open : BOOLEAN, key : Keys \cup {NoKey}, job : Jobs \cup {NoJob}]]
    /\ \A t \in Writers : tx[t].open => tx[t].key \in Keys
    /\ ran \subseteq Workers \X Copy
    /\ overruns <= MaxOverruns

RowsAreKeyed == \A j \in Jobs : status[j] # "absent" => key[j] \in Keys

\* One process at a time, and none beside an open transaction.
TurnsAreKept ==
    Serial => /\ \A v, w \in Workers : Live(v) /\ Live(w) => v = w
              /\ \A t \in Writers : tx[t].open => \A w \in Workers : ~Live(w)

\* What a process holds is its own claim.
HeldIsClaimed ==
    \A w \in Workers : \A c \in batch[w] :
        /\ status[c.id] = "running" /\ lockedBy[c.id] = w /\ attempts[c.id] = c.attempts

RanIsHeld == \A p \in ran : pc[p[1]] # "new" /\ (Live(p[1]) => p[2] \in batch[p[1]])

\* A handler that has returned has seen the last change: writers wait for their turn.
RanIsCurrent ==
    \A w \in Workers : \A c \in batch[w] :
        (Serial /\ <<w, c>> \in ran) => indexed[key[c.id]] = data[key[c.id]]

\* An insert that did nothing leaves its change to a row that is still active.
SignalsStand ==
    \A t \in Writers : (Serial /\ tx[t].open /\ tx[t].job = NoJob) => Signalled(tx[t].key)

QueueInv == IInv /\ IndexTypes /\ RowsAreKeyed /\ TurnsAreKept /\ HeldIsClaimed

IndexInv == QueueInv /\ RanIsHeld /\ RanIsCurrent /\ SignalsStand

-----------------------------------------------------------------------------
(* The inductive invariant of enrichment.                                  *)

Inputs == {InputOf[v] : v \in 0 .. MaxEdits}
TextRow == [input : Inputs, superseded : BOOLEAN]
Texts == Seq(TextRow)

CallRecord == [by : Workers, copy : Copy, version : 0 .. MaxEdits,
               at : {"loaded", "generated", "superseding"}, old : SUBSET Nat]

EnrichTypes ==
    /\ texts \in [Subjects -> Texts]
    /\ writing \subseteq CallRecord

\* A call belongs to a copy whose handler has not returned, and to no other call.
CallsAreHeld ==
    \A x \in writing : /\ x.copy \in batch[x.by] /\ <<x.by, x.copy>> \notin ran
                       /\ key[x.copy.id] \in Subjects

OneCallEach == \A x, y \in writing : x.by = y.by /\ x.copy = y.copy => x = y

\* With turns, what a call has read is still so.
CallsAreFresh == \A x \in writing : Serial => x.version = data[key[x.copy.id]]

\* A call that goes on to write found no current text of its input.
CallsAreNeeded ==
    \A x \in writing :
        /\ x.at \in {"generated", "superseding"} => ~UpToDate(key[x.copy.id], Input(x))
        /\ x.at = "superseding" => x.old = Current(key[x.copy.id])

EnrichInv ==
    /\ IndexInv /\ EnrichTypes
    /\ CallsAreHeld /\ OneCallEach /\ CallsAreFresh /\ CallsAreNeeded
    /\ OneCurrentText /\ NeverGeneratedTwice

-----------------------------------------------------------------------------
(* The queue's own steps.                                                  *)

\* Whatever the writers and handlers do, the queue takes a step of its own or none.
LEMMA QueueTakesItsSteps ==
    ASSUME IndexTypes, [IndexNext]_allVars
    PROVE  [Next]_vars
<1> USE DEF vars, table, processes, budget
<1>1. ASSUME NEW t \in Writers, Commit(t) PROVE [Next]_vars
  <2>1. tx[t].key \in Keys /\ tx[t].job \in Jobs \cup {NoJob}
    BY <1>1 DEF IndexTypes, Commit
  <2> QED
    BY <1>1, <2>1 DEF Commit, Next
<1>2. ASSUME NEW t \in Writers, Rollback(t) \/ \E k \in Keys : ChangeEntity(t, k) PROVE [Next]_vars
  BY <1>2 DEF Rollback, ChangeEntity
<1>3. ASSUME NEW w \in Workers, QueueStep(w) PROVE [Next]_vars
  BY <1>3 DEF QueueStep, Next, WorkerStep
<1>4. ASSUME NEW w \in Workers, NEW c \in batch[w], RunHandler(w, c) \/ Finish(w, c) \/ GiveBack(w, c)
      PROVE  [Next]_vars
  BY <1>4 DEF RunHandler, Finish, GiveBack, Next, WorkerStep
<1>5. ASSUME NEW j \in Jobs, BackoffEnds(j) PROVE [Next]_vars
  BY <1>5 DEF Next
<1>6. CASE UNCHANGED allVars
  BY <1>6 DEF allVars
<1> QED
  BY <1>1, <1>2, <1>3, <1>4, <1>5, <1>6 DEF IndexNext

\* Who holds what, as the types have it.
LEMMA HeldShape ==
    ASSUME QueueInv, NEW w \in Workers, NEW c \in batch[w]
    PROVE  /\ c \in Copy /\ c.id \in Jobs /\ c = [id |-> c.id, attempts |-> c.attempts]
           /\ pc[w] = "batch" /\ Live(w)
           /\ status[c.id] = "running" /\ key[c.id] \in Keys /\ key[c.id] # NoKey
<1>1. c \in Copy
  BY DEF QueueInv, IInv, TypeOK
<1>2. c.id \in Jobs /\ c = [id |-> c.id, attempts |-> c.attempts]
  BY <1>1 DEF Copy
<1>3. pc[w] = "batch" /\ status[c.id] = "running"
  BY DEF QueueInv, IInv, CopiesOnlyInBatch, HeldIsClaimed
<1> QED
  BY <1>1, <1>2, <1>3, JobQueueAssumption DEF QueueInv, RowsAreKeyed, Live

\* A job is held by one process, as one copy, and a dedupe key by one job.
LEMMA OneHolder ==
    ASSUME QueueInv, NEW v \in Workers, NEW w \in Workers, NEW c \in batch[v], NEW d \in batch[w],
           c.id = d.id \/ key[c.id] = key[d.id]
    PROVE  v = w /\ c = d
<1>1. /\ c.id \in Jobs /\ c = [id |-> c.id, attempts |-> c.attempts]
      /\ d.id \in Jobs /\ d = [id |-> d.id, attempts |-> d.attempts]
      /\ key[c.id] # NoKey
  BY HeldShape
<1>2. c.id = d.id
  BY <1>1 DEF QueueInv, IInv, HeldIsClaimed, OneActivePerKey
<1> QED
  BY <1>1, <1>2 DEF QueueInv, HeldIsClaimed

-----------------------------------------------------------------------------
(* One lemma per kind of step for the invariant of writers and queue.      *)

\* Opening or abandoning a transaction touches no row.
LEMMA WriterStep ==
    ASSUME IndexInv, IInv', NEW t \in Writers,
           Rollback(t) \/ \E k \in Keys : ChangeEntity(t, k)
    PROVE  IndexInv'
<1> USE DEF IndexInv, QueueInv
<1>1. UNCHANGED <<status, key, attempts, lockedBy, due, stale, pc, batch, crashes, overruns, data, indexed, ran>>
  BY DEF Rollback, ChangeEntity, vars, table, processes, budget
<1>2. IndexTypes'
  <2> DEFINE Opened(k, j) == [open |-> TRUE, key |-> k, job |-> j]
  <2>1. CASE Rollback(t)
    BY <1>1, <2>1 DEF IndexTypes, Rollback, Idle
  <2>2. CASE \E k \in Keys : ChangeEntity(t, k)
    <3>1. PICK k \in Keys, j \in Jobs \cup {NoJob} : tx' = [tx EXCEPT ![t] = Opened(k, j)]
      BY <2>2 DEF ChangeEntity
    <3> QED
      BY <1>1, <3>1 DEF IndexTypes
  <2> QED
    BY <2>1, <2>2
<1>3. RowsAreKeyed' /\ HeldIsClaimed' /\ RanIsHeld' /\ RanIsCurrent'
  BY <1>1 DEF RowsAreKeyed, HeldIsClaimed, RanIsHeld, RanIsCurrent, Live
<1>4. TurnsAreKept'
  BY <1>1 DEF TurnsAreKept, IndexTypes, Rollback, ChangeEntity, WritersMayRun, Live, Idle
<1>5. SignalsStand'
  BY <1>1, SearchIndexAssumption DEF SignalsStand, IndexTypes, Rollback, ChangeEntity, Signalled, Idle
<1> QED
  BY <1>2, <1>3, <1>4, <1>5

\* A commit: the change with its signal.
LEMMA CommitStep ==
    ASSUME IndexInv, IInv', NEW t \in Writers, Commit(t)
    PROVE  IndexInv'
<1> USE DEF IndexInv, QueueInv
<1> DEFINE k == tx[t].key
<1>1. /\ k \in Keys /\ tx[t].job \in Jobs \cup {NoJob} /\ tx[t].open
      /\ data[k] < MaxEdits /\ data' = [data EXCEPT ![k] = @ + 1] /\ tx' = [tx EXCEPT ![t] = Idle]
      /\ UNCHANGED <<indexed, ran, pc, batch, overruns, attempts, lockedBy>>
      /\ \/ UNCHANGED <<status, key>>
         \/ \E j \in Jobs : /\ status[j] = "absent" /\ status' = [status EXCEPT ![j] = "pending"]
                            /\ key' = [key EXCEPT ![j] = k]
  BY DEF Commit, IndexTypes, EnqueueJob, vars, table, processes, budget
<1>2. IndexTypes'
  BY <1>1, SearchIndexAssumption DEF IndexTypes, Idle
<1>3. RowsAreKeyed'
  BY <1>1 DEF RowsAreKeyed, IInv, TypeOK
<1>4. TurnsAreKept' /\ RanIsHeld'
  BY <1>1 DEF TurnsAreKept, RanIsHeld, Live, IndexTypes, Idle
<1>5. HeldIsClaimed'
  BY <1>1 DEF HeldIsClaimed, IInv, TypeOK, Copy
<1>6. RanIsCurrent'
  BY <1>1, HeldShape DEF RanIsCurrent, TurnsAreKept
<1>7. SignalsStand'
  BY <1>1, SearchIndexAssumption DEF SignalsStand, Signalled, ActiveStatus, Idle, IndexTypes, IInv, TypeOK
<1> QED
  BY <1>2, <1>3, <1>4, <1>5, <1>6, <1>7

\* The queue's steps that hold no lock on an entity: nothing is inserted, and what a process
\* holds stays its own claim.
LEMMA QueueStepStep ==
    ASSUME IndexInv, Exclusive, IInv', NEW w \in Workers, QueueStep(w)
    PROVE  IndexInv'
<1> USE DEF IndexInv, QueueInv
<1>1. UNCHANGED <<key, data, indexed, tx, ran>>
  BY DEF QueueStep, indexVars, Start, ReleaseStaleJobs, ClaimJobs, Environment, Shutdown, Crash, ClaimLapses, table
<1>2. CASE Start(w) /\ WorkersMayRun
  <2>1. /\ UNCHANGED <<status, lockedBy, attempts, batch, overruns>>
        /\ pc[w] = "new" /\ pc' = [pc EXCEPT ![w] = "poll"] /\ batch[w] = {}
    BY <1>2 DEF Start, table, budget, IInv, CopiesOnlyInBatch
  <2>2. IndexTypes' /\ RowsAreKeyed' /\ HeldIsClaimed' /\ RanIsCurrent'
    BY <1>1, <2>1 DEF IndexTypes, RowsAreKeyed, HeldIsClaimed, RanIsCurrent
  <2>3. TurnsAreKept' /\ RanIsHeld'
    BY <1>1, <1>2, <2>1 DEF TurnsAreKept, RanIsHeld, Live, WorkersMayRun, IInv, TypeOK
  <2>4. SignalsStand'
    BY <1>1, <2>1 DEF SignalsStand, Signalled
  <2> QED
    BY <2>2, <2>3, <2>4
<1>3. CASE ReleaseStaleJobs(w)
  <2>1. /\ UNCHANGED <<attempts, batch, overruns>>
        /\ pc[w] = "poll" /\ pc' = [pc EXCEPT ![w] = "claim"]
        /\ \A j \in Jobs : UNCHANGED <<status[j], lockedBy[j]>> \/ (status[j] = "running" /\ status'[j] = "pending" /\ j \in stale)
    BY <1>3 DEF ReleaseStaleJobs, StaleJobs, budget
  <2>2. IndexTypes' /\ RowsAreKeyed' /\ RanIsCurrent'
    BY <1>1, <2>1 DEF IndexTypes, RowsAreKeyed, RanIsCurrent
  <2>3. TurnsAreKept' /\ RanIsHeld'
    BY <1>1, <2>1 DEF TurnsAreKept, RanIsHeld, Live, IInv, TypeOK
  <2>4. HeldIsClaimed'
    <3> SUFFICES ASSUME NEW v \in Workers, NEW c \in batch[v] PROVE UNCHANGED <<status[c.id], lockedBy[c.id]>>
      BY <2>1 DEF HeldIsClaimed
    <3>1. pc[v] = "batch" /\ Live(v) /\ c.id \in Jobs
      BY HeldShape
    <3>2. c.id \notin stale \/ Serial
      BY JobQueueAssumption DEF Exclusive, IInv, TypeOK, IndexTypes, CopiesAreCurrent
    <3>3. ~Serial
      BY <2>1, <3>1 DEF TurnsAreKept, Live
    <3> QED
      BY <2>1, <3>1, <3>2, <3>3
  <2>5. SignalsStand'
    BY <1>1, <2>1 DEF SignalsStand, Signalled, ActiveStatus
  <2> QED
    BY <2>2, <2>3, <2>4, <2>5
<1>4. CASE ClaimJobs(w)
  <2>1. PICK picked \in Claimable :
          /\ status' = [j \in Jobs |-> IF j \in picked THEN "running" ELSE status[j]]
          /\ lockedBy' = [j \in Jobs |-> IF j \in picked THEN w ELSE lockedBy[j]]
          /\ attempts' = [j \in Jobs |-> IF j \in picked THEN attempts[j] + 1 ELSE attempts[j]]
          /\ batch' = [batch EXCEPT ![w] = {[id |-> j, attempts |-> attempts[j] + 1] : j \in picked}]
          /\ pc' = [pc EXCEPT ![w] = IF picked # {} THEN "batch"
                                     ELSE IF w \in OnceWorkers THEN "exited" ELSE "poll"]
    BY <1>4 DEF ClaimJobs, NextAttempt
  <2>2. picked \subseteq Jobs /\ \A j \in picked : status[j] = "pending"
    BY ClaimablePending DEF IInv
  <2>3. pc[w] = "claim" /\ batch[w] = {} /\ overruns' = overruns
    BY <1>4 DEF ClaimJobs, budget, IInv, CopiesOnlyInBatch
  <2>4. \A p \in ran : p[1] # w
    BY <2>3 DEF RanIsHeld, Live
  <2>5. IndexTypes' /\ RowsAreKeyed'
    BY <1>1, <2>1, <2>2, <2>3 DEF IndexTypes, RowsAreKeyed
  <2>6. TurnsAreKept'
    BY <1>1, <2>1, <2>3 DEF TurnsAreKept, Live, IInv, TypeOK
  <2>7. RanIsHeld'
    BY <1>1, <2>1, <2>3, <2>4 DEF RanIsHeld, Live, IInv, TypeOK, IndexTypes
  <2>8. RanIsCurrent'
    BY <1>1, <2>1, <2>4 DEF RanIsCurrent, IInv, TypeOK
  <2>9. HeldIsClaimed'
    <3> SUFFICES ASSUME NEW v \in Workers, NEW c \in batch'[v]
                 PROVE  status'[c.id] = "running" /\ lockedBy'[c.id] = v /\ attempts'[c.id] = c.attempts
      BY DEF HeldIsClaimed
    <3>1. CASE v = w
      BY <2>1, <2>2, <3>1 DEF IInv, TypeOK
    <3>2. CASE v # w
      <4>1. c \in batch[v]
        BY <2>1, <3>2 DEF IInv, TypeOK
      <4>2. c.id \in Jobs /\ status[c.id] = "running"
        BY <4>1, HeldShape
      <4> QED
        BY <2>1, <2>2, <4>1, <4>2 DEF HeldIsClaimed
    <3> QED
      BY <3>1, <3>2
  <2>10. SignalsStand'
    BY <1>1, <2>1, <2>2 DEF SignalsStand, Signalled, ActiveStatus
  <2> QED
    BY <2>5, <2>6, <2>7, <2>8, <2>9, <2>10
<1>5. CASE Shutdown(w) \/ Crash(w)
  <2>1. /\ UNCHANGED <<status, lockedBy, attempts, overruns>>
        /\ \E at \in {"exited", "crashed"} : pc' = [pc EXCEPT ![w] = at]
        /\ batch' \in {batch, [batch EXCEPT ![w] = {}]} /\ Live(w)
    BY <1>5 DEF Shutdown, Crash, Dies, table, budget, Live
  <2>2. IndexTypes' /\ RowsAreKeyed'
    BY <1>1, <2>1 DEF IndexTypes, RowsAreKeyed
  <2>3. TurnsAreKept' /\ RanIsHeld'
    BY <1>1, <2>1 DEF TurnsAreKept, RanIsHeld, Live, IInv, TypeOK, IndexTypes
  <2>4. HeldIsClaimed' /\ RanIsCurrent'
    BY <1>1, <2>1 DEF HeldIsClaimed, RanIsCurrent, IInv, TypeOK
  <2>5. SignalsStand'
    BY <1>1, <2>1 DEF SignalsStand, Signalled
  <2> QED
    BY <2>2, <2>3, <2>4, <2>5
<1>6. CASE ClaimLapses(w)
  <2>1. UNCHANGED <<status, lockedBy, attempts, pc, batch>>
    BY <1>6 DEF ClaimLapses, processes
  <2>2. IndexTypes'
    BY <1>1, <1>6, <2>1, JobQueueAssumption DEF IndexTypes, ClaimLapses, IInv, TypeOK
  <2> QED
    BY <1>1, <2>1, <2>2 DEF RowsAreKeyed, TurnsAreKept, RanIsHeld, HeldIsClaimed, RanIsCurrent, SignalsStand,
       Signalled, Live
<1> QED
  BY <1>2, <1>3, <1>4, <1>5, <1>6 DEF QueueStep, Environment

\* The handler of the search index reads and writes in one statement.
LEMMA RunHandlerStep ==
    ASSUME IndexInv, IInv', NEW w \in Workers, NEW c \in batch[w], RunHandler(w, c)
    PROVE  IndexInv'
<1> USE DEF IndexInv, QueueInv
<1>1. /\ UNCHANGED <<status, key, attempts, lockedBy, pc, batch, overruns, data, tx>>
      /\ c \in Copy /\ key[c.id] \in Keys /\ pc[w] = "batch"
      /\ indexed' = [indexed EXCEPT ![key[c.id]] = data[key[c.id]]]
      /\ ran' = ran \cup {<<w, c>>}
  BY HeldShape DEF RunHandler, vars, table, processes, budget
<1>2. IndexTypes'
  BY <1>1 DEF IndexTypes
<1>3. RowsAreKeyed' /\ TurnsAreKept' /\ HeldIsClaimed' /\ RanIsHeld' /\ SignalsStand'
  BY <1>1 DEF RowsAreKeyed, TurnsAreKept, HeldIsClaimed, RanIsHeld, SignalsStand, Signalled, Live
<1>4. RanIsCurrent'
  BY <1>1 DEF RanIsCurrent, IndexTypes
<1> QED
  BY <1>2, <1>3, <1>4

\* The end of a job: whatever becomes of the row, no one else holds it.
LEMMA HandledStep ==
    ASSUME IndexInv, IInv', NEW w \in Workers, NEW c \in batch[w], Finish(w, c) \/ GiveBack(w, c)
    PROVE  IndexInv'
<1> USE DEF IndexInv, QueueInv
<1>1. /\ UNCHANGED <<key, attempts, overruns, data, indexed, tx>>
      /\ c.id \in Jobs /\ pc[w] = "batch"
      /\ \A d : d \in batch'[w] => d \in batch[w] /\ d # c
      /\ \A v \in Workers \ {w} : batch'[v] = batch[v]
      /\ \A j \in Jobs \ {c.id} : UNCHANGED <<status[j], lockedBy[j]>>
      /\ \E at \in {"poll", "batch", "crashed"} : /\ pc' = [pc EXCEPT ![w] = at]
                                                  /\ at # "crashed" => batch' = [batch EXCEPT ![w] = @ \ {c}]
      /\ ran' = ran \ {<<w, c>>}
  BY HeldShape DEF Finish, GiveBack, CompleteJob, FailJob, Handled, Dies, budget, IInv, TypeOK
<1>2. IndexTypes' /\ TurnsAreKept'
  BY <1>1 DEF IndexTypes, TurnsAreKept, Live, IInv, TypeOK
<1>3. RowsAreKeyed'
  BY <1>1, HeldShape DEF RowsAreKeyed
<1>4. HeldIsClaimed'
  <2> SUFFICES ASSUME NEW v \in Workers, NEW d \in batch'[v] PROVE UNCHANGED <<status[d.id], lockedBy[d.id]>> /\ d \in batch[v]
    BY <1>1 DEF HeldIsClaimed
  <2>1. d \in batch[v] /\ ~(v = w /\ d = c)
    BY <1>1
  <2>2. d.id \in Jobs /\ d.id # c.id
    BY <2>1, HeldShape, OneHolder
  <2> QED
    BY <1>1, <2>1, <2>2
<1>5. RanIsHeld' /\ RanIsCurrent'
  BY <1>1 DEF RanIsHeld, RanIsCurrent, Live, IInv, TypeOK, IndexTypes
<1>6. SignalsStand'
  BY <1>1 DEF SignalsStand, TurnsAreKept, Live
<1> QED
  BY <1>2, <1>3, <1>4, <1>5, <1>6

\* The writers, the queue and the handlers of the index keep the invariant.
LEMMA IndexStep ==
    ASSUME IndexInv, Exclusive, [IndexNext]_allVars
    PROVE  IndexInv'
<1>1. IInv'
  BY QueueTakesItsSteps, InductiveStep DEF IndexInv, QueueInv
<1>2. ASSUME NEW j \in Jobs, BackoffEnds(j), UNCHANGED indexVars PROVE IndexInv'
  BY <1>1, <1>2 DEF BackoffEnds, indexVars, processes, budget, IndexInv, QueueInv, IndexTypes, RowsAreKeyed,
     TurnsAreKept, HeldIsClaimed, RanIsHeld, RanIsCurrent, SignalsStand, Signalled, Live
<1>3. CASE UNCHANGED allVars
  BY <1>1, <1>3 DEF allVars, indexVars, vars, table, processes, budget, IndexInv, QueueInv, IndexTypes, RowsAreKeyed,
     TurnsAreKept, HeldIsClaimed, RanIsHeld, RanIsCurrent, SignalsStand, Signalled, Live
<1> QED
  BY <1>1, <1>2, <1>3, WriterStep, CommitStep, QueueStepStep, RunHandlerStep, HandledStep DEF IndexNext

\* It holds of the empty queue.
LEMMA IndexInitially == IndexInit => IndexInv
<1> SUFFICES ASSUME IndexInit PROVE IndexInv
  OBVIOUS
<1> USE DEF IndexInit, Init, Idle
<1>1. IInv
  BY InductiveInit
<1>2. IndexTypes
  BY SearchIndexAssumption, JobQueueAssumption DEF IndexTypes
<1>3. RowsAreKeyed /\ TurnsAreKept /\ HeldIsClaimed /\ RanIsHeld /\ RanIsCurrent /\ SignalsStand
  BY DEF RowsAreKeyed, TurnsAreKept, HeldIsClaimed, RanIsHeld, RanIsCurrent, SignalsStand, Live
<1> QED
  BY <1>1, <1>2, <1>3 DEF IndexInv, QueueInv

-----------------------------------------------------------------------------
(* The refinement of ChangeSignals, step by step.                          *)

Owing == {"pending", "running", "dead"}

\* What is owed depends on which rows are neither absent nor succeeded.
LEMMA OwedKept ==
    ASSUME TypeOK, TypeOK', UNCHANGED key, \A j \in Jobs : status[j] \in Owing <=> status'[j] \in Owing
    PROVE  UNCHANGED Owed
BY DEF Owed, Owing

\* What a live process holds is still owed.
LEMMA HeldIsOwed ==
    ASSUME QueueInv, NEW w \in Workers, NEW c \in batch[w]
    PROVE  key[c.id] \in Owed
BY HeldShape DEF Owed

\* A commit is a change with its signal: a row of its own, or one that is still active.
LEMMA CommitIsChange ==
    ASSUME Serial, IndexInv, NEW t \in Writers, Commit(t)
    PROVE  Signals!Next
<1> DEFINE k == tx[t].key
<1> USE DEF IndexInv, QueueInv
<1>1. k \in Keys /\ tx[t].open /\ data' = [data EXCEPT ![k] = @ + 1] /\ indexed' = indexed
  BY DEF Commit, IndexTypes
<1>2. Owed' = Owed \cup {k}
  <2>1. CASE tx[t].job = NoJob
    <3>1. UNCHANGED <<status, key>>
      BY <2>1 DEF Commit, vars, table
    <3>2. k \in Owed
      BY <1>1, <2>1 DEF SignalsStand, Signalled, ActiveStatus, Owed
    <3> QED
      BY <3>1, <3>2 DEF Owed
  <2>2. CASE tx[t].job # NoJob
    <3>1. PICK j \in Jobs : /\ status[j] = "absent" /\ status' = [status EXCEPT ![j] = "pending"]
                            /\ key' = [key EXCEPT ![j] = k]
      BY <2>2 DEF Commit, EnqueueJob, IndexTypes
    <3> QED
      BY <1>1, <3>1 DEF Owed, IInv, TypeOK
  <2> QED
    BY <2>1, <2>2
<1> QED
  BY <1>1, <1>2 DEF Signals!Next, Signals!Change

\* The return of a job clears the debt, or leaves it to another row of the same entity.
LEMMA FinishIsSettle ==
    ASSUME Serial, IndexInv, NEW w \in Workers, NEW c \in batch[w], Finish(w, c)
    PROVE  [Signals!Next]_(Signals!vars)
<1> DEFINE k == key[c.id]
<1> USE DEF IndexInv, QueueInv
<1>1. k \in Keys /\ c.id \in Jobs /\ k \in Owed /\ indexed[k] = data[k]
  BY HeldShape, HeldIsOwed DEF Finish, RanIsCurrent
<1>2. UNCHANGED <<key, data, indexed>> /\ status' = [status EXCEPT ![c.id] = "succeeded"]
  BY DEF Finish, CompleteJob
<1>3. Owed' = Owed \/ Owed' = Owed \ {k}
  BY <1>1, <1>2 DEF Owed, IInv, TypeOK
<1> QED
  BY <1>1, <1>2, <1>3 DEF Signals!Next, Signals!Settle, Signals!vars

\* Every step of the writers, the queue and the handlers of the index is a step of ChangeSignals,
\* or none.
LEMMA IndexStepImplements ==
    ASSUME Serial, IndexInv, [IndexNext]_allVars
    PROVE  [Signals!Next]_(Signals!vars)
<1> USE DEF IndexInv, QueueInv
<1>0. TypeOK /\ TypeOK'
  BY QueueTakesItsSteps, TypeStep DEF IInv
<1>1. ASSUME NEW t \in Writers, Rollback(t) \/ \E k \in Keys : ChangeEntity(t, k)
      PROVE  UNCHANGED Signals!vars
  BY <1>1 DEF Rollback, ChangeEntity, vars, table, Owed, Signals!vars
<1>2. ASSUME NEW w \in Workers, QueueStep(w) PROVE UNCHANGED Signals!vars
  <2>1. UNCHANGED <<key, data, indexed>>
    BY <1>2 DEF QueueStep, indexVars, Start, ReleaseStaleJobs, ClaimJobs, Environment, Shutdown, Crash, ClaimLapses, table
  <2>2. \A j \in Jobs : status[j] \in Owing <=> status'[j] \in Owing
    <3>1. CASE ReleaseStaleJobs(w)
      BY <3>1 DEF ReleaseStaleJobs, StaleJobs, Owing
    <3>2. CASE ClaimJobs(w)
      BY <1>0, <3>2, ClaimablePending DEF ClaimJobs, Owing
    <3>3. CASE Start(w) \/ Environment(w)
      BY <3>3 DEF Start, Environment, Shutdown, Crash, ClaimLapses, table
    <3> QED
      BY <1>2, <3>1, <3>2, <3>3 DEF QueueStep
  <2> QED
    BY <1>0, <2>1, <2>2, OwedKept DEF Signals!vars
<1>3. ASSUME NEW w \in Workers, NEW c \in batch[w], RunHandler(w, c) PROVE Signals!Next
  <2>1. UNCHANGED Owed /\ key[c.id] \in Owed /\ key[c.id] \in Keys
    BY <1>3, HeldIsOwed, HeldShape DEF RunHandler, vars, table, Owed
  <2> QED
    BY <1>3, <2>1 DEF RunHandler, Signals!Next, Signals!Refresh
<1>4. ASSUME NEW w \in Workers, NEW c \in batch[w], GiveBack(w, c) PROVE UNCHANGED Signals!vars
  <2>1. status[c.id] = "running" /\ c.id \in Jobs
    BY HeldShape
  <2>2. UNCHANGED <<key, data, indexed>> /\ \A j \in Jobs : status[j] \in Owing <=> status'[j] \in Owing
    BY <1>0, <1>4, <2>1 DEF GiveBack, FailJob, FailedStatus, Owing, TypeOK
  <2> QED
    BY <1>0, <2>2, OwedKept DEF Signals!vars
<1>5. ASSUME NEW j \in Jobs, BackoffEnds(j), UNCHANGED indexVars PROVE UNCHANGED Signals!vars
  BY <1>5 DEF BackoffEnds, indexVars, Owed, Signals!vars
<1>6. CASE UNCHANGED allVars
  BY <1>6 DEF allVars, indexVars, vars, table, Owed, Signals!vars
<1> QED
  BY <1>1, <1>2, <1>3, <1>4, <1>5, <1>6, CommitIsChange, FinishIsSettle DEF IndexNext

\* The empty queue owes nothing.
LEMMA InitImplements == IndexInit => Signals!Init
BY DEF IndexInit, Init, Owed, Signals!Init

\* The search index of a process that ingests and then works implements ChangeSignals: changes commit with
\* their signals, and no debt is cleared before the latest change has been read (pipeline.ts, jobs.ts, main.ts).
THEOREM IndexImplementsChangeSignals == ASSUME Serial PROVE IndexSpec => ImplementsChangeSignals
<1>1. IndexInv /\ [IndexNext]_allVars => IndexInv'
  BY IndexStep DEF Exclusive
<1>2. IndexInv /\ [IndexNext]_allVars => [Signals!Next]_(Signals!vars)
  BY IndexStepImplements
<1> QED
  BY <1>1, <1>2, IndexInitially, InitImplements, PTL DEF IndexSpec, ImplementsChangeSignals, Signals!Spec

-----------------------------------------------------------------------------
(* Enrichment beside the index.                                            *)

\* Two calls for one entity are one call.
LEMMA OneCallPerEntity ==
    ASSUME QueueInv, EnrichTypes, CallsAreHeld, OneCallEach, NEW x \in writing, NEW y \in writing,
           key[x.copy.id] = key[y.copy.id]
    PROVE  x = y
<1>1. x.by \in Workers /\ y.by \in Workers /\ x.copy \in batch[x.by] /\ y.copy \in batch[y.by]
  BY DEF EnrichTypes, CallRecord, CallsAreHeld
<1>2. x.by = y.by /\ x.copy = y.copy
  BY <1>1, OneHolder
<1> QED
  BY <1>2 DEF OneCallEach

\* A step of a call leaves the rows, the processes, the entities and the transactions alone.
LEMMA CallStepIndex ==
    ASSUME EnrichInv, NEW w \in Workers, NEW c \in batch[w], NEW k, k = key[c.id], k \in Subjects,
           UNCHANGED <<vars, data, tx>>,
           \/ UNCHANGED <<indexed, ran>>
           \/ \E v \in 0 .. MaxEdits : /\ indexed' = [indexed EXCEPT ![k] = v] /\ ran' = ran \cup {<<w, c>>}
                                       /\ Serial => v = data[k]
    PROVE  IndexInv'
<1> USE DEF EnrichInv, IndexInv, QueueInv, vars, table, processes, budget
<1>1. c \in Copy /\ k \in Keys /\ pc[w] = "batch"
  BY HeldShape
<1>2. IInv'
  BY DEF IInv, TypeOK, CopiesOnlyInBatch, CopiesAreNotAhead, CopiesAreCurrent, OneActivePerKey, RunningIsHeld,
     AttemptHasOneHolder, DeadIsExhausted
<1>3. IndexTypes'
  BY <1>1 DEF IndexTypes
<1>4. RowsAreKeyed' /\ TurnsAreKept' /\ HeldIsClaimed' /\ RanIsHeld' /\ SignalsStand'
  BY <1>1 DEF RowsAreKeyed, TurnsAreKept, HeldIsClaimed, RanIsHeld, SignalsStand, Signalled, Live
<1>5. RanIsCurrent'
  <2> SUFFICES ASSUME NEW u \in Workers, NEW d \in batch[u], Serial, <<u, d>> \in ran'
               PROVE  indexed'[key[d.id]] = data[key[d.id]]
    BY DEF RanIsCurrent
  <2>1. indexed \in [Keys -> 0 .. MaxEdits]
    BY DEF IndexTypes
  <2>2. CASE key[d.id] = k
    <3>1. CASE UNCHANGED <<indexed, ran>>
      BY <3>1 DEF RanIsCurrent
    <3>2. CASE indexed' # indexed \/ ran' # ran
      BY <1>1, <2>1, <2>2, <3>2
    <3> QED
      BY <3>1, <3>2
  <2>3. CASE key[d.id] # k
    <3>1. <<u, d>> \in ran /\ indexed'[key[d.id]] = indexed[key[d.id]]
      BY <2>1, <2>3, HeldShape
    <3> QED
      BY <3>1 DEF RanIsCurrent
  <2> QED
    BY <2>2, <2>3
<1> QED
  BY <1>2, <1>3, <1>4, <1>5

\* loadEnrichmentFacts: a call begins with what is committed.
LEMMA LoadFactsStep ==
    ASSUME EnrichInv, NEW w \in Workers, NEW c \in batch[w], LoadFacts(w, c)
    PROVE  EnrichInv'
<1> DEFINE x == [by |-> w, copy |-> c, version |-> data[key[c.id]], at |-> "loaded", old |-> {}]
<1> USE DEF EnrichInv
<1>1. /\ writing' = writing \cup {x} /\ Call(w, c) = {} /\ <<w, c>> \notin ran /\ key[c.id] \in Subjects
      /\ UNCHANGED <<vars, indexVars, texts, key, batch, data, indexed, ran>>
  BY DEF LoadFacts, Enriches, vars, table, processes, indexVars
<1>2. c \in Copy /\ key[c.id] \in Keys
  BY HeldShape DEF IndexInv
<1>3. IndexInv'
  BY <1>1, CallStepIndex DEF indexVars
<1>4. EnrichTypes'
  BY <1>1, <1>2 DEF EnrichTypes, CallRecord, IndexInv, QueueInv, IndexTypes
<1>5. CallsAreHeld' /\ CallsAreFresh'
  BY <1>1 DEF CallsAreHeld, CallsAreFresh
<1>8. OneCallEach'
  <2>1. \A y \in writing : ~(y.by = w /\ y.copy = c)
    BY <1>1 DEF Call
  <2> QED
    BY <1>1, <2>1 DEF OneCallEach
<1>6. CallsAreNeeded'
  BY <1>1 DEF CallsAreNeeded, UpToDate, Current, Input
<1>7. OneCurrentText' /\ NeverGeneratedTwice'
  BY <1>1 DEF OneCurrentText, NeverGeneratedTwice, Current
<1> QED
  BY <1>3, <1>4, <1>5, <1>6, <1>7, <1>8

\* generate, and the update that supersedes: the call moves on, nothing else does.
LEMMA ProceedStep ==
    ASSUME EnrichInv, NEW w \in Workers, NEW c \in batch[w], Generate(w, c) \/ Supersede(w, c)
    PROVE  EnrichInv'
<1> USE DEF EnrichInv
<1>1. /\ UNCHANGED <<vars, indexVars, texts, key, batch, data, indexed, ran, tx>>
      /\ key[c.id] \in Subjects
  BY DEF Generate, Supersede, Enriches, vars, table, processes, indexVars
<1>2. PICK x \in Call(w, c), y \in CallRecord :
        /\ Proceeds(x, y) /\ y.by = x.by /\ y.copy = x.copy /\ y.version = x.version
        /\ ~UpToDate(key[x.copy.id], Input(x))
        /\ y.at = "superseding" => y.old = Current(key[x.copy.id])
  <2>1. CASE Generate(w, c)
    <3>1. PICK x \in Call(w, c) : /\ x.at = "loaded" /\ ~UpToDate(key[c.id], Input(x))
                                  /\ Proceeds(x, [x EXCEPT !.at = "generated"])
      BY <2>1 DEF Generate
    <3> DEFINE y == [x EXCEPT !.at = "generated"]
    <3>2. x \in CallRecord /\ x.copy = c
      BY DEF Call, EnrichTypes
    <3>3. /\ y \in CallRecord /\ y.by = x.by /\ y.copy = x.copy /\ y.version = x.version
          /\ y.at = "generated" /\ Proceeds(x, y)
      BY <3>1, <3>2 DEF CallRecord
    <3> HIDE DEF y
    <3> QED
      BY <3>1, <3>2, <3>3
  <2>2. CASE Supersede(w, c)
    <3>1. PICK x \in Call(w, c) :
             /\ x.at = "generated"
             /\ Proceeds(x, [x EXCEPT !.at = "superseding", !.old = Current(key[c.id])])
      BY <2>2 DEF Supersede
    <3> DEFINE y == [x EXCEPT !.at = "superseding", !.old = Current(key[c.id])]
    <3>2. x \in CallRecord /\ x.copy = c /\ x \in writing
      BY DEF Call, EnrichTypes
    <3>3. Current(key[c.id]) \in SUBSET Nat
      BY <1>1 DEF Current, EnrichTypes, Texts
    <3>4. ~UpToDate(key[c.id], Input(x))
      BY <3>1, <3>2 DEF CallsAreNeeded
    <3>5. /\ y \in CallRecord /\ y.by = x.by /\ y.copy = x.copy /\ y.version = x.version
          /\ y.old = Current(key[c.id]) /\ Proceeds(x, y)
      BY <3>1, <3>2, <3>3 DEF CallRecord
    <3> HIDE DEF y
    <3> QED
      BY <3>1, <3>2, <3>4, <3>5
  <2> QED
    BY <2>1, <2>2
<1>3. x \in writing /\ writing' = (writing \ {x}) \cup {y} /\ UNCHANGED <<key, batch, data, ran, texts>>
  BY <1>1, <1>2 DEF Call, Proceeds
<1>4. IndexInv'
  BY <1>1, CallStepIndex
<1>5. EnrichTypes'
  BY <1>2, <1>3 DEF EnrichTypes
<1>6. CallsAreHeld' /\ CallsAreFresh'
  BY <1>2, <1>3 DEF CallsAreHeld, CallsAreFresh
<1>7. OneCallEach'
  BY <1>2, <1>3 DEF OneCallEach
<1>8. CallsAreNeeded'
  <2> SUFFICES ASSUME NEW z \in writing'
               PROVE  /\ z.at \in {"generated", "superseding"} => ~UpToDate(key[z.copy.id], Input(z))'
                      /\ z.at = "superseding" => z.old = Current(key[z.copy.id])'
    BY DEF CallsAreNeeded
  <2>1. /\ UpToDate(key[z.copy.id], Input(z))' <=> UpToDate(key[z.copy.id], Input(z))
        /\ Current(key[z.copy.id])' = Current(key[z.copy.id])
    BY <1>3 DEF UpToDate, Current, Input
  <2>2. CASE z = y
    BY <1>2, <2>1, <2>2 DEF Input, UpToDate
  <2>3. CASE z \in writing
    BY <2>1, <2>3 DEF CallsAreNeeded
  <2> QED
    BY <1>3, <2>2, <2>3
<1>9. OneCurrentText' /\ NeverGeneratedTwice'
  BY <1>1 DEF OneCurrentText, NeverGeneratedTwice, Current
<1> QED
  BY <1>4, <1>5, <1>6, <1>7, <1>8, <1>9

\* When a run returns its call is gone, and the other calls are about other entities.
LEMMA ReturnStep ==
    ASSUME EnrichInv, NEW w \in Workers, NEW c \in batch[w], NEW x \in Call(w, c), key[c.id] \in Subjects,
           Returns(w, c, x), \A k \in Subjects \ {key[c.id]} : texts'[k] = texts[k]
    PROVE  /\ IndexInv' /\ CallsAreHeld' /\ OneCallEach' /\ CallsAreFresh' /\ CallsAreNeeded'
           /\ writing' = writing \ {x}
<1> USE DEF EnrichInv
<1>1. /\ x \in writing /\ x.by = w /\ x.copy = c /\ x.version \in 0 .. MaxEdits
      /\ writing' = writing \ {x} /\ ran' = ran \cup {<<w, c>>}
      /\ indexed' = [indexed EXCEPT ![key[c.id]] = x.version]
      /\ UNCHANGED <<vars, data, tx, key, batch>>
  BY DEF Call, EnrichTypes, CallRecord, Returns, vars, table, processes
<1>2. IndexInv'
  BY <1>1, CallStepIndex DEF CallsAreFresh
<1>3. CallsAreHeld'
  <2>1. \A y \in writing \ {x} : ~(y.by = w /\ y.copy = c)
    BY <1>1 DEF OneCallEach
  <2> QED
    BY <1>1, <2>1 DEF CallsAreHeld
<1>4. OneCallEach' /\ CallsAreFresh'
  BY <1>1 DEF OneCallEach, CallsAreFresh
<1>5. CallsAreNeeded'
  <2>1. \A y \in writing' : key[y.copy.id] \in Subjects \ {key[c.id]}
    BY <1>1, OneCallPerEntity DEF CallsAreHeld, IndexInv
  <2> QED
    BY <1>1, <2>1 DEF CallsAreNeeded, UpToDate, Current, Input
<1> QED
  BY <1>1, <1>2, <1>3, <1>4, <1>5

\* An unchanged run: the current text is of the input it has read.
LEMMA UnchangedStep ==
    ASSUME EnrichInv, NEW w \in Workers, NEW c \in batch[w], Unchanged(w, c)
    PROVE  EnrichInv'
<1> DEFINE k == key[c.id]
<1> USE DEF EnrichInv
<1>1. PICK x \in Call(w, c) : x.at = "loaded" /\ UpToDate(k, Input(x)) /\ Returns(w, c, x)
  BY DEF Unchanged
<1>2. k \in Subjects /\ UNCHANGED texts
  BY DEF Unchanged, Enriches
<1>3. /\ IndexInv' /\ CallsAreHeld' /\ OneCallEach' /\ CallsAreFresh' /\ CallsAreNeeded'
      /\ writing' = writing \ {x}
  BY <1>1, <1>2, ReturnStep
<1>4. EnrichTypes' /\ NeverGeneratedTwice'
  BY <1>2, <1>3 DEF EnrichTypes, NeverGeneratedTwice
<1>5. OneCurrentText'
  <2>1. indexed' = [indexed EXCEPT ![k] = x.version] /\ indexed \in [Keys -> 0 .. MaxEdits] /\ k \in Keys
    BY <1>1, HeldShape DEF Returns, IndexInv, QueueInv, IndexTypes
  <2>2. Subjects \subseteq Keys
    BY EnrichmentAssumption
  <2>3. texts[k] # <<>> => texts[k][Len(texts[k])].input = InputOf[x.version]
    BY <1>1, <1>2 DEF UpToDate, Input, OneCurrentText
  <2> QED
    BY <1>2, <2>1, <2>2, <2>3 DEF OneCurrentText, Current
<1> QED
  BY <1>3, <1>4, <1>5

\* A text of a list is a row of the table, and the list has as many as its length.
LEMMA TextsShape ==
    ASSUME NEW rows \in Texts
    PROVE  /\ Len(rows) \in Nat /\ DOMAIN rows = 1 .. Len(rows)
           /\ \A i \in 1 .. Len(rows) : rows[i] \in TextRow
<1> HIDE DEF TextRow
<1> QED
  BY LenProperties, ElementOfSeq DEF Texts

\* The texts `rows` with a new one, which replaces the others.
Replaced(rows, text, after) ==
    /\ after \in Texts /\ Len(after) = Len(rows) + 1 /\ after[Len(after)] = text
    /\ \A i \in 1 .. Len(rows) : after[i].input = rows[i].input /\ after[i].superseded

AreCurrent(rows, old) == \A i \in DOMAIN rows : i \in old <=> ~rows[i].superseded

\* What the transaction leaves of the texts: the new one is current, and alone.
LEMMA StoredText ==
    ASSUME NEW rows \in Texts, NEW text \in TextRow, ~text.superseded, NEW old, AreCurrent(rows, old)
    PROVE  Replaced(rows, text, Append(Superseded(rows, old), text))
<1> DEFINE left == Superseded(rows, old)
<1>1. /\ Len(rows) \in Nat /\ DOMAIN rows = 1 .. Len(rows)
      /\ \A i \in 1 .. Len(rows) : rows[i] \in TextRow
  BY TextsShape
<1>2. left \in [1 .. Len(rows) -> TextRow]
  BY <1>1 DEF Superseded, TextRow
<1>3. \A i \in 1 .. Len(rows) : left[i].input = rows[i].input /\ left[i].superseded
  BY <1>1 DEF Superseded, TextRow, AreCurrent
<1> HIDE DEF left, TextRow
<1>4. left \in Texts /\ Len(left) = Len(rows)
  BY <1>1, <1>2, SeqDef DEF Texts
<1>5. /\ Append(left, text) \in Texts /\ Len(Append(left, text)) = Len(rows) + 1
      /\ Append(left, text)[Len(rows) + 1] = text
      /\ \A i \in 1 .. Len(rows) : Append(left, text)[i] = left[i]
  BY <1>4, AppendProperties DEF Texts
<1> QED
  BY <1>1, <1>3, <1>5 DEF left, Replaced

\* The insert, and the commit: the text follows one of another input, and replaces it.
LEMMA StoreTextStep ==
    ASSUME EnrichInv, NEW w \in Workers, NEW c \in batch[w], StoreText(w, c)
    PROVE  EnrichInv'
<1> DEFINE k == key[c.id]
           rows == texts[k]
           after == texts'[k]
<1> USE DEF EnrichInv
<1>1. PICK x \in Call(w, c) :
        /\ x.at = "superseding" /\ Returns(w, c, x)
        /\ texts' = [texts EXCEPT ![k] = Append(Superseded(@, x.old), [input |-> Input(x), superseded |-> FALSE])]
  BY DEF StoreText
<1>2. k \in Subjects /\ k \in Keys /\ texts \in [Subjects -> Texts]
  BY EnrichmentAssumption DEF StoreText, Enriches, EnrichTypes
<1>3. /\ IndexInv' /\ CallsAreHeld' /\ OneCallEach' /\ CallsAreFresh' /\ CallsAreNeeded'
      /\ writing' = writing \ {x}
  BY <1>1, <1>2, ReturnStep
<1>4. /\ x.old = Current(k) /\ ~UpToDate(k, Input(x))
      /\ Input(x) \in Inputs /\ Input(x) = InputOf[x.version]
  BY <1>1 DEF Call, CallsAreNeeded, EnrichTypes, CallRecord, Input, Inputs
<1>5. /\ after \in Texts /\ Len(after) = Len(rows) + 1
      /\ after[Len(after)] = [input |-> Input(x), superseded |-> FALSE]
      /\ \A i \in 1 .. Len(rows) : after[i].input = rows[i].input /\ after[i].superseded
  <2> DEFINE text == [input |-> Input(x), superseded |-> FALSE]
  <2>1. rows \in Texts /\ text \in TextRow /\ ~text.superseded
    BY <1>2, <1>4 DEF TextRow
  <2>2. AreCurrent(rows, x.old)
    BY <1>4 DEF Current, AreCurrent
  <2>3. after = Append(Superseded(rows, x.old), text)
    BY <1>1, <1>2
  <2> HIDE DEF rows, after, text
  <2>4. Replaced(rows, text, after)
    BY <2>1, <2>2, <2>3, StoredText
  <2> QED
    BY <2>4 DEF Replaced, text
<1>6. \A s \in Subjects \ {k} : texts'[s] = texts[s] /\ indexed'[s] = indexed[s]
  BY <1>1, <1>2, EnrichmentAssumption DEF Returns, IndexInv, QueueInv, IndexTypes
<1>7. indexed'[k] = x.version
  BY <1>1, <1>2 DEF Returns, IndexInv, QueueInv, IndexTypes
<1>8. EnrichTypes'
  BY <1>1, <1>2, <1>3, <1>5 DEF EnrichTypes
<1>9. OneCurrentText'
  <2> SUFFICES ASSUME NEW s \in Subjects, texts'[s] # <<>>
               PROVE  /\ Current(s)' = {Len(texts'[s])}
                      /\ texts'[s][Len(texts'[s])].input = InputOf[indexed'[s]]
    BY DEF OneCurrentText
  <2>1. CASE s = k
    <3>1. Len(rows) \in Nat /\ DOMAIN after = 1 .. Len(rows) + 1
      BY <1>2, <1>5, TextsShape
    <3>2. Current(s)' = {i \in 1 .. Len(rows) + 1 : ~after[i].superseded}
      BY <2>1, <3>1 DEF Current
    <3>3. {i \in 1 .. Len(rows) + 1 : ~after[i].superseded} = {Len(rows) + 1}
      BY <1>5, <3>1
    <3>4. texts'[s][Len(texts'[s])].input = InputOf[indexed'[s]] /\ Len(texts'[s]) = Len(rows) + 1
      BY <1>4, <1>5, <1>7, <2>1
    <3> QED
      BY <3>2, <3>3, <3>4
  <2>2. CASE s # k
    BY <1>6, <2>2 DEF OneCurrentText, Current
  <2> QED
    BY <2>1, <2>2
<1>10. NeverGeneratedTwice'
  <2> SUFFICES ASSUME NEW s \in Subjects, NEW i \in 1 .. Len(texts'[s]) - 1
               PROVE  texts'[s][i].input # texts'[s][i + 1].input
    BY DEF NeverGeneratedTwice
  <2>1. CASE s = k
    <3>1. Len(rows) \in Nat /\ i \in 1 .. Len(rows)
      BY <1>2, <1>5, <2>1, TextsShape
    <3>2. CASE i < Len(rows)
      <4>1. rows[i].input # rows[i + 1].input
        BY <1>2, <3>1, <3>2 DEF NeverGeneratedTwice
      <4>2. after[i].input = rows[i].input /\ after[i + 1].input = rows[i + 1].input
        BY <1>5, <3>1, <3>2
      <4> QED
        BY <2>1, <4>1, <4>2
    <3>3. CASE i = Len(rows)
      <4>1. Current(k) = {Len(rows)}
        BY <1>2, <3>1, <3>3 DEF OneCurrentText
      <4>2. rows[Len(rows)].input # Input(x)
        BY <1>4, <4>1 DEF UpToDate
      <4> QED
        BY <1>5, <2>1, <3>1, <3>3, <4>2
    <3> QED
      BY <3>1, <3>2, <3>3
  <2>2. CASE s # k
    BY <1>6, <2>2 DEF NeverGeneratedTwice
  <2> QED
    BY <2>1, <2>2
<1> QED
  BY <1>3, <1>8, <1>9, <1>10

\* A row is given its key once.
LEMMA KeyOfRow ==
    ASSUME TypeOK, [Next]_vars, NEW j \in Jobs, status[j] # "absent"
    PROVE  key'[j] = key[j]
<1>1. ASSUME NEW i \in Jobs, NEW k \in Keys \cup {NoKey}, EnqueueJob(i, k) PROVE key'[j] = key[j]
  BY <1>1 DEF EnqueueJob, TypeOK
<1>2. ASSUME NEW w \in Workers, WorkerStep(w) \/ Environment(w) PROVE key' = key
  BY <1>2 DEF WorkerStep, Environment, Start, ReleaseStaleJobs, ClaimJobs, CompleteJob, FailJob, Shutdown, Crash,
     ClaimLapses, table
<1> QED
  BY <1>1, <1>2 DEF Next, BackoffEnds, vars, table

\* Entities change in the commit of a transaction, and the texts of the index by its handler.
LEMMA IndexStepData ==
    ASSUME IndexInv, IndexNext, NEW k \in Keys
    PROVE  /\ data' = data \/ \E t \in Writers : tx[t].open
           /\ \/ indexed'[k] = indexed[k]
              \/ \E p \in ran' \ ran : key[p[2].id] = k
<1>1. ASSUME NEW w \in Workers, NEW c \in batch[w], RunHandler(w, c)
      PROVE  data' = data /\ (indexed'[k] = indexed[k] \/ \E p \in ran' \ ran : key[p[2].id] = k)
  <2>1. key[c.id] \in Keys /\ indexed \in [Keys -> 0 .. MaxEdits]
    BY HeldShape DEF IndexInv, QueueInv, IndexTypes
  <2> QED
    BY <1>1, <2>1 DEF RunHandler
<1>2. ASSUME NEW t \in Writers, Commit(t) PROVE tx[t].open /\ indexed' = indexed
  BY <1>2 DEF Commit
<1>3. ASSUME NEW w \in Workers, QueueStep(w) PROVE data' = data /\ indexed' = indexed
  BY <1>3 DEF QueueStep, indexVars
<1> QED
  BY <1>1, <1>2, <1>3 DEF IndexNext, Rollback, ChangeEntity, Finish, GiveBack, indexVars

\* Steps elsewhere: they leave the texts alone, and the calls that are still held.
LEMMA ElsewhereStep ==
    ASSUME EnrichInv, Exclusive, Elsewhere
    PROVE  EnrichInv'
<1> USE DEF EnrichInv
<1>1. /\ IndexNext /\ writing' = {x \in writing : x.copy \in batch'[x.by]} /\ UNCHANGED texts
      /\ \A p \in ran' \ ran : key[p[2].id] \notin Subjects
  BY DEF Elsewhere
<1>2. IndexInv'
  BY <1>1, IndexStep
<1>3. \A x \in writing : /\ x.by \in Workers /\ x.copy \in batch[x.by] /\ key[x.copy.id] \in Subjects
                         /\ key'[x.copy.id] = key[x.copy.id] /\ Live(x.by)
  <2> SUFFICES ASSUME NEW x \in writing
               PROVE  /\ x.by \in Workers /\ x.copy \in batch[x.by] /\ key[x.copy.id] \in Subjects
                      /\ key'[x.copy.id] = key[x.copy.id] /\ Live(x.by)
    OBVIOUS
  <2>1. x.by \in Workers /\ x.copy \in batch[x.by] /\ key[x.copy.id] \in Subjects
    BY DEF CallsAreHeld, EnrichTypes, CallRecord
  <2>2. x.copy.id \in Jobs /\ status[x.copy.id] = "running" /\ Live(x.by)
    BY <2>1, HeldShape DEF IndexInv
  <2>3. [Next]_vars
    BY <1>1, QueueTakesItsSteps DEF IndexInv, QueueInv
  <2> QED
    BY <2>1, <2>2, <2>3, KeyOfRow DEF IndexInv, QueueInv, IInv
<1>4. EnrichTypes'
  BY <1>1 DEF EnrichTypes
<1>5. CallsAreHeld'
  <2> SUFFICES ASSUME NEW x \in writing'
               PROVE  /\ x.copy \in batch'[x.by] /\ <<x.by, x.copy>> \notin ran'
                      /\ key'[x.copy.id] \in Subjects
    BY DEF CallsAreHeld
  <2>1. x \in writing /\ x.copy \in batch'[x.by] /\ <<x.by, x.copy>> \notin ran
    BY <1>1 DEF CallsAreHeld
  <2>2. key'[x.copy.id] = key[x.copy.id] /\ key[x.copy.id] \in Subjects
    BY <1>3, <2>1
  <2>3. <<x.by, x.copy>> \notin ran' \ ran
    BY <1>1, <2>2
  <2> QED
    BY <2>1, <2>2, <2>3
<1>6. OneCallEach'
  BY <1>1 DEF OneCallEach
<1>7. CallsAreFresh'
  <2>1. writing # {} /\ Serial => data' = data
    BY <1>1, <1>3, IndexStepData, EnrichmentAssumption DEF IndexInv, QueueInv, TurnsAreKept
  <2> QED
    BY <1>1, <1>3, <2>1 DEF CallsAreFresh
<1>8. CallsAreNeeded'
  BY <1>1, <1>3 DEF CallsAreNeeded, UpToDate, Current, Input
<1>9. OneCurrentText'
  <2>1. \A k \in Subjects : indexed'[k] = indexed[k]
    BY <1>1, IndexStepData, EnrichmentAssumption
  <2> QED
    BY <1>1, <2>1 DEF OneCurrentText, Current
<1>10. NeverGeneratedTwice'
  BY <1>1 DEF NeverGeneratedTwice
<1> QED
  BY <1>2, <1>4, <1>5, <1>6, <1>7, <1>8, <1>9, <1>10

\* Every step of the writers, the queue and both handlers keeps the invariant.
LEMMA EnrichStep == ASSUME Exclusive PROVE EnrichInv /\ [EnrichNext]_everything => EnrichInv'
<1> SUFFICES ASSUME EnrichInv, [EnrichNext]_everything PROVE EnrichInv'
  OBVIOUS
<1>1. CASE UNCHANGED everything
  <2>1. UNCHANGED <<allVars, key, batch, data, indexed, ran, texts, writing>>
    BY <1>1 DEF everything, enrichVars, allVars, vars, table, processes, indexVars
  <2>2. IndexInv'
    BY <2>1, IndexStep DEF EnrichInv
  <2>3. EnrichTypes' /\ CallsAreHeld' /\ OneCallEach' /\ CallsAreFresh'
    BY <2>1 DEF EnrichInv, EnrichTypes, CallsAreHeld, OneCallEach, CallsAreFresh
  <2>4. CallsAreNeeded'
    BY <2>1 DEF EnrichInv, CallsAreNeeded, UpToDate, Current, Input
  <2>5. OneCurrentText' /\ NeverGeneratedTwice'
    BY <2>1 DEF EnrichInv, OneCurrentText, NeverGeneratedTwice, Current
  <2> QED
    BY <2>2, <2>3, <2>4, <2>5 DEF EnrichInv
<1> QED
  BY <1>1, LoadFactsStep, ProceedStep, UnchangedStep, StoreTextStep, ElsewhereStep DEF EnrichNext

\* Before any change there is no text.
LEMMA EnrichInitially == EnrichInit => EnrichInv
<1> SUFFICES ASSUME EnrichInit PROVE EnrichInv
  OBVIOUS
<1> USE DEF EnrichInit
<1>1. IndexInv
  BY IndexInitially
<1>2. EnrichTypes
  BY DEF EnrichTypes, Texts
<1>3. CallsAreHeld /\ OneCallEach /\ CallsAreFresh /\ CallsAreNeeded /\ OneCurrentText /\ NeverGeneratedTwice
  BY DEF CallsAreHeld, OneCallEach, CallsAreFresh, CallsAreNeeded, OneCurrentText, NeverGeneratedTwice
<1> QED
  BY <1>1, <1>2, <1>3 DEF EnrichInv

\* The inductive invariant holds in every reachable state.
THEOREM EnrichInductive == ASSUME Exclusive PROVE EnrichSpec => []EnrichInv
BY EnrichInitially, EnrichStep, PTL DEF EnrichSpec

\* A subject has one current text, the newest, made of the facts the last finished run has read, whatever
\* failed, died or was repeated (runEnrichment; docs/ai-enrichment.md).
THEOREM OneCurrentTextHolds == ASSUME Exclusive PROVE EnrichSpec => []OneCurrentText
<1>1. EnrichInv => OneCurrentText
  BY DEF EnrichInv
<1> QED
  BY <1>1, EnrichInductive, PTL

\* No text follows one of the same input, although jobs are repeated (runEnrichment: "unchanged facts,
\* prompt version and provider never regenerate").
THEOREM NeverGeneratedTwiceHolds == ASSUME Exclusive PROVE EnrichSpec => []NeverGeneratedTwice
<1>1. EnrichInv => NeverGeneratedTwice
  BY DEF EnrichInv
<1> QED
  BY <1>1, EnrichInductive, PTL

\* A call that returns refreshes a text that is owed: with turns, what it has read is still the latest.
LEMMA CallImplements ==
    ASSUME Serial, EnrichInv, NEW w \in Workers, NEW c \in batch[w],
           LoadFacts(w, c) \/ Unchanged(w, c) \/ Generate(w, c) \/ Supersede(w, c) \/ StoreText(w, c)
    PROVE  [Signals!Next]_(Signals!vars)
<1> USE DEF EnrichInv
<1>1. UNCHANGED <<vars, status, key, data>>
  BY DEF LoadFacts, Unchanged, Generate, Supersede, StoreText, Returns, vars, table, indexVars
<1>2. UNCHANGED Owed /\ key[c.id] \in Owed /\ key[c.id] \in Keys
  BY <1>1, HeldIsOwed, HeldShape DEF Owed, IndexInv
<1>3. CASE UNCHANGED indexed
  BY <1>1, <1>2, <1>3 DEF Signals!vars
<1>4. CASE \E x \in Call(w, c) : Returns(w, c, x)
  <2>1. PICK x \in Call(w, c) : Returns(w, c, x)
    BY <1>4
  <2>2. x.version = data[key[c.id]]
    BY DEF Call, CallsAreFresh
  <2> QED
    BY <1>1, <1>2, <2>1, <2>2 DEF Returns, Signals!Next, Signals!Refresh
<1> QED
  BY <1>3, <1>4 DEF LoadFacts, Unchanged, Generate, Supersede, StoreText, indexVars

\* Both kinds of derived text, kept by one queue, implement ChangeSignals when ingestion and the worker loop
\* take turns (main.ts, handlers.ts).
THEOREM EnrichImplementsChangeSignals == ASSUME Serial PROVE EnrichSpec => ImplementsChangeSignals
<1>1. EnrichInv /\ [EnrichNext]_everything => EnrichInv'
  BY EnrichStep DEF Exclusive
<1>2. EnrichInv /\ [EnrichNext]_everything => [Signals!Next]_(Signals!vars)
  <2> SUFFICES ASSUME EnrichInv, [EnrichNext]_everything PROVE [Signals!Next]_(Signals!vars)
    OBVIOUS
  <2>1. CASE Elsewhere \/ UNCHANGED everything
    BY <2>1, IndexStepImplements DEF Elsewhere, everything, EnrichInv
  <2> QED
    BY <2>1, CallImplements DEF EnrichNext
<1>3. EnrichInit => Signals!Init
  BY InitImplements DEF EnrichInit
<1> QED
  BY <1>1, <1>2, <1>3, EnrichInitially, PTL DEF EnrichSpec, ImplementsChangeSignals, Signals!Spec
=============================================================================
