------------------------------ MODULE FeedIngest ------------------------------
(***************************************************************************)
(* The feed adapter (createFeedAdapter in                                  *)
(* packages/ingestion/src/adapters/feed.ts) inside runAdapter: conditional *)
(* requests, the stored validators, the `last-run` window and the limit,   *)
(* over runs that succeed, fail or die at any point.                       *)
(*                                                                         *)
(* The entries of a feed are numbered as they appear; its document is all  *)
(* of them, and its ETag is their number, so the server answers 304 exactly*)
(* when nothing appeared since.  An entry is its publication date, which   *)
(* may lie before the moment it appears.  What an entry becomes is the     *)
(* business of Ingestion; here it is processed or not.                     *)
(***************************************************************************)
EXTENDS Integers, Sequences, FiniteSets

CONSTANTS
    NumFeeds,     \* configured feeds, fetched in order
    MaxItems,     \* newest entries considered per fetch (20)
    Limit,        \* item limit of every run
    Overlap,      \* LAST_RUN_OVERLAP_MS
    FirstWindow,  \* FIRST_RUN_WINDOW_MS
    Never,        \* no run has succeeded yet
    MaxEntries,   \* bound: entries of each feed
    MaxLag,       \* bound: how late an entry may appear
    MaxTime,      \* bound: the clock
    MaxFaults     \* bound: failed requests and runs that end early

ASSUME FeedIngestAssumption ==
    /\ {NumFeeds, MaxItems, Limit, Overlap, FirstWindow, MaxLag, MaxTime, MaxFaults}
         \subseteq Nat
    /\ MaxEntries \in [1 .. NumFeeds -> Nat]
    /\ Never \notin Int

VARIABLES
    now,         \* the clock
    entries,     \* publication dates of each feed's entries
    appeared,    \* when each of them appeared in the feed
    processed,   \* entries that have a snapshot
    validators,  \* the stored ETag of each feed, 0 for none
    window,      \* the `since` in force when it was stored
    lastStart,   \* started_at of the latest run that succeeded
    first,       \* the `since` of the first one
    run,         \* the running run
    faults

vars == <<now, entries, appeared, processed, validators, window, lastStart, first, run, faults>>

Feeds == 1 .. NumFeeds
Entry == UNION {{f} \X (1 .. MaxEntries[f]) : f \in Feeds}

NoRun == [at |-> "idle", start |-> 0, since |-> 0, feed |-> 1, etag |-> 0, queue |-> {},
          yielded |-> 0, failed |-> FALSE]

TypeOK ==
    /\ now \in 0 .. MaxTime
    /\ entries \in [Feeds -> Seq(Int)] /\ appeared \in [Feeds -> Seq(0 .. MaxTime)]
    /\ \A f \in Feeds : Len(entries[f]) = Len(appeared[f]) /\ Len(entries[f]) <= MaxEntries[f]
    /\ processed \subseteq Entry
    /\ validators \in [Feeds -> Nat] /\ \A f \in Feeds : validators[f] <= MaxEntries[f]
    /\ window \in [Feeds -> Int]
    /\ lastStart \in 0 .. MaxTime \cup {Never} /\ first \in Int
    /\ run.at \in {"idle", "feeds", "entries"} /\ run.feed \in 1 .. NumFeeds + 1
    /\ {run.feed} \X run.queue \subseteq Entry /\ Cardinality(run.queue) <= MaxItems
    /\ run.yielded \in 0 .. Limit
    /\ faults \in 0 .. MaxFaults

Init ==
    /\ now = 0
    /\ entries = [f \in Feeds |-> <<>>] /\ appeared = [f \in Feeds |-> <<>>]
    /\ processed = {}
    /\ validators = [f \in Feeds |-> 0] /\ window = [f \in Feeds |-> 0]
    /\ lastStart = Never /\ first = 0
    /\ run = NoRun /\ faults = 0

-----------------------------------------------------------------------------
\* Entry a of feed f sorts before entry b: the later date, then the later entry.
Newer(f, a, b) ==
    entries[f][a] > entries[f][b] \/ (entries[f][a] = entries[f][b] /\ a > b)

\* The newest `maxItems` of the first n entries of the feed.
Newest(f, n) ==
    {e \in 1 .. n : Cardinality({x \in 1 .. n : Newer(f, x, e)}) < MaxItems}

\* ... of which those inside the window are yielded.
Within(f, n, since) == {e \in Newest(f, n) : entries[f][e] >= since}

\* A bug to rule out: the window starts where the last run did.
SinceWithoutOverlap(last) == IF last = Never THEN now - FirstWindow ELSE last

\* lastRunSince
Since(last) == IF last = Never THEN now - FirstWindow ELSE last - Overlap

\* A bug to rule out: an item too few.
FullEarly == run.yielded + 1 >= Limit

Full == run.yielded >= Limit

-----------------------------------------------------------------------------
Tick ==
    /\ now < MaxTime
    /\ now' = now + 1
    /\ UNCHANGED <<entries, appeared, processed, validators, window, lastStart, first, run, faults>>

\* A publisher adds an entry, dated now or some time ago.
Publish(f) ==
    /\ Len(entries[f]) < MaxEntries[f]
    /\ \E lag \in 0 .. MaxLag : entries' = [entries EXCEPT ![f] = Append(@, now - lag)]
    /\ appeared' = [appeared EXCEPT ![f] = Append(@, now)]
    /\ UNCHANGED <<now, processed, validators, window, lastStart, first, run, faults>>

\* resolveSince, then runAdapter.
StartRun ==
    /\ run.at = "idle"
    /\ run' = [NoRun EXCEPT !.at = "feeds", !.start = now, !.since = Since(lastStart)]
    /\ UNCHANGED <<now, entries, appeared, processed, validators, window, lastStart, first, faults>>

MoreFeeds == run.at = "feeds" /\ run.feed <= NumFeeds /\ ~Full

NotModified ==
    /\ MoreFeeds
    /\ validators[run.feed] > 0 /\ validators[run.feed] = Len(entries[run.feed])
    /\ run' = [run EXCEPT !.feed = @ + 1]
    /\ UNCHANGED <<now, entries, appeared, processed, validators, window, lastStart, first, faults>>

FetchFeed ==
    /\ MoreFeeds
    /\ LET n == Len(entries[run.feed]) IN
          /\ validators[run.feed] = 0 \/ validators[run.feed] # n
          /\ run' = [run EXCEPT !.at = "entries", !.etag = n,
                                !.queue = Within(run.feed, n, run.since)]
    /\ UNCHANGED <<now, entries, appeared, processed, validators, window, lastStart, first, faults>>

\* The request or the document is broken: the other feeds go on.
FeedFails ==
    /\ MoreFeeds /\ faults < MaxFaults
    /\ run' = [run EXCEPT !.feed = @ + 1, !.failed = TRUE]
    /\ faults' = faults + 1
    /\ UNCHANGED <<now, entries, appeared, processed, validators, window, lastStart, first>>

ProcessEntry ==
    /\ run.at = "entries" /\ ~Full
    /\ \E e \in run.queue :
          /\ \A x \in run.queue \ {e} : Newer(run.feed, e, x)
          /\ processed' = processed \cup {<<run.feed, e>>}
          /\ run' = [run EXCEPT !.queue = @ \ {e}, !.yielded = @ + 1]
    /\ UNCHANGED <<now, entries, appeared, validators, window, lastStart, first, faults>>

\* A bug to rule out: the validators are stored before the entries are processed.
EarlyEnd == run.at = "entries"
FeedDone == run.at = "entries" /\ (run.queue = {} \/ Full)

\* After the loop over the entries, or its break at the limit.
StoreValidators ==
    /\ FeedDone
    /\ validators' = [validators EXCEPT ![run.feed] = run.etag]
    /\ window' = [window EXCEPT ![run.feed] = run.since]
    /\ run' = [run EXCEPT !.at = "feeds", !.feed = @ + 1, !.queue = {}]
    /\ UNCHANGED <<now, entries, appeared, processed, lastStart, first, faults>>

\* A bug to rule out: the errors of single feeds do not fail the run.
EndRunRegardless ==
    /\ run.at = "feeds" /\ (run.feed > NumFeeds \/ Full)
    /\ lastStart' = run.start
    /\ first' = IF lastStart = Never THEN run.since ELSE first
    /\ run' = NoRun
    /\ UNCHANGED <<now, entries, appeared, processed, validators, window, faults>>

\* A failed feed fails the run, and only a successful run moves the window.
EndRun ==
    /\ run.at = "feeds" /\ (run.feed > NumFeeds \/ Full)
    /\ lastStart' = IF run.failed THEN lastStart ELSE run.start
    /\ first' = IF ~run.failed /\ lastStart = Never THEN run.since ELSE first
    /\ run' = NoRun
    /\ UNCHANGED <<now, entries, appeared, processed, validators, window, faults>>

\* An item fails the run, or its process dies.
RunDies ==
    /\ run.at # "idle" /\ faults < MaxFaults
    /\ run' = NoRun
    /\ faults' = faults + 1
    /\ UNCHANGED <<now, entries, appeared, processed, validators, window, lastStart, first>>

Next ==
    \/ Tick \/ \E f \in Feeds : Publish(f)
    \/ StartRun \/ NotModified \/ FetchFeed \/ FeedFails \/ ProcessEntry
    \/ StoreValidators \/ EndRun \/ RunDies

Spec == Init /\ [][Next]_vars

-----------------------------------------------------------------------------
(* Properties *)

\* feed.ts: "Stored only once every entry of this response was processed": an
\* ETag is stored only for a document whose entries in the window have snapshots.
ValidatorsAreEarned ==
    \A f \in Feeds : \A e \in Within(f, validators[f], window[f]) : <<f, e>> \in processed

\* cli.ts: "so items modified during the previous run are not missed": what
\* appeared before a run that succeeded, late by the overlap at most, has been
\* processed, whatever failed before; entries pushed out by newer ones excepted,
\* and those older than the window of the first run that succeeded.
NothingMissed ==
    \A f \in Feeds : \A e \in Newest(f, Len(entries[f])) :
        (/\ lastStart # Never /\ appeared[f][e] < lastStart
         /\ appeared[f][e] - entries[f][e] <= Overlap /\ entries[f][e] >= first)
          => <<f, e>> \in processed
=============================================================================
