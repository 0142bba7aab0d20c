# Formal models of Mutinai

TLA+ models of Mutinai: the worker, the ingestion pipeline, the job queue, the community writes, and what the pages
compute from the catalog. TLC configurations check them on small instances, and TLAPS checks proofs of theorems that hold
for instances of any size. `PROJECT.json` maps every definition to the lines it stands for, lists the hazards the
properties are aimed at, and gives for each property a plausible bug it catches.

    tlasany JobQueue.tla                                  # parse
    tlc -workers 2 -config MCJobQueue.cfg MCJobQueue.tla  # model-check
    tlapm IngestionProofs.tla                             # check proofs

Paths below are relative to `src/`; `pipeline.ts` is `packages/ingestion/src/pipeline.ts`, `jobs.ts` is
`packages/db/src/jobs.ts`, `main.ts` is `apps/worker/src/main.ts`.

## 1. Inventory

Mutinai is a catalog of models, tools and hardware. Worker commands fetch sources and write the catalog; members write
reviews and measurements through the web application; a job queue in the same Postgres database refreshes what is
derived; the pages compute compatibility, rankings and news from what they read. Processes share nothing but the database
(READ COMMITTED everywhere) and an object store; there are no messages or callbacks between them. Concurrency is
therefore that of transactions, and of single statements where the code uses no transaction. The rest of the difficulty
lies in sequences: items, files, reports and edits that arrive in an order nobody wrote a test for, and pages that derive
the same fact from them each in its own way.

| Component | State | Operations | What is hard | What makes it correct |
|---|---|---|---|---|
| Job queue, worker loop (`jobs.ts`, `main.ts` `work`) | `jobs.job` rows; each process's batch | enqueue, release stale, claim, complete, fail, shut down | copies of a row outlive the claim they come from; crashes; slow batches; retries | one active row per key, no row forgotten or run twice without reason, every job settles |
| Search index (`search-text.ts`, `handlers.ts`) | `entity.search_text` | change an entity and signal it; recompute | signals collapse while the handler runs | a text that lags is still owed a refresh |
| Enrichment (`db/src/enrichment.ts`) | `derived_content` | generate | facts read before a long call; repeated jobs | one current text, none stored twice for the same facts |
| Ingestion runs and reviews (`pipeline.ts` `runAdapter`, `processItem`, `syncReviewItems`) | `ingestion_run`, `source_record`, `review_item`, identifiers | select items, abandon old runs, run, process an item, fail, die | items seen again, payloads that come back, editors who act during a run | what is blocked is visible to editors, what editors decide sticks and takes effect |
| Editor commands (`main.ts` `review`) | review items, identifiers | link, dismiss | two statements without a transaction | as above |
| HTTP client (`http.ts`) | time of the last request, attempt | get | quotas, `Retry-After`, timeouts, retries | no request before it is welcome |
| Feed adapter (`adapters/feed.ts`, `cli.ts` `lastRunSince`) | stored validators, start of the last successful run | conditional fetch, yield entries, store validators | 304 hides what was not processed; limits; late entries | nothing is missed |
| Field provenance (`pipeline.ts` `assertField`) | `field_assertion.applied`, the canonical column | state a value | the owner is read before it is replaced | the best source owns the field, and the row holds its value |
| Entity resolution and promotion (`pipeline.ts` `applyVariant`, `promoteFirstPartyRoot`; `promotion.ts`) | entities, slugs, external identifiers | classify a repository, find or add release, model and variant | search, slug and insert are separate statements; re-evaluation | one entity per name, created on evidence only |
| Artifact sets and devices (`pipeline.ts` `applyArtifactSet`, `applyHardwareDevice`) | artifacts, devices, accounts | add or update what a payload lists | constraints of the database that a write must not meet; re-evaluation | no item poisons its source, a recheck adds nothing |
| Events and metrics (`pipeline.ts` `applyEvent`, `recordMetrics`) | events, their links, observations | report, edit, observe | several sources report one event | the subject of an event sticks |
| Freshness, Discover, timeline (`domain/src/freshness.ts`, `app/page.tsx`, `app/new`) | none | select, collapse, rank | order dependence, windows | the sections agree, the lead changes for a reason |
| Compatibility and discovery (`domain/src/compat.ts`, `discovery.ts`, `queries/compat.ts`, `app/run`) | none | fit, place, recommend, trade for a quicker download | thresholds, ties, row order | more memory never hurts; pages agree |
| Benchmark import (`adapters/bfcl*.ts`, views of migration 0007) | runs, results | read two files, replace runs | no transaction; ambiguous names; two orders | what is shown was published as a whole |
| Catalog pages (`queries/catalog.ts`, `app/models`, `domain/src/families.ts`) | none | list, group, lead | the same fact computed twice | pages about models agree |
| Community (`db/src/queries/mutations.ts`, `community.ts`) | reviews, ratings, configurations, submissions, votes | write, vote, moderate, verify; list, average | checks precede the transaction; the policy is written into every query | no mixed edits, rulings stick, what is hidden leaves no trace |
| Accounts (`db/src/identity.ts`) | accounts, profiles, sessions | create, sign in, export, delete | deletion beside the member's other requests; three lists of tables | nothing of the deleted stays; the export is complete |
| Access policy (`domain/src/privacy.ts`, `db/src/visibility.ts`) | none | decide, filter | written twice | both decide alike |
| Adapters' parsers, ontology rules on single rows, seeds, object store, markup | — | — | little of it depends on order | see section 8 |

Interactions: `processItem` resolves or creates entities (promotion, records), states fields (provenance), syncs review
items and enqueues jobs, all in one transaction; `work` claims jobs and calls the handlers, which read what those
transactions committed; editors and members act at any time in transactions of their own; every page reads what is committed
and applies the access policy itself.

## 2. Plan

All lines are built, in this order:

1. `JobQueue` — the queue and the worker loop.
2. `ChangeSignals` (abstract), `SearchIndex` (extends `JobQueue`) and `Enrichment` (extends `SearchIndex`) — what the queue
   promises to writers, and that both kinds of derived text keep the promise; `EnrichmentProofs` has the theorems of all three.
3. `Ingestion` — runs, snapshots, review items, editors; `IngestionProofs` has the theorems about the whole package
   `packages/ingestion`: runs, the provenance of a field and the HTTP client.
4. `HttpClient` — pacing and retries.
5. `FeedIngest`, with `FeedIngestProofs` — validators, windows and limits.
6. `Provenance` — who owns a field.
7. `Promotion` and `Records` (extends it), with `RecordsProofs` — what repositories, files and device sheets become.
8. `VisibilityPolicy`, `Community` and `CommunityPages` (each extends the one before), with `CommunityProofs`.
9. `Lists`, `Compat`, `CompatQueries`, `Discovery` and `RunPage`, which composes them, with `RunPageProofs` — what runs where.
10. `Freshness` and `FrontPage` (extends it) — events, counters, and the pages that say what is new.
11. `Benchmarks` (extends `Discovery`) and `Catalog` (extends it) — scores, and the pages about models; `PageProofs` has
    theorems about `FrontPage` and `Benchmarks`.

What would come next: several item transactions at once in `Records`; prices (`packages/db/src/queries/prices.ts`); refinement of "a set of entities
by name" by `Promotion` under one process; proofs for the pages that fold over what they have shown so far (`FrontPage`, `Catalog`).

## 3. Modules and the code

**JobQueue.** One action per SQL statement of `jobs.ts`, because each is a transaction of its own, and per step of the
loop in `work()`. A process holds a *batch* of copies `[id, attempts]`, as `claimJobs` returns them; `CompleteJob` and
`FailJob` address the row by id only and decide on the copy, as the code does. Time is two facts about a row: `due`
(`run_after` reached) and `stale` (`locked_at` older than the release threshold). `ClaimLapses` lets the threshold pass
for a dead process at any time, and for a live one (a batch of up to 20 sequential jobs that takes too long) up to
`MaxOverruns` times. `FailJob` has the code's two outcomes: the row returns to pending or dies, or the update
breaks the partial unique index and the error ends the process.

**ChangeSignals, SearchIndex, Enrichment.** `SearchIndex` adds writers with open transactions to `JobQueue`:
`ChangeEntity` makes the change and the signal (nothing, when an equal job is active), `Commit` and `Rollback` end it,
`RunHandler` reads what is committed. `Serial` is the schedule of `worker scheduled`, where ingestion ends before the
queue is drained. `Enrichment` adds the second kind of job: `runEnrichment` reads the facts, compares their hash, calls
the provider and supersedes the old text in separate steps. The refinement maps `owed` to the keys with a job that is
pending, running or dead.

**Ingestion.** One source, its items and the processes that run its adapter. `processItem` is one transaction
and one step (`ProcessItem`): it inserts or touches the snapshot, evaluates it unless it was processed before, applies it, and
syncs the review items by the `on conflict` clause of `syncReviewItems` (`Synced`). Selecting items, abandoning runs
older than six hours, inserting the run row (refused while one is `running`), each fetch and closing the run are steps
between which the source, editors and other runs act. `LinkItem` and `CloseLinked` are the two statements of `review link`.
A payload matters by its kind: it resolves by itself, needs a base, repeats a known name, says the item is gone, or is malformed.

**HttpClient.** `get` with `pace`, `backoff`, `retryDelayMs`; the server answers anything after any latency up to the
timeout, or not at all. Time counts in units of the first backoff delay.

**FeedIngest.** Feeds grow; an entry carries a publication date that may lie before its appearance. A conditional request is
answered 304 exactly when the stored validator belongs to the current document. The loop over feeds and entries, the
breaks at the limit, the storing of validators, failing feeds, runs that die and `lastRunSince` follow the adapter.
`first` remembers the window of the first run that succeeded, before which nothing is promised.

**Provenance.** `assertField` for one field, statement by statement: select the owner, insert the assertion, clear the
applied ones, wait for row locks and look at the row again (READ COMMITTED), mark the own one, update the row. The
priority of a source may equal that of others; a payload may state the field several times.

**Promotion, Records.** A transaction of `Promotion` reads the catalog when it classifies its repository, looks for a
release or model by name, and looks for a free slug; an insert waits for whoever inserts the same slug and fails when that
commits. Facts of a repository are constants: owner, declared bases, the rules it fails (`unmet`), the score of its name for each
family. `Records` puts `applyArtifactSet` and `applyHardwareDevice` beside it, an evaluation per step, with the unique
keys and checks of the schema: a snapshot whose write would violate one is collected in `poisoned`.

**VisibilityPolicy, Community, CommunityPages.** `CanView` and `VisibleTo` are translated from the function and the where clause
separately. A request of `Community` makes the checks of its first part, and writes later: `upsertReview` is
`BeginReview`, `WriteReview` (row lock, ratings found) and `CommitReview`; `castVote` is `BeginVote`, `DeleteVote`,
`CastVote` (unique key); `deleteAccount` is `BeginDeletion` (the submissions it finds) and `FinishDeletion` (cascades).
A request numbers what it writes, which stands for texts and measurements. `Abort` ends a request anywhere.
`CommunityPages` has every query behind the community pages, with its own where clause, and the account export.

**Compat, CompatQueries, Discovery, RunPage.** Operators of integers: memory in hundredths of a GiB, speed in tenths of a
token a second. `Compat` is the engine (memory needed, fit, placement, offload, comparison of results, recommendation),
`CompatQueries` the rows it is given and the measurements that replace estimates, `Discovery` labels, axes, starter
and the quicker download. `RunPage` has a visitor who edits the query string of `/run` while files, benchmark runs and rulings
come in; a page is an operator of the query string and the database. An estimated speed is the formula of `estimateDecodeTps`
in integers, with its efficiency, its fixed read and its penalty for further devices.

`Lists` has the arrays of the code: `map` (`Each`), `filter` (`Select`), the stable `sort` (`SortedBy`) and the sum of a `reduce`
(`SumOver`), defined by the positions they take, together with what is proved of them. The sequence module's `SelectSeq` and the
community's `SortSeq` would do for TLC, but the provers know nothing of either.

**Freshness, FrontPage.** `Freshness` is the module of that name: current events, duplicates kept and dropped, significance,
the top story, trends, digests. `FrontPage` has the transactions that report events (`Begin` counts the links of an event and
`Commit` adds its own), edits, observations of counters and the clock, and the sections of Discover and `/new` as operators.

**Benchmarks, Catalog.** `Benchmarks` reads an edition of the leaderboard (a table and a list of configurations, fetched one after the
other and possibly of different editions), matches rows to variants, and imports them by the statements of
`bfcl-import.ts`, with a crash or a deploy of another aggregation tree between any two. The views of migration 0007 pick the headline
and the table. `Catalog` has the model list with its filters, sorts and groups, the facets (the rows of `model_family`, whether or not a model is of
them), families, the sections of the home page, and the model page.

## 4. Runs

| Run | Instance | What it shows |
|---|---|---|
| `queue` | 2 rows, 1 key or none, a service and a `--once` process, 2 attempts, batches of 2, 1 crash, 2 overruns | the safety of the queue in every interleaving, and that every job settles while one process stays up |
| `derived_text` | 3 rows, a subject to reindex and one to enrich, 2 writers, 2 processes, 1 crash, 2 changes each (the first leaves the facts alike), writers and workers in turns | a lagging text is owed a refresh: the queue implements `ChangeSignals`; one current text, none stored twice in a row for the same facts |
| `search_lost` | 3 rows, 1 entity, 2 writers, 2 processes, 1 crash, no turns | a signal sent while an equal job runs is lost: deviation 1 |
| `ingestion` | 1 item through payloads that block, are gone or malformed, 2 runs, 2 changes, 1 fault, 1 decision | review items explain what is blocked, decisions stick, a linked base takes effect |
| `http_client` | 2 calls, 2 retries, delays below, at and above the longest wait | quotas, `Retry-After` and spacing are respected |
| `feed` | 2 feeds with 2 and 1 entries, a first window that may leave entries out, clock to 2, 2 faults, a limit that the last entry of a full run reaches | validators are earned, nothing is missed |
| `provenance_alone` | 1 process, 3 sources, two of one priority, 2 values | the best source owns the field, and the row holds its value |
| `promotion_serial` | 2 sources and a device sheet in turns, 3 repositories of weights, 2 of quantized files, 4 rows, an editor who adds a family and a scheme | one entity per name, no recheck adds anything, no item violates a constraint |
| `community` | 4 requests of a member and a moderator, 2 at a time, all visibilities | reviews, rulings, deletions, exports and every list stay consistent |
| `run_page` | 3 files, 2 systems, 4 devices, 3 runtimes, a saved computer, a benchmark run, a submission, 9 setups, 5 filters | memory never hurts, row order does not show, the starter survives the trade, pages agree |
| `front_page` | a runtime with releases of three levels, one of which is edited, a lab with a model, a feed that covers both, a fixture, a counter | sections agree, the window holds every baseline, the lead changes for a reason, subjects stick |
| `catalog` | 2 editions, a model listed twice, an ambiguous name, an older aggregation tree, 4 variants, a vendor's partial claim, 3 run ids; 8 models of 7 families, of which one lies below another, and a family without models | scores shown were published as a whole, no number decides which report is shown, pages agree |

Why the bounds are enough. Every hazard of the queue needs at most two processes that hold copies of one row and a second
row that takes over its key; two overruns let both be stale. A snapshot meets each kind before and after
each other kind with two changes; a third run would only repeat the second, since run rows do not refer to one another.
Two sources of one priority beside a third show ties and strict order. Four requests suffice for every property of
`Community` to meet the two writers it relates, the row they write and one ruling, vote or deletion. The machines and files of `run_page`
lie on both sides of every threshold it compares (fits, spills, does not run; fast enough, too slow; measured, estimated), with two
files and two runtimes between which a choice is made. Three rows of events are a story, its copy and a rival. The three ids of `catalog` let a run
be replaced once while another edition's stays; seven families with models are one more than the home page shows. `Symmetry` permutes rows, requests or dimensions, which the
specifications treat alike, and only in runs without liveness.

`CHECK_DEADLOCK FALSE` is set where the system comes to rest: all jobs settled, all calls made, all requests done, all
reports in. `ingestion` and `run_page` are checked for deadlock: a scheduled run or a visitor can always go on.

Some instances leave out what would break a property, and say so: `derived_text` lets writers and workers take turns and no
batch overrun, `feed` has a limit that cuts nothing off, `provenance_alone` and `promotion_serial` have one process at work,
`front_page` has one item transaction at a time (`Overlapping = FALSE`). That is the
schedule of `worker scheduled`, which ingests one source after the other before it drains the queue. It is not all the repository
deploys: `worker bootstrap` runs at every deploy, ingests the fixtures and drains jobs (`main.ts:335`, `docs/adr/0007-preview-deployment.md:21`), and may
overlap a scheduled run. Section 5 lists what happens then, and the hazards of `PROJECT.json` that only such an overlap meets
have no property of a run. Some theorems reach further: `OneCurrentTextHolds` also covers workers beside each other
while no batch outlives the release threshold.

Further configurations pass: `MCIngestionLive.cfg` (two blocked items: type, canonical rows only from processed snapshots,
every linked base takes effect) and `MCPromotionMore.cfg` (seven kinds of repositories without files and devices: variants are linked,
promotion on evidence, rechecks add nothing).

## 5. Where code and documentation differ

`search_lost` is a run of the project: "entity changed" signals are said to collapse
(`docs/adr/0003-postgres-job-queue.md:20`), but `enqueueJob` does nothing while an equal job is *running* (`jobs.ts:32`),
whose handler may have read the old data.

Further configurations reproduce others; each ends in a counterexample to the property it names:

| Configuration | Property | What happens |
|---|---|---|
| `MCFeedIngestMissed.cfg` | `NothingMissed` | a run that stops at its limit succeeds and moves the window past feeds it never asked (`main.ts:168`) |
| `MCProvenanceRace.cfg` | `HighestPriorityOwns` | a lower source that read the owner before a higher one committed still wins (`pipeline.ts:502`) |

So do these variations of the configurations of section 4 (a specification, constants or property replaced as stated):

| Variation | Of | Replaced | Property | What happens |
|---|---|---|---|---|
| JobQueueAttempts | `MCJobQueue.cfg` | `Spec`, `MaxOverruns = 0` | `NeverBeyondMaxAttempts` | a job whose handler kills the process is released and claimed beyond `max_attempts` (`jobs.ts:55`, `71`) |
| JobQueueRelease | `MCJobQueue.cfg` | `Spec`, `MaxOverruns = 1` | `ReleasesOnlyFromCrashed` | rows of a live but slow batch are released (`jobs.ts:70`, `74`) |
| IngestionServed | `MCIngestion.cfg` | `Spec`, `PlainContents`, `PlainKind`, `OneRun`, no faults, no decisions | `ServedAgainIsClosed` | an item that returns with a payload seen before takes the `unchanged` return (`pipeline.ts:248`) ahead of `syncReviewItems`: its item stays open, where `schema/ingest.ts:119-120` says it closes |
| IngestionSlow | `MCIngestion.cfg` | `Spec`, `OnlyDerivative`, no changes, no decisions | `OneProcessIngests` | a live run older than six hours is abandoned and another starts beside it (`pipeline.ts:152`) |
| IngestionReupload | `MCIngestion.cfg` | `OnlyReupload`, no changes, no faults | `LinkTakesEffect` | a linked re-upload is `processed` and not evaluated again (`pipeline.ts:594`) |
| IngestionStarved | `MCIngestion.cfg` | `TwoItems`, `OnlyDerivative`, `OneRun`, `OneOrTwo`, no changes, no faults | `LinkTakesEffect` | the limit is spent on the same first unresolved items (`main.ts:97`) |
| EnrichmentOverrun | `MCEnrichment.cfg` | `Keys <- MCSubjects`, `OnceWorkers <- MCService`, `MaxCrashes = 0`, `MaxOverruns = 1`, `Serial = FALSE` | `OneCurrentText` | two workers enrich one subject once a batch overruns the release threshold: two texts are current, where `docs/ai-enrichment.md` has the previous one superseded |
| HttpClientSpacing | `MCHttpClient.cfg` | `ShortDelay = 1`, `LongDelay = 4`, `MaxWait = 3`, `MinInterval = 2` | `MinimumSpacing` | a quota that resets sooner than the spacing moves `lastRequestAt` back (`http.ts:122`) |
| FeedIngestEarned | `MCFeedIngest.cfg` | one feed of two entries, `MaxItems = 2`, `Limit = 1`, `MaxTime = 3`, no faults | `ValidatorsAreEarned` | validators are stored after the break at the limit (`adapters/feed.ts:242`), though said to be stored once every entry was processed (`:251`) |
| ProvenanceAlias | `MCProvenance.cfg` | `Sources = {fixture, hub}`, `MaxFiles = 2` | `AppliedIsCanonical` | two files of one scheme in one snapshot: the assertion keeps the first size, the row the second (`pipeline.ts:507`) |
| PromotionRace | `MCPromotionMore.cfg` | `Serial = FALSE`, `Repos = {baseRepo, plainRepo}`, `MCAllListed` | `OnePerName` | two sources find no release, and each adds one under its own slug (`pipeline.ts:701`, `708`) |
| PromotionTwins | `MCPromotionMore.cfg` | `Repos = {baseRepo, tuneRepo, twinRepo}`, `MCAllListed` | `NoTwinVariants` | another publisher's repository with a known variant's name and a declared base becomes a variant (`pipeline.ts:608`) |
| RecordsSizes | `MCRecords.cfg` | — | `SizesArePlausible` | a size is validated when the artifact is created, not when it is updated (`pipeline.ts:832`) |
| RecordsAdvisory | `MCRecords.cfg` | — | `AccountsAreReported` | the advisory item about a new publisher is superseded by the next evaluation of its blocked snapshot (`pipeline.ts:476`) |
| CommunityOrphans | `MCCommunity.cfg` | no symmetry, `Offered = {"public"}`, `MaxRequests = 2` | `EnvironmentsAreOwned` | a submission made during the deletion of its author's account leaves its environment (`identity.ts:126`) |
| CommunityVotes | `MCCommunity.cfg` | `Offered = {"public"}`, `MaxRequests = 3` | `VotesOnWhatIsSeen` | a vote lands on a contribution hidden since it was looked up (`mutations.ts:206-219`) |
| RunPageMeasured | `MCRunPage.cfg` | `ArcFiles`, `ArcBase`, `ArcSystems`, `ArcRuns`, no saved computers, submissions and setups | `MeasurementOutranksEstimate` | a file measured with one runtime is shown with an estimate for another: fit is compared before the basis of the speed (`domain/src/compat.ts:298`, `306`) |
| RunPageTier | `MCRunPage.cfg` | `TierFiles`, `TierBase`, `TierSystems`, no saved computers, runs, submissions and setups | `MachineRunsItsTier` | a MacBook with 8 GB does not run a model of the tier it is grouped with (`app/hardware/page.tsx:98`) |
| FrontPageChain | `MCFrontPage.cfg` | `ChainReports`, no fixture, no counter, `MaxRows = 4` | `NewestCopyIsShown` | copies are collapsed against those kept: of a chain of copies two are shown, and the newest need not lead (`freshness.ts:104`) |
| FrontPageHotfix | `MCFrontPage.cfg` | `ChainReports`, no fixture, no counter | `MajorReleaseLeads` | a hotfix with the same notes hides the major release as its newer copy, and nothing leads (`docs/freshness.md:42`) |
| FrontPageRace | `MCFrontPage.cfg` | `RaceReports`, no fixture, no counter, `Overlapping = TRUE` | `OneSubject` | two sources that report one event at once both find no subject (`pipeline.ts:1013`) |
| FrontPageTimeline | `MCFrontPage.cfg` | no fixture, no counter, `TimelineLimit = 2`, `MaxRows = 4` | `TimelineShowsEveryPart` | the limit cuts the list before it is narrowed to a part, and a part with events is shown as empty (`docs/freshness.md:49`) |
| CatalogReimport | `MCCatalog.cfg` | — | `ReimportChangesNothing` | a run that is imported again gets a new id and creation time, by which ties between results are broken: another number is shown |
| CatalogSample | `MCCatalog.cfg` | — | `SampleActivityChangesNothing` | the order by activity counts sample content that the page then hides |

These variations pass: JobQueueMore (`MCJobQueue.cfg` with `HeldTwiceOnlyAfterOverrun`, `DeadIsExhausted`,
`ExtraAttemptsArePaidFor`), CommunityMore (`CommunityTypeOK`, `OneVoteEach`, `ListingsFollowPolicy`, `OthersDoNotBlockDeletion`), ProvenanceMore
(`FieldTypeOK`, `NoDowngrade`), FrontPageMore (`TypeOK`, `FixturesNeverCompete`, a part of `SurfacesAgree`, by itself), CatalogMore (`BenchmarkTypeOK`, `FrontierHoldsTheRecords`,
`SampleContentIsInvisible`), `ClientTypeOK` added to `MCHttpClient.cfg`, `TypeOK` added to `MCFeedIngest.cfg` and `MCIngestion.cfg`, and `Typed`
of `RunPageProofs` on the instance of `MCRunPage.cfg`.

Seen while modelling, and kept as the code has them:

- `balanceStarterDownload` may trade a measured recommendation for an estimated file, where `app/run/page.tsx:285` tells the
  visitor that "the larger file is a little more accurate".
- `topStory` passes over fixtures in every data mode, where `docs/freshness.md:42` speaks of live events; `/new` shows fixtures beside live events.
- The minimum memory of a model is rounded to a tenth of a GB, so a threshold may be crossed by rounding.
- A family's card on the home page links to "all *n*" of its models (`app/page.tsx:309`), but the list it leads to also has those of
  the families right below it: the model compares the card with the list's models of that very family.
- The family filter offers every row of `model_family`, so a family without models, or whose models are two levels below it, leads to an
  empty list. The home page shows six families; the models of others are found in the list only.
- A pooled group of subtasks without counts has no score, yet keeps its weight in the group above.
- A leaderboard whose `model_config.py` lists a model in another order makes a second run of one measurement.
- `canonical_benchmark_result` breaks ties by `created_at`, the headline by metric and run.
- The account export reads its tables in separate statements: a request that commits in between is in one part and not in another.
- An artifact keeps its variant and its first repository when another repository, or a re-declared base, feeds it.

## 6. Fairness

`JobQueue!Fairness`: a process that runs keeps executing `work()` (weak fairness of release, claim and of handling its batch), time
passes (`ClaimLapses` of dead processes, `BackoffEnds`), and a row that is due again and again is claimed in the end
(strong fairness of `ClaimsJob`), because claims are ordered by `run_after, created_at`. Crashes, overruns, shutdowns and new
rows need no fairness. `EveryJobSettles` assumes a process that stays up.

`Ingestion!Fairness`: a run makes progress and the next one is scheduled (weak fairness of `RunStep`, which stands for the timer
that starts `worker scheduled`), the row of a killed run grows old, and an editor's command ends unless it dies. Failures, kills, the
source and the editor's decisions need no fairness. `BlockingLinkTakesEffect` is about an `unknown_base` item: a re-upload's link has no
effect (variation IngestionReupload).

No other module claims liveness.

## 7. Proofs

All theorems are checked by TLAPS with SMT, Zenon and LS4, for every value of the constants that satisfies the
assumption named in the module. `IngestionProofs` extends three components, so those of `HttpClient` and `Provenance` have names of
their own (`ClientSpec`, `FieldSpec`).

**EnrichmentProofs**, about `JobQueue`: `TypeCorrect`; `OneActivePerKeyHolds`, `RunningIsHeldHolds`, `AttemptHasOneHolderHolds`,
`DeadIsExhaustedHolds`, `HeldTwiceOnlyAfterOverrunHolds`, `SettledStaysSettledHolds`. None of the invariants is
inductive alone: `FailJob` could revive any row if a copy might be ahead of it, and a claim could repeat an attempt. `IInv` adds that
copies exist only inside a batch, that a copy never counts more attempts than its row (`CopiesAreNotAhead`, which makes the
attempts of a new claim new), and that, while no batch has overrun the threshold, every copy is its row's current claim
(`CopiesAreCurrent`). There is one lemma per kind of step.

**IngestionProofs**, about `Ingestion`: `TypeCorrect`, `BlockedIsExplainedHolds`, `OpenItemsAreCurrentHolds`, `OneUnlessAbandonedHolds`,
`EditorDecisionsStickHolds`: for any number of items, payloads, processes, faults and decisions. `IInv` has two halves. About the
catalog: only derivatives block (`OnlyDerivativesBlock`), and an open item was raised by a snapshot (`OpenIsRaised`); without them an
evaluation could leave a snapshot unresolved that no item explains. About runs: work in hand belongs to a run
(`WorkIsOfARun`), one row is `running` (`OneRunning`, which the unique index keeps), and the process that holds an item is at it
(`HoldsItem`). Lemmas state what one evaluation leaves of each half (`CatalogUnchanged`, `RunsUnchanged`, `ClosedStep`), so that each step of a run, the
source or an editor is a few lines.

**IngestionProofs**, about `Provenance`: `HighestPrioritySafe`, `AppliedSafe`, `NoDowngradeHolds`, assuming `Alone`: one process ingests,
and a payload states the field once. Both assumptions are needed, as `MCProvenanceRace.cfg` and
variation ProvenanceAlias show. `FieldInv` adds what each statement of the open transaction has established so far (`Progress`):
what it has cleared, marked and written, and that the priority it compared is still the highest applied one.

**EnrichmentProofs**, about `SearchIndex` and `Enrichment`: the queue takes its own steps there too, so its `IInv` is not proved again. `IndexImplementsChangeSignals` and `EnrichImplementsChangeSignals` show step by step that the outbox, the queue and both
kinds of handlers implement `ChangeSignals`, assuming `Serial`, as `worker scheduled` runs (`search_lost` shows why). A commit is a
change, a handler that returns is a refresh, a completed job is a settlement, and nothing else moves `Owed`. `IndexInv` adds that an
insert that did nothing leaves its change to a row that is still active (`SignalsStand`), and that a handler that has returned has seen
the last change (`RanIsCurrent`), which makes settling sound. `OneCurrentTextHolds` and `NeverGeneratedTwiceHolds` need less: `Exclusive`,
that writers and workers take turns *or* no batch outlives the release threshold (variation EnrichmentOverrun shows what happens otherwise).
`EnrichInv` adds that a call is made for a copy that is held, one for each (`CallsAreHeld`, `OneCallEach`), so that no two write
one subject; that what it has read is still so (`CallsAreFresh`); and that a call which goes on to write found no current text of its input
(`CallsAreNeeded`): the comparison is made before the provider is called, and must hold when its text is stored.

**IngestionProofs**, about `HttpClient`: `ClientTypeCorrect`, `ServerIsObeyedHolds`, `SpacedOrAfterResetHolds`, for any delays, waits, retries and spacing.
The client has one number, `lastRequestAt`, for two purposes. `RecordsRequest` says which one it serves where: the latest
request, or, until the next one, the end of the window that request exhausted; `DelayServed` says that before a retry the named delay
has passed. The assumption of the module states that powers of two are natural numbers, of which the provers have no theory.

**FeedIngestProofs.** `TypeCorrect`, `ValidatorsAreEarnedHolds`, `NothingMissedHolds`, for any feeds, entries, lateness, overlap, first
window and failures, assuming `Roomy`: what the feeds can yield is below the limit (run `feed` checks the case of equality; `apps/worker/sources/feeds.json` lists 5 feeds of 20 entries, and
`main.ts` takes 300). `MCFeedIngestMissed.cfg` and variation FeedIngestEarned show that the assumption is needed. The argument: a 304 hides a
document that was processed inside an earlier window, and no later window can look behind that one unless the first successful run already
did (`ValidatorsAreOld`); while a response is read, what it holds inside the window is processed or queued (`ResponseIsHeld`), and what it does not hold
appeared after the run began; so of every feed a run has passed without failure it has seen all that was there (`AskedIsSeen`), and
what the end of the run puts behind the next window is no more. `TakesItsShare` bounds the run by the feeds it has asked, so that the limit
never bites. The lemmas about `Top` say how the newest entries of a feed change as it grows.

**RecordsProofs.** `OnePerNameHolds` (of `Promotion`) and `RecordsOnePerName` (with files, sheets and editors beside it), assuming `Serial` and
`SeedIsNamed`: one process at work, as variation PromotionRace shows is needed, on a seed that has one of each name. `PInv` says that what a
transaction sees has one of each name (`SeenIsNamed`), and that what it is about to insert is still not there under the name it looked for (`NewIsNew`):
slug and insert are later statements than the search. `NothingIsPoisonedHolds`, for any payloads, schemes, sizes and rows,
assumes only that the seeded devices satisfy the check on their memory (`SeedIsConstrained`): whatever was evaluated before, a file finds the
artifact of its variant, scheme and publisher or there is none (`ArtifactsAreKeyed`), and sizes are asserted of dedicated devices only (`DevicesAreSized`).

**CommunityProofs.** `MirrorsPolicy`: for every viewer, row and mode the SQL filter decides as `canView` does;
`ListingsAreSafe`: so does every review and submission in every reachable state, and averages take in only what strangers may list.
`IInv` says that rows, and what open requests are going to write, have an owner, one of the visibilities and one of the statuses.
`ReviewIsOneEditHolds`, `NothingOfTheDeletedHolds`, `ModerationSticksHolds`: for any number of concurrent requests. Their invariant
`KInv` adds that the key of reviews is unique (`OneReviewEach`), that a transaction that has taken the row lock of a review replaces
all its ratings and its author is still there (`Holding`), and that no other holds that lock (`OneWriter`): a second edit that deleted
the ratings it found before the first one committed would leave a mixed review. `StrangersLearnNothingHolds`: no page, average or count depends on
a row its viewer is refused, for any rows. `Withheld` relates the database to the one without those rows, and one lemma per query
(`SameReviews`, `SameSubmissions`, `SameHardware`, `SameEligible`, ...) shows that it answers alike. `DeletionTakesWhatExportGivesHolds`:
`DInv` adds that ratings belong to reviews, that a member's hardware stands in submissions of that member only (`RigsAreOwn`), and that the
submissions a deletion has found are still its member's (`SeenIsOwn`), although it looks for them before it takes them.

**PageProofs.** About `FrontPage`: `FrontPageTypeCorrect`; `WindowIsEnoughHolds`, for any observations: the window holds the last
one of a series, if it is recent enough to be a trend, and every baseline of it, because an observation has a day of its own and is
never of the future (`FrontInv`); `SubjectSticksHolds`, assuming that no two sources report at one time (variation FrontPageRace):
the count of an event's links that a transaction took is still right when it adds its own (`CountIsCurrent`).
About `Benchmarks`, with the other state of `Catalog` beside it: `BenchmarkTypeCorrect`, that the tables hold what the schema allows
whoever writes them and wherever an import stops; `BenchInv` adds what an import relies on between two statements (`ImportOK`: no run holds the
key it is about to insert, the run it gives results to exists, subtasks it has checked are still declared) and that no subtask is ever lost
(`TreeGrows`). `HeadlineIsNotFlatteringHolds` and `TableSupportsHeadlineHolds` compare the two orders, of the headline and of the
table: each is total on runs with distinct identifiers, so a finite table has one canonical report (`FirstOfFinite`), and both go by origin,
source and date once the configuration is the same. The second theorem assumes `NothingPooled`: no group of subtasks combines its
leaves by `pooled`. None shipped does, and no writer stores the counts it needs; the schema allows it, and the instance of run `catalog` has an older tree
with such a group. A run with results in such groups alone has no number, so the table may prefer it where the headline cannot.
`FirstOfFinite` takes the least cardinality of a counterexample where the library's induction takes an operator.

**RunPageProofs**, for any files, machines, devices, runtimes, measurements and query strings that `RunPageAssumption` allows: counts are
numbers, a file has weights, slugs are not empty and name one row, and tables are finite. `TypeCorrect`: `Typed` is inductive. It says that
the published files are files, each stored once, and that the query string is numbers where the page computes with them. The other four
theorems are about what a page computes from such a state, so the argument is one about its functions:

- `CompatibilityHolds`: the results of `/run` are one for each variant that has a file the options choose, and that one is the
  result of *all* chosen files of the variant (`GroupsHold`). `ResultHolds`: what is recommended was assessed, and no assessment of its kind
  (in memory, if there is any) is ahead of it (`PickRecommendedHolds`). Everything assessed has numbers to be compared by (`EvaluateTyped`).
- `StarterCorrect`: `StarterIsComfortable`. If a chat model in memory types fast enough there is a starter, it types fast enough, and it is on the
  page; trading the recommendation for a quicker download cannot lose it, since what the trade returns is in memory, no slower than asked, and one of the
  alternatives (`ComfortableHolds`).
- `PagesCorrect`: `PagesAgree`. Asked about a reference system without filters, `/run` chooses the files, runtimes and measurements of the
  model pages (`PlainlyChosen`), and the list of best results and the counts of the summaries are those of its results (`BestHolds`,
  `PlacementsHold`).
- `OrderCorrect`: `StorageOrderIsImmaterial`. Rows in another order give groups with the same files in another order; the
  recommendations of both are not ahead of each other, and whatever a visitor is told of them is among the criteria or follows from
  them (`OrderImmaterial`).
- `MemoryCorrect`: `MoreMemoryNeverHurts`. The form of two query strings of which one asks for more composes two machines with the same devices,
  one of which has as much of everything (`CustomGrows`, `MachineAtLeast`). So the pools it offers a runtime cover the other's, whether the runtime
  adds them up or takes the largest (`AllPoolsGrow`, `AcceleratorsGrow`), a shorter context needs less (`TotalGbGrows`), and every
  file reaches as far (`Reach`: in memory, offloaded, or nowhere) with every runtime (`FitGrows`, `EvaluateGrows`); the best runtime is one that reaches
  furthest (`AssessBest`) and the recommended file one that does (`StandingHolds`). The one case in which more memory opens a new kind of
  place, that of a machine whose unified memory was zero, has no RAM beside it to lose.

**Lists.** What these proofs need of arrays, without an induction over data. `InOrderLists`: to list a finite set by a strict total order, put at place *n*
the element with *n* - 1 before it; these numbers differ, so each is taken (`FS_Injection`). Filtering and
stable sorting are such listings of positions (`PartHolds`, `SortedHolds`): they lose and add nothing, and nothing stands before what precedes it.
Sums and joins are functions on an initial segment of the numbers, about which the least counterexample says what is needed
(`TotalHolds`, `TotalGrows`, `FlattenHolds`, `JoinElements`).

Only model-checked:

- Liveness (`EveryJobSettles`, `BlockingLinkTakesEffect`): TLAPS does not reason about fairness or `ENABLED` with the provers used here.
- `RechecksAddNothing` depends on the instance: were an editor to add a family that fits a repository better than the one it was promoted to,
  while a reason of its variant keeps it unresolved, its next evaluation would add a release and a model there.
- `ExtraAttemptsArePaidFor`, a sum over the history of each row; `CanonicalIsProcessed`, `OneVoteEach`, `OthersDoNotBlockDeletion` and `VariantsAreLinked`.
- `FrontPage`'s `SurfacesAgree` and `StoryChangesForAReason`, `Benchmarks`' `ShownWasPublished` and `Catalog`'s `ModelPagesAgree`: what they
  show depends on what was kept so far, a fold over the rows, and what that computes for every input needs an induction over data that is out of the provers' reach.

## 8. Not modelled

- Texts, parsing, tokenization and formatting: normalizers of the adapters, names to facts, search text. Their results are
  constants or values here.
- Prices, and the read-only SQL of hardware, projects, organizations and search pages: joins that a model would only repeat.
- A base that resolves to something other than a variant (`base_not_variant`), and a rejection by the ontology rules after an account was
  created: the instances have no payload that leads there.
- No enrichment provider is registered in the repository; the provider of `Enrichment` is external.
- The object store: puts are addressed by content, so repeating or reordering them changes nothing.
- Migrations, and seeds other than the events: run once, by hand. Account creation and sessions: a few independent statements.
- Deadlocks between item transactions of several processes: any item may fail in `Ingestion`, whatever the cause.
