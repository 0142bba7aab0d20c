------------------------------ MODULE FrontPage ------------------------------
(***************************************************************************)
(* Events and counters as ingestion records them (applyEvent, applyProject *)
(* and recordMetrics of packages/ingestion/src/pipeline.ts), the clock,    *)
(* and the pages that say what is new: Discover (apps/web/src/app/page.tsx)*)
(* and the timeline (/new).                                                *)
(*                                                                         *)
(* Each item of a source is a transaction of its own.  One that reports an *)
(* event counts the links of the event before it adds its own, so the      *)
(* transactions of two sources can overlap between the two.                *)
(***************************************************************************)
EXTENDS Freshness

CONSTANTS
    EventReports,   \* what sources say of events, and how many half days from the clock they may date a new one
    Names,          \* entities, by name
    Runtimes,       \* the projects that are runtimes
    SeededEvents,   \* events of the seed
    Counters,       \* << entity, metric >> a source counts
    Values,         \* counts
    Ticks,          \* half days that may pass at once
    EventLimit,     \* events Discover reads (1000)
    TimelineLimit,  \* events the timeline reads (300)
    Overlapping,    \* may items of two sources be processed at once?
    MaxTime,        \* bound: the clock
    MaxRows         \* bound: events and observations recorded

VARIABLES
    rows,           \* ecosystem.event, with its links
    linking,        \* transactions that have counted the links of their event and not committed
    observations,   \* ecosystem.entity_metric
    now

vars == << rows, linking, observations, now >>

(* What the tables may hold. *)
EventRows ==
    [id : Nat, kind : STRING, title : STRING, tag : {r.tag : r \in EventReports \cup SeededEvents},
     notes : {r.notes : r \in EventReports \cup SeededEvents}, at : Int, source : STRING, sourceKind : STRING,
     links : SUBSET [entity : Range(Names), role : {"subject", "related"}]]

ObservationRows == [entity : Range(Names), metric : STRING, at : Nat, value : Values]

\* The keys of the tables: of events, and of the links of each.
EventsAreKeyed(events) ==
    /\ \A e, f \in events : e.id = f.id => e = f
    /\ \A e \in events : \A l, k \in e.links : l.entity = k.entity => l = k

(* What sources may say: the entities of a report are resolved, each once. *)
ASSUME FrontPageAssumption ==
    /\ Ticks \subseteq Nat
    /\ SeededEvents \subseteq EventRows /\ EventsAreKeyed(SeededEvents)
    /\ Counters \subseteq Range(Names) \X STRING
    /\ \A r \in EventReports :
          /\ r.key \in Nat /\ r.offsets \subseteq Int
          /\ {r.kind, r.title, r.source, r.sourceKind} \subseteq STRING
          /\ r.entities \in Seq(Range(Names)) /\ \A i, j \in DOMAIN r.entities : r.entities[i] = r.entities[j] => i = j

TypeOK ==
    /\ rows \subseteq EventRows /\ observations \subseteq ObservationRows /\ now \in Nat
    /\ EventsAreKeyed(rows)
    /\ \A o, p \in observations : o.entity = p.entity /\ o.metric = p.metric /\ DayOf(o) = DayOf(p) => o = p

EventRow(key) == CHOOSE e \in rows : e.id = key
Tracked(key) == \E e \in rows : e.id = key

Init ==
    /\ rows = SeededEvents
    /\ linking = {}
    /\ observations = {}
    /\ now = 60 * Day

Bounded == Cardinality(rows) + Cardinality(observations) < MaxRows

----------------------------------------------------------------------------
(* createEvent.                                                            *)

\* A row for an event that no source has reported yet.
NewRow(r, at) ==
    [id |-> r.key, kind |-> r.kind, title |-> r.title, tag |-> r.tag, notes |-> r.notes, at |-> at,
     source |-> r.source, sourceKind |-> r.sourceKind, links |-> {}]

\* The source that created an event owns its text.
Refreshed(e, r) == IF e.source = r.source THEN [e EXCEPT !.title = r.title, !.tag = r.tag, !.notes = r.notes] ELSE e

\* A feed may mention what the catalog does not know yet; a release is of a known project.
Resolved(r) == IF r.feed THEN {<< >>, r.entities} ELSE {r.entities}

\* Another transaction has created the event and not committed: the insert waits for it.
Locked(key) == ~Tracked(key) /\ \E t \in linking : t.report.key = key

\* The transaction of an item up to its count of the links.
Begin(r, at, entities) ==
    /\ ~Locked(r.key)
    /\ Overlapping \/ linking = {}
    /\ ~\E t \in linking : t.report.source = r.source
    /\ ~Tracked(r.key) => Bounded
    /\ linking' = linking \cup
         {[report |-> r, at |-> at, entities |-> entities, first |-> ~Tracked(r.key) \/ EventRow(r.key).links = {}]}
    /\ UNCHANGED << rows, observations, now >>

\* A bug to rule out: every report names a subject.
LinksOfEach(e, t) ==
    {[entity |-> t.entities[i], role |-> IF i = 1 THEN "subject" ELSE "related"] :
        i \in {i \in DOMAIN t.entities : \A l \in e.links : l.entity # t.entities[i]}}

NewLinks(e, t) ==
    {[entity |-> t.entities[i], role |-> IF t.first /\ i = 1 THEN "subject" ELSE "related"] :
        i \in {i \in DOMAIN t.entities : \A l \in e.links : l.entity # t.entities[i]}}

\* The rest of it, and its commit.
Commit(t) ==
    LET r == t.report
        e == IF Tracked(r.key) THEN Refreshed(EventRow(r.key), r) ELSE NewRow(r, t.at)
    IN /\ rows' = {f \in rows : f.id # r.key} \cup {[e EXCEPT !.links = @ \cup NewLinks(e, t)]}
       /\ linking' = linking \ {t}
       /\ UNCHANGED << observations, now >>

\* One observation of a counter per source and day: the last of the day.
RecordMetric(c, value) ==
    LET today == {o \in observations : o.entity = c[1] /\ o.metric = c[2] /\ DayOf(o) = now \div Day}
    IN /\ today # {} \/ Bounded
       /\ observations' = (observations \ today) \cup {[entity |-> c[1], metric |-> c[2], at |-> now, value |-> value]}
       /\ UNCHANGED << rows, linking, now >>

Tick(d) ==
    /\ linking = {} /\ now + d <= MaxTime
    /\ now' = now + d
    /\ UNCHANGED << rows, linking, observations >>

Next ==
    \/ \E r \in EventReports : \E offset \in r.offsets, entities \in Resolved(r) : Begin(r, now + offset, entities)
    \/ \E t \in linking : Commit(t)
    \/ \E c \in Counters, v \in Values : RecordMetric(c, v)
    \/ \E d \in Ticks : Tick(d)

Spec == Init /\ [][Next]_vars

----------------------------------------------------------------------------
(* Queries.                                                                *)

EntitiesOf(e) ==
    LET Role(role) == SelectSeq(Names, LAMBDA n : [entity |-> n, role |-> role] \in e.links)
        Listed(s, role) == [i \in DOMAIN s |-> [entity |-> s[i], role |-> role, runtime |-> s[i] \in Runtimes]]
    IN Listed(Role("subject"), "subject") \o Listed(Role("related"), "related")

EventDTO(e) ==
    [id |-> e.id, kind |-> e.kind, title |-> e.title, tag |-> e.tag, notes |-> e.notes, at |-> e.at,
     sourceKind |-> e.sourceKind, entities |-> EntitiesOf(e)]

FirstOf(s, n) == SubSeq(s, 1, IF Len(s) < n THEN Len(s) ELSE n)

Listing(S) == FoldSet(LAMBDA x, s : Append(s, x), << >>, S)

ListEvents(events, limit) == FirstOf(ByNewest(Listing({EventDTO(e) : e \in events})), limit)

ListMetricObservations(since) == {o \in observations : o.at >= since}

----------------------------------------------------------------------------
(* Pages.                                                                  *)

LatestLimit == 8

\* What Discover shows of a list of events.
Discover(events, time) == SelectDiscover(events, time, LatestLimit)

Read(events) == ListEvents(events, EventLimit)

EventGroups == << {"model_release"}, {"runtime_release"}, {"hardware_launch"}, {"benchmark_update"},
                  {"research_paper", "announcement"} >>

Digest(events) == [g \in DOMAIN EventGroups |-> DigestOf(EventGroups[g], events, now)]

\* A bug to rule out: the window holds the two weeks before the newest observation, and not its own first day.
WindowOfDays == (TrendingDays + TrendingBaselineMaxDays) * Day

ObservationWindow == (TrendingDays + TrendingBaselineMaxDays + 1) * Day

Trending == RankTrending(ListMetricObservations(now - ObservationWindow), now)

\* The first stars and likes by gain.
TrendingItems ==
    LET Top(metric, n) ==
            FirstOf(SortSeq(Listing({t \in Trending : t.metric = metric}), LAMBDA s, t : s.gain > t.gain), n)
    IN Top("stars", 3) \o Top("likes", 2)

HardwareEvents(shown) ==
    LET all == IF shown.topStory = NoEvent THEN shown.latest ELSE Append(shown.latest, shown.topStory)
    IN FirstOf(ByNewest(SelectSeq(all, LAMBDA e : e.kind = "hardware_launch")), 3)

\* The full timeline, and the part of it a reader asks for.
Timeline ==
    CollapseDuplicates(SelectSeq(ListEvents(rows, TimelineLimit),
                                 LAMBDA e : e.at <= now + FutureTolerance))
TimelineOf(kinds) == SelectSeq(Timeline, LAMBDA e : e.kind \in kinds)

----------------------------------------------------------------------------
(* Properties.                                                             *)

Ids(s) == {s[i].id : i \in DOMAIN s}

\* Once a live source has reported anything, no illustrative event is shown as current: not in the lead, not among the
\* latest, not in a digest or a month, even when what was reported is dated in the future and not shown itself
\* (currentEvents; docs/freshness.md "Live and fixture data").
FixturesNeverCompete ==
    LET events == Read(rows)
        fixtures == {e.id : e \in {f \in Range(events) : IsFixtureEvent(f)}}
        page == Discover(events, now)
    IN (\E e \in rows : IsLiveEvent(e)) =>
          /\ page.topStory # NoEvent => page.topStory.id \notin fixtures
          /\ Ids(page.latest) \cap fixtures = {}
          /\ \A g \in DOMAIN EventGroups : LET d == Digest(events)[g]
                                           IN d.latest # NoEvent => d.latest.id \notin fixtures
          /\ Ids(ActivityInMonth(Month(now), events, now)) \cap fixtures = {}

\* The sections of Discover are computed apart and agree: a top story is counted as recent in the hero, in the digest of
\* its part and, once it has happened, in the chart; it is not repeated below; a launch shown under hardware is one of them;
\* and none of them shows a fixture beside what live sources reported.
SurfacesAgree ==
    LET events == Read(rows)
        page == Discover(events, now)
        digest == Digest(events)
        top == page.topStory
    IN /\ top # NoEvent =>
             /\ top.id \notin Ids(page.latest)
             /\ page.recentReleaseCount > 0
             /\ \E g \in DOMAIN EventGroups : top.kind \in EventGroups[g] /\ digest[g].recentCount > 0
             /\ top.at <= now => top.id \in Ids(ActivityInMonth(Month(top.at), events, now))
       /\ page.recentReleaseCount <= FoldFunction(LAMBDA d, sum : d.recentCount + sum, 0, digest)
       /\ page.mode = "fixture" => top = NoEvent
       /\ FixturesNeverCompete
       /\ Ids(HardwareEvents(page)) \subseteq Ids(page.latest) \cup {top.id : t \in {top} \ {NoEvent}}

\* The window Discover reads holds every baseline that a counter could be compared with: the trend is the one of the whole
\* history, although observations are dated by the day and cut off by the instant (page.tsx:58).
WindowIsEnough == Trending = RankTrending(observations, now)

\* What was not current before.
NewlyCurrent(before, after) == Range(after) \ Range(before)

\* A story stops leading only when it is too old, when its source edited it, or when another event became current that is at
\* least as significant or a newer copy of it, or that hides the copy by which an older one was hidden (collapseDuplicates
\* compares with the copies kept, so an older one can come back).
StoryChangesForAReason ==
    [][LET before == Eligible(Read(rows), now)
           after == Eligible(Read(rows'), now')
           top == Discover(Read(rows), now).topStory
           next == Discover(Read(rows'), now').topStory
       IN top # NoEvent /\ (next = NoEvent \/ next.id # top.id) =>
             \/ ~Since(top, now', TopStoryDays)
             \/ top \notin Range(after)
             \/ \E e \in NewlyCurrent(before, after) :
                   \/ EventSignificance(e) >= EventSignificance(top)
                   \/ Copies(e, top) /\ Newer(e, top)
                   \/ \E f \in Range(before) : Copies(e, f) /\ Newer(e, f)]_vars

\* The sources that report one event do not take its subject from one another: the first that linked it named it.
SubjectSticks ==
    [][\A e \in rows : \A f \in rows' :
          (e.id = f.id /\ e.links # {}) =>
              {l \in f.links : l.role = "subject"} = {l \in e.links : l.role = "subject"}]_vars

\* "The most significant live event (significance >= 2) from the last 14 days" leads (docs/freshness.md:42): when there is
\* one, there is a top story.
MajorReleaseLeads ==
    (\E e \in Range(Read(rows)) : MayLead(e, now) /\ IsLiveEvent(e) /\ e.at <= now) => Discover(Read(rows), now).topStory # NoEvent

\* "Re-published copies of one event are shown once, the newest copy" (docs/freshness.md:53): no event is shown that has a
\* newer current copy.
NewestCopyIsShown ==
    LET eligible == Eligible(Read(rows), now)
    IN \A e \in Range(CollapseDuplicates(eligible)) : ~\E f \in Range(eligible) : Copies(e, f) /\ Newer(f, e)

\* "Everything by event time" (docs/freshness.md:49): a part of the ecosystem of which an event is tracked is not
\* shown as empty.
TimelineShowsEveryPart ==
    \A g \in DOMAIN EventGroups :
        (\E e \in rows : e.kind \in EventGroups[g] /\ e.at <= now) => TimelineOf(EventGroups[g]) # << >>

\* One entity is the subject of an event, however many sources report it (createEvent:1013).
OneSubject == \A e \in rows : Cardinality({l \in e.links : l.role = "subject"}) <= 1
=============================================================================
