------------------------------ MODULE Freshness ------------------------------
(***************************************************************************)
(* The rules of packages/domain/src/freshness.ts: which events a surface   *)
(* that says "now" may show, which of them leads, and what is trending.    *)
(* Time counts in half days; an event keeps its title and its notes as     *)
(* values that are equal when their normalised texts are.                  *)
(***************************************************************************)
EXTENDS Integers, Sequences, FiniteSets, SequencesExt

CONSTANTS
    NoTag,          \* a release without a recognisable version
    NoEntity,       \* nothing is linked to the event
    NoEvent         \* null

Day == 2
TopStoryDays == 14
RecentDays == 30
TrendingDays == 7
TrendingBaselineMaxDays == 14
DuplicateWindow == 2 * Day
FutureTolerance == Day
TopStoryMinSignificance == 2
LatestMinSignificance == 1

TrendingMetrics == {"stars", "likes"}

OriginOfSourceKind(kind) ==
    CASE kind = "fixture" -> "fixture"
      [] kind = "editorial" -> "editorial"
      [] OTHER -> "live"

\* The origin of an event without a source record is not known.
IsFixtureEvent(e) == e.sourceKind # "none" /\ OriginOfSourceKind(e.sourceKind) = "fixture"
IsLiveEvent(e) == e.sourceKind # "none" /\ OriginOfSourceKind(e.sourceKind) = "live"

----------------------------------------------------------------------------
(* Significance.                                                           *)

ReleaseLevel(tag) ==
    CASE tag = NoTag -> "unknown"
      [] tag.build -> "build"
      [] tag.prefixed -> "component"
      [] tag.patch > 0 \/ tag.further -> "patch"
      [] OTHER -> IF tag.major > 0 /\ tag.minor = 0 THEN "major" ELSE "minor"

Launches == {"model_release", "hardware_launch"}

EventSignificance(e) ==
    CASE e.kind \in Launches -> 3
      [] e.kind # "runtime_release" -> 1
      [] OTHER -> LET level == ReleaseLevel(e.tag)
                  IN CASE level = "major" -> 3
                       [] level = "minor" -> 2
                       [] level = "unknown" -> 1
                       [] OTHER -> 0

----------------------------------------------------------------------------
(* Copies of one event.                                                    *)

Newer(e, f) == e.at > f.at \/ (e.at = f.at /\ e.id < f.id)
ByNewest(events) == SortSeq(events, Newer)

\* The subject, which the query lists first, or else the first entity of the event.
SubjectOf(e) == IF e.entities = << >> THEN NoEntity ELSE e.entities[1].entity

Distance(s, t) == IF s < t THEN t - s ELSE s - t

Copies(e, f) ==
    /\ SubjectOf(e) # NoEntity /\ SubjectOf(e) = SubjectOf(f)
    /\ e.kind = f.kind
    /\ Distance(e.at, f.at) <= DuplicateWindow
    /\ e.title = f.title \/ (e.notes.substantive /\ e.notes = f.notes)

CollapseDuplicates(events) ==
    FoldLeft(LAMBDA kept, e : IF \E k \in Range(kept) : Copies(k, e) THEN kept ELSE Append(kept, e),
             << >>, ByNewest(events))

----------------------------------------------------------------------------
(* What a surface that says "now" may show.                                *)

\* A bug to rule out: a live event that may not be shown does not count as live data.
ModeOfShown(events, now) ==
    IF \E e \in Range(events) : IsLiveEvent(e) /\ e.at <= now + FutureTolerance THEN "live" ELSE "fixture"

ModeOf(events, now) == IF \E e \in Range(events) : IsLiveEvent(e) THEN "live" ELSE "fixture"

Eligible(events, now) ==
    LET mode == ModeOf(events, now)
    IN SelectSeq(events, LAMBDA e : e.at <= now + FutureTolerance /\ ~(mode = "live" /\ IsFixtureEvent(e)))

CurrentEvents(events, now) == CollapseDuplicates(Eligible(events, now))

Since(e, now, days) == now - e.at <= days * Day

\* A bug to rule out: a fixture may lead.
MayLeadAnyway(e, now) == Since(e, now, TopStoryDays) /\ EventSignificance(e) >= TopStoryMinSignificance

MayLead(e, now) ==
    /\ ~IsFixtureEvent(e)
    /\ Since(e, now, TopStoryDays)
    /\ EventSignificance(e) >= TopStoryMinSignificance

KindRank(e) == IF e.kind \in Launches THEN 1 ELSE 0
RuntimeRank(e) == IF \E i \in DOMAIN e.entities : e.entities[i].runtime THEN 1 ELSE 0
LeadKey(e) == << EventSignificance(e), KindRank(e), RuntimeRank(e) >>

Outranks(k, l) == \E i \in DOMAIN k : k[i] > l[i] /\ \A j \in 1 .. i - 1 : k[j] = l[j]

\* A bug to rule out: the newest leads, whatever it is.
LeadsByTime(e, f) == Newer(e, f)

Leads(e, f) == Outranks(LeadKey(e), LeadKey(f)) \/ (LeadKey(e) = LeadKey(f) /\ Newer(e, f))

TopStory(eligible, now) ==
    LET leads == SortSeq(SelectSeq(eligible, LAMBDA e : MayLead(e, now)), Leads)
    IN IF leads = << >> THEN NoEvent ELSE Head(leads)

\* Events, newest first, of significance, the top story apart.
Latest(eligible, top, limit) ==
    LET news == SelectSeq(eligible, LAMBDA e : e # top /\ EventSignificance(e) >= LatestMinSignificance)
    IN SubSeq(news, 1, IF Len(news) < limit THEN Len(news) ELSE limit)

IsRecentRelease(e, now) == ~IsFixtureEvent(e) /\ Since(e, now, RecentDays) /\ EventSignificance(e) >= 2

SelectDiscover(events, now, limit) ==
    LET eligible == CurrentEvents(events, now)
        top == TopStory(eligible, now)
    IN [mode |-> ModeOf(events, now), topStory |-> top, latest |-> Latest(eligible, top, limit),
        recentReleaseCount |-> Len(SelectSeq(eligible, LAMBDA e : IsRecentRelease(e, now)))]

Noticed(eligible) == SelectSeq(eligible, LAMBDA e : EventSignificance(e) >= LatestMinSignificance)

\* How much happened in a part of the ecosystem lately, and the last thing that did.
DigestOf(kinds, events, now) ==
    LET mine == SelectSeq(Noticed(CurrentEvents(events, now)), LAMBDA e : e.kind \in kinds)
    IN [recentCount |-> Len(SelectSeq(mine, LAMBDA e : Since(e, now, RecentDays))),
        latest |-> IF mine = << >> THEN NoEvent ELSE Head(mine)]

Month(t) == t \div (30 * Day)

\* Releases and launches in the i-th of the months that end with this one.
ActivityInMonth(month, events, now) ==
    SelectSeq(CurrentEvents(events, now),
              LAMBDA e : EventSignificance(e) >= 2 /\ e.at <= now /\ Month(e.at) = month)

----------------------------------------------------------------------------
(* Trending: growth of a counter that only grows, over the last week.      *)

DayOf(o) == o.at \div Day

Series(observations, entity, metric) ==
    {o \in observations : o.entity = entity /\ o.metric = metric}

Newest(series) == CHOOSE o \in series : \A p \in series : p.at <= o.at

IsBaseline(o, latest) ==
    DayOf(latest) - DayOf(o) >= TrendingDays /\ DayOf(latest) - DayOf(o) <= TrendingBaselineMaxDays

\* The items of one series: at most one.
TrendOf(series, now) ==
    LET latest == Newest(series)
        baselines == {o \in series : IsBaseline(o, latest)}
        baseline == Newest(baselines)
    IN IF series = {} THEN {}
       ELSE IF now - latest.at > TrendingDays * Day \/ baselines = {} THEN {}
       ELSE IF latest.value <= baseline.value THEN {}
       ELSE {[entity |-> latest.entity, metric |-> latest.metric, gain |-> latest.value - baseline.value,
              from |-> baseline.value, to |-> latest.value, since |-> DayOf(baseline)]}

\* The sort by gain is left out: the page shows the first few of each metric.
RankTrending(observations, now) ==
    UNION {TrendOf(Series(observations, o.entity, o.metric), now) : o \in {o \in observations : o.metric \in TrendingMetrics}}
=============================================================================
