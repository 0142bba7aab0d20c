------------------------------ MODULE PageProofs ------------------------------
(***************************************************************************)
(* Theorems about what the pages read.                                     *)
(*                                                                         *)
(* The event page (FrontPage): the number of days it loads never decides   *)
(* what it calls a trend, and what an event is about stays what it was.    *)
(*                                                                         *)
(* Benchmark results (Benchmarks, with the state of Catalog beside it):    *)
(* what the tables hold whoever writes them, that no claim of a number     *)
(* makes a run the headline, and that the table of a model's page supports *)
(* the headline.  That a finite set of runs has a first one follows from   *)
(* the least of the cardinalities of the sets that have none.              *)
(***************************************************************************)
EXTENDS Catalog, FrontPage, FiniteSetTheorems, TLAPS

-----------------------------------------------------------------------------
(* The largest of a set: the library's theorems by induction take an       *)
(* operator, so these go by the least counterexample.                      *)

(* A finite set that a relation orders totally has a first element. *)
LEMMA FirstOfFinite ==
    ASSUME NEW S, IsFiniteSet(S), S # {}, NEW R,
           \A x, y \in S : x = y \/ <<x, y>> \in R \/ <<y, x>> \in R,
           \A x, y, z \in S : <<x, y>> \in R /\ <<y, z>> \in R => <<x, z>> \in R
    PROVE  \E x \in S : \A y \in S : y = x \/ <<x, y>> \in R
<1> DEFINE Heads(A) == {x \in A : \A y \in A : y = x \/ <<x, y>> \in R}
           Headless == {A \in SUBSET S : A # {} /\ Heads(A) = {}}
           T == {Cardinality(A) : A \in Headless}
<1>1. SUFFICES ASSUME Heads(S) = {} PROVE FALSE
  OBVIOUS
<1>2. \A A \in SUBSET S : IsFiniteSet(A) /\ Cardinality(A) \in Nat
  BY FS_Subset, FS_CardinalityType
<1>3. T \subseteq Nat /\ T # {}
  BY <1>1, <1>2
<1>4. PICK n \in T : \A m \in T : n <= m
  BY <1>3, LeastNat
<1>5. PICK A \in Headless : Cardinality(A) = n
  OBVIOUS
<1>6. PICK a \in A : TRUE
  OBVIOUS
<1>7. A \ {a} \in SUBSET S /\ Cardinality(A \ {a}) = n - 1 /\ n \in Nat
  BY <1>2, <1>3, <1>5, <1>6, FS_RemoveElement
<1>8. A \ {a} \notin Headless
  <2>1. n - 1 \notin T
    <3> HIDE DEF T
    <3>1. \A m \in T : n <= m
      BY <1>4
    <3>2. n \in Nat
      BY <1>3, <1>4
    <3> QED
      BY <3>1, <3>2
  <2> QED
    BY <1>7, <2>1
<1>9. A \ {a} # {}
  BY <1>5, <1>6
<1>10. PICK x \in A \ {a} : \A y \in A \ {a} : y = x \/ <<x, y>> \in R
  BY <1>7, <1>8, <1>9
<1>11. CASE <<x, a>> \in R
  BY <1>5, <1>10, <1>11
<1>12. CASE <<a, x>> \in R
  <2>1. \A y \in A : y = a \/ <<a, y>> \in R
    BY <1>5, <1>6, <1>10, <1>12
  <2> QED
    BY <1>5, <1>6, <2>1
<1> QED
  BY <1>5, <1>6, <1>10, <1>11, <1>12

-----------------------------------------------------------------------------
(* Trends.                                                                 *)

LEMMA NewestIsNewest ==
    ASSUME NEW series, series # {}, NEW bound \in Nat, \A o \in series : o.at \in Nat /\ o.at <= bound
    PROVE  Newest(series) \in series /\ \A p \in series : p.at <= Newest(series).at
<1> DEFINE Ages == {bound - o.at : o \in series}
<1>1. Ages \subseteq Nat /\ Ages # {}
  OBVIOUS
<1>2. PICK n \in Ages : \A m \in Ages : n <= m
  BY <1>1, LeastNat
<1>3. PICK o \in series : n = bound - o.at
  OBVIOUS
<1>4. ASSUME NEW p \in series PROVE p.at <= o.at
  <2>1. n <= bound - p.at
    BY <1>2
  <2> QED
    BY <1>3, <2>1
<1> QED
  BY <1>3, <1>4 DEF Newest

(* A recent part of a series has the newest observation of the whole, if it is recent. *)
LEMMA NewestOfPart ==
    ASSUME NEW series, NEW part \in SUBSET series, part # {}, NEW bound \in Nat,
           \A o \in series : o.at \in Nat /\ o.at <= bound,
           \A o, p \in series : o.at = p.at => o = p,
           \A o \in series \ part, p \in part : o.at < p.at
    PROVE  Newest(part) = Newest(series)
<1>1. /\ Newest(series) \in series /\ \A p \in series : p.at <= Newest(series).at
      /\ Newest(part) \in part /\ \A p \in part : p.at <= Newest(part).at
  BY NewestIsNewest
<1>2. Newest(series) \in part
  BY <1>1
<1> QED
  BY <1>1, <1>2

(* The window holds the last observation, if it is recent, and every baseline of it. *)
LEMMA TrendOfWindow ==
    ASSUME NEW time \in Nat, NEW series, \A o \in series : o.at \in Nat /\ o.at <= time,
           \A o, p \in series : DayOf(o) = DayOf(p) => o = p
    PROVE  TrendOf(series, time) = TrendOf({o \in series : o.at >= time - ObservationWindow}, time)
<1> DEFINE part == {o \in series : o.at >= time - 44}
           latest == Newest(series)
           baselines(S) == {o \in S : IsBaseline(o, latest)}
<1>1. ObservationWindow = 44 /\ TrendingDays * Day = 14
  BY DEF ObservationWindow, TrendingDays, TrendingBaselineMaxDays, Day
<1>2. SUFFICES TrendOf(series, time) = TrendOf(part, time)
  BY <1>1
<1>3. CASE series = {}
  BY <1>3 DEF TrendOf
<1>4. ASSUME series # {} PROVE latest \in series /\ \A p \in series : p.at <= latest.at
  BY <1>4, NewestIsNewest
<1>5. ASSUME series # {}, part # {} PROVE Newest(part) = latest
  <2>1. \A o, p \in series : o.at = p.at => o = p
    BY DEF DayOf
  <2>2. \A o \in series \ part, p \in part : o.at < p.at
    OBVIOUS
  <2> QED
    BY <1>5, <2>1, <2>2, NewestOfPart
<1>6. CASE series # {} /\ time - latest.at > 14
  <2>1. TrendOf(series, time) = {}
    BY <1>1, <1>6 DEF TrendOf
  <2>2. TrendOf(part, time) = {}
    BY <1>1, <1>5, <1>6 DEF TrendOf
  <2> QED
    BY <2>1, <2>2
<1>7. CASE series # {} /\ ~(time - latest.at > 14)
  <2>1. latest \in part
    BY <1>4, <1>7
  <2>2. Newest(part) = latest
    BY <1>5, <1>7, <2>1
  <2>3. ASSUME NEW o \in series, IsBaseline(o, latest) PROVE o \in part
    <3>1. latest.at \div 2 - o.at \div 2 <= 14
      BY <2>3 DEF IsBaseline, DayOf, TrendingBaselineMaxDays, Day
    <3>2. o.at \in Nat /\ latest.at \in Nat /\ time - latest.at <= 14
      BY <1>4, <1>7
    <3> QED
      BY <3>1, <3>2
  <2>4. baselines(part) = baselines(series)
    BY <2>3
  <2> QED
    BY <1>7, <2>1, <2>2, <2>4 DEF TrendOf
<1> QED
  BY <1>3, <1>6, <1>7

-----------------------------------------------------------------------------
(* Every step of the front page keeps its invariant.                       *)

LinkingOK ==
    \A t \in linking :
        /\ t.report \in EventReports /\ t.at \in Int /\ t.first \in BOOLEAN
        /\ t.entities \in {<< >>, t.report.entities}

\* One item at a time: what the count of the links said still holds when the links are added.
CountIsCurrent ==
    ~Overlapping =>
        /\ \A t, u \in linking : t = u
        /\ \A t \in linking : t.first <=> (~Tracked(t.report.key) \/ EventRow(t.report.key).links = {})

ObservedIsPast == \A o \in observations : o.at <= now

FrontInv == TypeOK /\ LinkingOK /\ CountIsCurrent /\ ObservedIsPast

LEMMA RowOfKey ==
    ASSUME EventsAreKeyed(rows), NEW e \in rows
    PROVE  Tracked(e.id) /\ EventRow(e.id) = e
BY DEF EventsAreKeyed, Tracked, EventRow

LEMMA BeginStep ==
    ASSUME FrontInv, NEW r \in EventReports, NEW at \in Int, NEW entities \in Resolved(r), Begin(r, at, entities)
    PROVE  FrontInv'
<1> DEFINE fresh == ~Tracked(r.key) \/ EventRow(r.key).links = {}
           t == [report |-> r, at |-> at, entities |-> entities, first |-> fresh]
<1>1. linking' = linking \cup {t} /\ UNCHANGED << rows, observations, now >>
  BY DEF Begin
<1>5. fresh \in BOOLEAN /\ fresh' = fresh
  BY <1>1, Zenon DEF Tracked, EventRow
<1> HIDE DEF fresh
<1>2. TypeOK' /\ ObservedIsPast'
  BY <1>1 DEF FrontInv, TypeOK, ObservedIsPast
<1>3. LinkingOK'
  <2>1. t.report \in EventReports /\ t.at \in Int /\ t.first \in BOOLEAN /\ t.entities \in {<< >>, t.report.entities}
    BY <1>5 DEF Resolved
  <2> QED
    BY <1>1, <2>1 DEF FrontInv, LinkingOK
<1>4. CountIsCurrent'
  <2>1. SUFFICES ASSUME ~Overlapping PROVE CountIsCurrent'
    BY DEF CountIsCurrent
  <2>2. linking' = {t}
    BY <1>1, <2>1 DEF Begin
  <2>3. ASSUME NEW u \in linking' PROVE u.first <=> (~Tracked(u.report.key)' \/ EventRow(u.report.key)'.links = {})
    <3>1. u.report = r /\ u.first = fresh
      BY <2>2
    <3>2. fresh <=> fresh'
      BY <1>5
    <3> QED
      BY <3>1, <3>2, Zenon DEF fresh
  <2>4. \A u, v \in linking' : u = v
    BY <2>2
  <2> QED
    BY <2>3, <2>4, Zenon DEF CountIsCurrent
<1> QED
  BY <1>2, <1>3, <1>4 DEF FrontInv

(* What a commit writes: the row of its key, with the text of its source and the links that were missing. *)
LEMMA CommittedRow ==
    ASSUME FrontInv, NEW t \in linking
    PROVE  LET r == t.report
               e == IF Tracked(r.key) THEN Refreshed(EventRow(r.key), r) ELSE NewRow(r, t.at)
               f == [e EXCEPT !.links = @ \cup NewLinks(e, t)]
           IN /\ f \in EventRows /\ f.id = r.key
              /\ \A l, k \in f.links : l.entity = k.entity => l = k
              /\ Tracked(r.key) => f.links = EventRow(r.key).links \cup NewLinks(e, t)
<1> DEFINE r == t.report
           e == IF Tracked(r.key) THEN Refreshed(EventRow(r.key), r) ELSE NewRow(r, t.at)
           f == [e EXCEPT !.links = @ \cup NewLinks(e, t)]
<1>2. r \in EventReports /\ t.at \in Int /\ t.entities \in Seq(Range(Names))
      /\ \A i, j \in DOMAIN t.entities : t.entities[i] = t.entities[j] => i = j
  <2>1. r \in EventReports /\ t.at \in Int /\ t.entities \in {<< >>, r.entities}
    BY DEF FrontInv, LinkingOK
  <2>2. r.entities \in Seq(Range(Names)) /\ \A i, j \in DOMAIN r.entities : r.entities[i] = r.entities[j] => i = j
    BY <2>1, FrontPageAssumption
  <2>3. CASE t.entities = << >>
    BY <2>1, <2>3
  <2>4. CASE t.entities = r.entities
    BY <2>1, <2>2, <2>4
  <2> QED
    BY <2>1, <2>3, <2>4
<1>7. Tracked(r.key) => Refreshed(EventRow(r.key), r).links = EventRow(r.key).links
  <2>1. SUFFICES ASSUME Tracked(r.key) PROVE Refreshed(EventRow(r.key), r).links = EventRow(r.key).links
    OBVIOUS
  <2>2. EventRow(r.key) \in rows
    BY <2>1, RowOfKey DEF Tracked, FrontInv, TypeOK
  <2> QED
    BY <2>2 DEF FrontInv, TypeOK, EventRows, Refreshed
<1>3. e \in EventRows /\ e.id = r.key /\ \A l, k \in e.links : l.entity = k.entity => l = k
  <2>1. CASE Tracked(r.key)
    <3>1. EventRow(r.key) \in rows /\ EventRow(r.key).id = r.key
      BY <2>1, RowOfKey DEF Tracked, FrontInv, TypeOK
    <3>2. EventRow(r.key) \in EventRows
      BY <3>1 DEF FrontInv, TypeOK
    <3>3. r.title \in STRING /\ r.tag \in {s.tag : s \in EventReports \cup SeededEvents} /\ r.notes \in {s.notes : s \in EventReports \cup SeededEvents}
      BY <1>2, FrontPageAssumption
    <3>4. Refreshed(EventRow(r.key), r) \in EventRows /\ Refreshed(EventRow(r.key), r).id = r.key
          /\ Refreshed(EventRow(r.key), r).links = EventRow(r.key).links
      BY <3>1, <3>2, <3>3 DEF Refreshed, EventRows
    <3> QED
      BY <2>1, <3>1, <3>4 DEF FrontInv, TypeOK, EventsAreKeyed
  <2>2. CASE ~Tracked(r.key)
    <3>1. r.key \in Nat /\ {r.kind, r.title, r.source, r.sourceKind} \subseteq STRING
      BY <1>2, FrontPageAssumption
    <3> QED
      BY <1>2, <2>2, <3>1 DEF NewRow, EventRows
  <2> QED
    BY <2>1, <2>2
<1>4. NewLinks(e, t) \subseteq [entity : Range(Names), role : {"subject", "related"}]
      /\ \A l \in NewLinks(e, t), k \in e.links \cup NewLinks(e, t) : l.entity = k.entity => l = k
  BY <1>2 DEF NewLinks
<1>5. f \in EventRows /\ f.id = r.key /\ f.links = e.links \cup NewLinks(e, t)
  BY <1>3, <1>4 DEF EventRows
<1>6. Tracked(r.key) => e.links = EventRow(r.key).links
  BY <1>7
<1>8. \A l, k \in f.links : l.entity = k.entity => l = k
  BY <1>3, <1>4, <1>5
<1> QED
  BY <1>5, <1>6, <1>8

LEMMA CommitStep ==
    ASSUME FrontInv, NEW t \in linking, Commit(t)
    PROVE  FrontInv'
<1> DEFINE r == t.report
           e == IF Tracked(r.key) THEN Refreshed(EventRow(r.key), r) ELSE NewRow(r, t.at)
           f == [e EXCEPT !.links = @ \cup NewLinks(e, t)]
<1>1. /\ rows' = {g \in rows : g.id # r.key} \cup {f} /\ linking' = linking \ {t}
      /\ UNCHANGED << observations, now >>
  BY DEF Commit
<1>5. f \in EventRows /\ f.id = r.key /\ \A l, k \in f.links : l.entity = k.entity => l = k
  BY CommittedRow
<1> HIDE DEF f
<1>6. EventsAreKeyed(rows')
  <2>1. \A g \in {g \in rows : g.id # r.key} : \A l, k \in g.links : l.entity = k.entity => l = k
    BY DEF FrontInv, TypeOK, EventsAreKeyed
  <2>2. \A l, k \in f.links : l.entity = k.entity => l = k
    BY <1>5
  <2>3. \A g, h \in rows' : g.id = h.id => g = h
    BY <1>1, <1>5 DEF FrontInv, TypeOK, EventsAreKeyed
  <2> QED
    BY <1>1, <2>1, <2>2, <2>3 DEF EventsAreKeyed
<1>7. TypeOK' /\ ObservedIsPast'
  BY <1>1, <1>5, <1>6 DEF FrontInv, TypeOK, ObservedIsPast
<1>8. LinkingOK'
  BY <1>1 DEF FrontInv, LinkingOK
<1>9. CountIsCurrent'
  BY <1>1 DEF FrontInv, CountIsCurrent
<1> QED
  BY <1>7, <1>8, <1>9 DEF FrontInv

LEMMA RecordStep ==
    ASSUME FrontInv, NEW c \in Counters, NEW value \in Values, RecordMetric(c, value)
    PROVE  FrontInv'
<1> DEFINE today == {o \in observations : o.entity = c[1] /\ o.metric = c[2] /\ DayOf(o) = now \div Day}
           new == [entity |-> c[1], metric |-> c[2], at |-> now, value |-> value]
<1>1. observations' = (observations \ today) \cup {new} /\ UNCHANGED << rows, linking, now >>
  BY DEF RecordMetric
<1>2. new \in ObservationRows /\ DayOf(new) = now \div Day
  BY FrontPageAssumption DEF FrontInv, TypeOK, ObservationRows, DayOf
<1>3. TypeOK'
  BY <1>1, <1>2 DEF FrontInv, TypeOK
<1>4. ObservedIsPast'
  BY <1>1 DEF FrontInv, TypeOK, ObservedIsPast
<1> QED
  BY <1>1, <1>3, <1>4 DEF FrontInv, LinkingOK, CountIsCurrent, Tracked, EventRow

LEMMA FrontStep == FrontInv /\ [Next]_vars => FrontInv'
<1> SUFFICES ASSUME FrontInv, [Next]_vars PROVE FrontInv'
  OBVIOUS
<1>1. ASSUME NEW r \in EventReports, NEW offset \in r.offsets, NEW entities \in Resolved(r), Begin(r, now + offset, entities)
      PROVE  FrontInv'
  <2>1. now + offset \in Int
    BY FrontPageAssumption DEF FrontInv, TypeOK
  <2> QED
    BY <1>1, <2>1, BeginStep
<1>2. ASSUME NEW t \in linking, Commit(t) PROVE FrontInv'
  BY <1>2, CommitStep
<1>3. ASSUME NEW c \in Counters, NEW v \in Values, RecordMetric(c, v) PROVE FrontInv'
  BY <1>3, RecordStep
<1>4. ASSUME NEW d \in Ticks, Tick(d) PROVE FrontInv'
  <2>1. now' = now + d /\ d \in Nat /\ UNCHANGED << rows, linking, observations >>
    BY <1>4, FrontPageAssumption DEF Tick
  <2> QED
    BY <2>1 DEF FrontInv, TypeOK, LinkingOK, CountIsCurrent, ObservedIsPast, Tracked, EventRow, ObservationRows
<1>5. CASE UNCHANGED vars
  BY <1>5 DEF vars, FrontInv, TypeOK, LinkingOK, CountIsCurrent, ObservedIsPast, Tracked, EventRow
<1> QED
  BY <1>1, <1>2, <1>3, <1>4, <1>5 DEF Next

THEOREM FrontInductive == Spec => []FrontInv
<1>1. Init => FrontInv
  BY FrontPageAssumption DEF Init, FrontInv, TypeOK, LinkingOK, CountIsCurrent, ObservedIsPast, Day
<1> QED
  BY <1>1, FrontStep, PTL DEF Spec

(* The tables of events and counters hold what their schema allows: every event and every link has its key once, *)
(* every counter one observation a day (createEvent, recordMetrics). *)
THEOREM FrontPageTypeCorrect == Spec => []TypeOK
<1>1. FrontInv => TypeOK
  BY DEF FrontInv
<1> QED
  BY <1>1, FrontInductive, PTL

(* The window Discover reads gives the trends of the whole history, at any time of day, for any counters and clock. *)
THEOREM WindowIsEnoughHolds == Spec => []WindowIsEnough
<1>1. FrontInv => WindowIsEnough
  <2> SUFFICES ASSUME FrontInv PROVE Trending = RankTrending(observations, now)
    BY DEF WindowIsEnough
  <2> DEFINE recent == ListMetricObservations(now - ObservationWindow)
             SeriesOf(S, o) == Series(S, o.entity, o.metric)
             Counted(S) == {o \in S : o.metric \in TrendingMetrics}
  <2>1. recent = {o \in observations : o.at >= now - ObservationWindow}
    BY DEF ListMetricObservations
  <2>2. ASSUME NEW o \in observations PROVE TrendOf(SeriesOf(recent, o), now) = TrendOf(SeriesOf(observations, o), now)
    <3>1. SeriesOf(recent, o) = {p \in SeriesOf(observations, o) : p.at >= now - ObservationWindow}
      BY <2>1 DEF Series
    <3>2. /\ \A p \in SeriesOf(observations, o) : p.at \in Nat /\ p.at <= now
          /\ \A p, q \in SeriesOf(observations, o) : DayOf(p) = DayOf(q) => p = q
      BY DEF Series, FrontInv, TypeOK, ObservationRows, ObservedIsPast
    <3>3. now \in Nat
      BY DEF FrontInv, TypeOK
    <3> QED
      BY <3>1, <3>2, <3>3, TrendOfWindow
  <2>3. ASSUME NEW o \in Counted(observations), NEW x \in TrendOf(SeriesOf(observations, o), now)
        PROVE  \E p \in Counted(recent) : x \in TrendOf(SeriesOf(recent, p), now)
    <3>1. x \in TrendOf(SeriesOf(recent, o), now)
      BY <2>2, <2>3
    <3>2. SeriesOf(recent, o) # {}
      BY <3>1 DEF TrendOf
    <3>3. PICK p \in recent : p.entity = o.entity /\ p.metric = o.metric
      BY <3>2 DEF Series
    <3> QED
      BY <3>1, <3>3
  <2>4. ASSUME NEW o \in Counted(recent), NEW x \in TrendOf(SeriesOf(recent, o), now)
        PROVE  \E p \in Counted(observations) : x \in TrendOf(SeriesOf(observations, p), now)
    BY <2>1, <2>2, <2>4
  <2> QED
    BY <2>3, <2>4 DEF Trending, RankTrending
<1> QED
  BY <1>1, FrontInductive, PTL

(* Sources that report one event one after the other leave its subject to the first that linked it (createEvent). *)
THEOREM SubjectSticksHolds == ASSUME ~Overlapping PROVE Spec => SubjectSticks
<1> DEFINE Sticks == \A e \in rows : \A f \in rows' :
              (e.id = f.id /\ e.links # {}) =>
                  {l \in f.links : l.role = "subject"} = {l \in e.links : l.role = "subject"}
<1>1. FrontInv /\ [Next]_vars => [Sticks]_vars
  <2> SUFFICES ASSUME FrontInv, [Next]_vars, NEW e \in rows, NEW f \in rows', e.id = f.id, e.links # {}
               PROVE  {l \in f.links : l.role = "subject"} = {l \in e.links : l.role = "subject"}
    OBVIOUS
  <2>1. CASE rows' = rows
    BY <2>1 DEF FrontInv, TypeOK, EventsAreKeyed
  <2>2. ASSUME NEW t \in linking, Commit(t)
        PROVE  {l \in f.links : l.role = "subject"} = {l \in e.links : l.role = "subject"}
    <3> DEFINE r == t.report
               before == IF Tracked(r.key) THEN Refreshed(EventRow(r.key), r) ELSE NewRow(r, t.at)
               after == [before EXCEPT !.links = @ \cup NewLinks(before, t)]
    <3>1. rows' = {g \in rows : g.id # r.key} \cup {after}
      BY <2>2 DEF Commit
    <3>2. CASE e.id # r.key
      <4>1. f \in rows \/ f = after
        BY <3>1
      <4>2. after.id = r.key
        BY <2>2, CommittedRow
      <4> QED
        BY <3>2, <4>1, <4>2 DEF FrontInv, TypeOK, EventsAreKeyed
    <3>3. CASE e.id = r.key
      <4>1. EventRow(r.key) = e /\ Tracked(r.key)
        BY <3>3, RowOfKey DEF FrontInv, TypeOK
      <4>2. f = after
        BY <3>1, <3>3
      <4>3. after.links = e.links \cup NewLinks(before, t)
        BY <2>2, <4>1, CommittedRow
      <4>4. ~t.first
        BY <4>1 DEF FrontInv, CountIsCurrent
      <4>5. \A l \in NewLinks(before, t) : l.role = "related"
        BY <4>4 DEF NewLinks
      <4> QED
        BY <4>2, <4>3, <4>5
    <3> QED
      BY <3>2, <3>3
  <2>3. rows' = rows \/ \E t \in linking : Commit(t)
    BY DEF Next, vars, Begin, RecordMetric, Tick
  <2> QED
    BY <2>1, <2>2, <2>3
<1> QED
  BY <1>1, FrontInductive, PTL DEF Spec, SubjectSticks

-----------------------------------------------------------------------------
(* Benchmark results: the tables and the import under way.                 *)

\* What the import holds between two statements is still so when it executes the next.
ImportOK ==
    /\ import = [f \in {"stage", "table", "subtasks", "left", "id"} |-> import[f]]
    /\ import.subtasks \subseteq DOMAIN benchmarkSubtask
    /\ At("insert") \/ At("results") => Row.repository \in identifiers /\ DOMAIN Row.scores \subseteq import.subtasks
    /\ At("insert") => Row.dedupeKey = Null \/ WithKey(Row.dedupeKey) = {}
    /\ At("results") => \E run \in benchmarkRun : run.id = import.id

\* No subtask that the database had is lost.
TreeGrows == \E older \in OlderTrees : DOMAIN older \subseteq DOMAIN benchmarkSubtask

BenchInv == BenchmarkTypeOK /\ TreeGrows /\ IsFiniteSet(benchmarkRun) /\ ImportOK

LEMMA ClockIsNat == ASSUME BenchInv PROVE Clock \in Nat
<1> DEFINE R == {p \in benchmarkRun \X benchmarkRun : p[1].createdAt >= p[2].createdAt}
           times == {run.createdAt : run \in benchmarkRun}
<1>1. \A run \in benchmarkRun : run.createdAt \in Nat
  BY DEF BenchInv, BenchmarkTypeOK, BenchmarkRunOK
<1>2. CASE benchmarkRun = {}
  BY <1>2 DEF Clock, Greatest
<1>3. CASE benchmarkRun # {}
  <2>1. PICK run \in benchmarkRun : \A other \in benchmarkRun : other = run \/ <<run, other>> \in R
    <3>1. /\ \A x, y \in benchmarkRun : x = y \/ <<x, y>> \in R \/ <<y, x>> \in R
          /\ \A x, y, z \in benchmarkRun : <<x, y>> \in R /\ <<y, z>> \in R => <<x, z>> \in R
      BY <1>1
    <3> HIDE DEF R
    <3> QED
      BY <1>3, <3>1, FirstOfFinite DEF BenchInv
  <2>2. run.createdAt \in times /\ \A y \in times : y <= run.createdAt
    <3>1. \A other \in benchmarkRun : other.createdAt <= run.createdAt
      <4>1. \A other \in benchmarkRun : <<run, other>> \in R => run.createdAt >= other.createdAt
        OBVIOUS
      <4>2. ASSUME NEW other \in benchmarkRun PROVE other.createdAt <= run.createdAt
        <5>1. CASE other = run
          BY <1>1, <5>1
        <5>2. CASE <<run, other>> \in R
          BY <1>1, <4>1, <5>2
        <5> QED
          BY <2>1, <5>1, <5>2
      <4> QED
        BY <4>2
    <3> QED
      BY <3>1
  <2>3. Greatest(times) \in times /\ times \subseteq Nat
    BY <1>1, <2>2 DEF Greatest
  <2> QED
    BY <2>3 DEF Clock
<1> QED
  BY <1>2, <1>3

LEMMA ShippedTree ==
    /\ TreeOK(BfclTree)
    /\ \A k \in DOMAIN BfclTree : BfclTree[k].method \in {"mean", "weighted", Null}
<1> DEFINE groups == {"non_live", "live", "irrelevance", "multi_turn", "web_search", "memory"}
<1>1. \A n \in BfclNodes : /\ n.weight \in Nat /\ n.method \in {"mean", "weighted", Null}
                           /\ n.parent \in groups \cup {Null}
  <2> DEFINE OK(n) == n.weight \in Nat /\ n.method \in {"mean", "weighted", Null} /\ n.parent \in groups \cup {Null}
  <2>1. \A key, parent, weight, method : /\ Node(key, parent, weight, method).weight = weight
                                         /\ Node(key, parent, weight, method).method = method
                                         /\ Node(key, parent, weight, method).parent = parent
    BY DEF Node
  <2>2. \A keys, parent : \A n \in Leaves(keys, parent) : n.weight = 0 /\ n.method = Null /\ n.parent = parent
    BY <2>1 DEF Leaves
  <2> QED
    BY <2>1, <2>2 DEF BfclNodes
<1>2. groups \subseteq {n.key : n \in BfclNodes}
  <2>1. \A key, parent, weight, method : Node(key, parent, weight, method).key = key
    BY DEF Node
  <2>2. ASSUME NEW g \in groups PROVE \E n \in BfclNodes : n.key = g
    BY <2>1 DEF BfclNodes
  <2> QED
    BY <2>2
<1>3. DOMAIN BfclTree = {n.key : n \in BfclNodes}
  BY DEF BfclTree, Tree
<1>4. \A k \in DOMAIN BfclTree : BfclTree[k] \in BfclNodes /\ BfclTree[k].key = k
  BY <1>3 DEF BfclTree, Tree
<1> HIDE DEF groups
<1> QED
  BY <1>1, <1>2, <1>3, <1>4 DEF TreeOK

LEMMA CorrectedTree ==
    ASSUME NEW tree, TreeOK(tree)
    PROVE  TreeOK(Corrected(tree)) /\ DOMAIN tree \subseteq DOMAIN Corrected(tree)
BY ShippedTree DEF TreeOK, Corrected

LEMMA BenchInit == BenchmarkInit => BenchInv
<1> SUFFICES ASSUME BenchmarkInit PROVE BenchInv
  OBVIOUS
<1>1. ResultSourceOK
  <2>1. \A k \in DOMAIN ResultSources : resultSource[k] = [enabled |-> ResultSources[k].enabled, priority |-> 0]
    BY DEF BenchmarkInit
  <2>2. \A k \in DOMAIN ResultSources : ResultSources[k].enabled \in BOOLEAN /\ (ResultSources[k].enabled => ResultSources[k].cleared)
    <3>1. DOMAIN ResultSources = {"bfcl_leaderboard", "aider_leaderboard", "livebench_leaderboard", "catalog"}
      BY DEF ResultSources
    <3>2. /\ ResultSources["bfcl_leaderboard"].enabled = TRUE /\ ResultSources["bfcl_leaderboard"].cleared
          /\ ResultSources["aider_leaderboard"].enabled = TRUE /\ ResultSources["aider_leaderboard"].cleared
          /\ ResultSources["livebench_leaderboard"].enabled = FALSE
          /\ ResultSources["catalog"].enabled = TRUE /\ ResultSources["catalog"].cleared
      BY DEF ResultSources
    <3>3. ASSUME NEW k \in DOMAIN ResultSources
          PROVE  ResultSources[k].enabled \in BOOLEAN /\ (ResultSources[k].enabled => ResultSources[k].cleared)
      <4>1. k = "bfcl_leaderboard" \/ k = "aider_leaderboard" \/ k = "livebench_leaderboard" \/ k = "catalog"
        BY <3>1
      <4> QED
        BY <3>2, <4>1, Zenon
    <3> QED
      BY <3>3
  <2> QED
    BY <2>1, <2>2 DEF BenchmarkInit, ResultSourceOK, ResultSourceRows
<1>2. BenchmarkSubtaskOK
  BY BenchmarkAssumption DEF BenchmarkInit, BenchmarkSubtaskOK
<1>3. BenchmarkRunOK
  <2>1. \A run \in benchmarkRun : RunOK(run) /\ run.id \in Int /\ run.createdAt \in Nat /\ ResultSources[run.source].enabled
    BY BenchmarkAssumption DEF BenchmarkInit
  <2>2. \A k \in DOMAIN ResultSources : resultSource[k].enabled = ResultSources[k].enabled
    BY DEF BenchmarkInit
  <2>3. RunsAreKeyed(benchmarkRun)
    BY BenchmarkAssumption DEF BenchmarkInit
  <2> QED
    BY <2>1, <2>2, <2>3 DEF BenchmarkRunOK, RunOK
<1>4. BenchmarkResultOK
  <2> SUFFICES ASSUME NEW id \in DOMAIN benchmarkResult
               PROVE  /\ id \in {run.id : run \in benchmarkRun}
                      /\ DOMAIN benchmarkResult[id] \subseteq DOMAIN benchmarkSubtask \cup {Whole}
    BY DEF BenchmarkResultOK
  <2>1. PICK x \in Seeded : x.run.id = id
    BY DEF BenchmarkInit
  <2> DEFINE y == CHOOSE y \in Seeded : y.run.id = id
  <2>2. y \in Seeded /\ benchmarkResult[id] = y.results
    BY <2>1 DEF BenchmarkInit
  <2> QED
    BY <2>1, <2>2, BenchmarkAssumption DEF BenchmarkInit
<1>5. edition \in DOMAIN Editions /\ identifiers \subseteq DOMAIN Repositories /\ reported \subseteq Reports
  BY BenchmarkAssumption DEF BenchmarkInit
<1>6. IsFiniteSet(benchmarkRun)
  <2> DEFINE f == [x \in Seeded |-> x.run]
  <2>1. f \in Surjection(Seeded, benchmarkRun)
    BY DEF BenchmarkInit, Surjection
  <2> QED
    BY <2>1, BenchmarkAssumption, FS_Surjection
<1>7. ImportOK
  BY DEF BenchmarkInit, ImportOK, Idle, At
<1>8. TreeGrows
  BY DEF BenchmarkInit, TreeGrows
<1> QED
  BY <1>1, <1>2, <1>3, <1>4, <1>5, <1>6, <1>7, <1>8 DEF BenchInv, BenchmarkTypeOK

(* A run inserted under an identifier and a key that no run has. *)
LEMMA InsertRunStep ==
    ASSUME BenchInv, NEW id \in RunIds, NEW run, RunOK(run), resultSource[run.source].enabled, InsertRun(id, run),
           run.dedupeKey = Null \/ WithKey(run.dedupeKey) = {}, resultSource' = resultSource
    PROVE  /\ BenchmarkRunOK' /\ IsFiniteSet(benchmarkRun')
           /\ \E new \in benchmarkRun' : new.id = id /\ new.dedupeKey = run.dedupeKey /\ benchmarkRun' = benchmarkRun \cup {new}
<1> DEFINE new == Stored(run, id, Clock)
<1>1. benchmarkRun' = benchmarkRun \cup {new} /\ id \notin {r.id : r \in benchmarkRun}
  BY DEF InsertRun
<1>2. /\ new.id = id /\ id \in Int /\ new.createdAt \in Nat /\ new.dedupeKey = run.dedupeKey
      /\ RunOK(new) /\ resultSource[new.source].enabled
  BY ClockIsNat, BenchmarkAssumption DEF Stored, RunOK
<1> HIDE DEF new
<1>3. RunsAreKeyed(benchmarkRun')
  <2>1. \A r \in benchmarkRun : r.id # new.id /\ (new.dedupeKey # Null => r.dedupeKey # new.dedupeKey)
    BY <1>1, <1>2 DEF WithKey
  <2> QED
    BY <1>1, <2>1 DEF RunsAreKeyed, BenchInv, BenchmarkTypeOK, BenchmarkRunOK
<1>4. BenchmarkRunOK'
  BY <1>1, <1>2, <1>3 DEF BenchmarkRunOK, BenchInv, BenchmarkTypeOK
<1>5. IsFiniteSet(benchmarkRun')
  BY <1>1, FS_AddElement DEF BenchInv
<1> QED
  BY <1>1, <1>2, <1>4, <1>5

(* Only a deploy touches the tree. *)
LEMMA TreeStep ==
    ASSUME [BenchmarkNext]_benchmarkVars
    PROVE  benchmarkSubtask' = benchmarkSubtask \/ benchmarkSubtask' = Corrected(benchmarkSubtask)
BY DEF BenchmarkNext, ImportStep, benchmarkVars, Republish, LearnRepository, FetchTable, FetchConfigs, SkipRow, DropExisting,
       InsertImported, InsertResults, Finish, Crash, Record, EnsureResultSources, EnsureBenchmarkDefinitions, Switch

(* Every step keeps the invariant. *)
LEMMA BenchStep == BenchInv /\ [BenchmarkNext]_benchmarkVars => BenchInv'
<1> SUFFICES ASSUME BenchInv, [BenchmarkNext]_benchmarkVars PROVE BenchInv'
  OBVIOUS
<1>t. TreeGrows'
  <2>1. benchmarkSubtask' = benchmarkSubtask \/ benchmarkSubtask' = Corrected(benchmarkSubtask)
    BY TreeStep
  <2>2. DOMAIN benchmarkSubtask \subseteq DOMAIN benchmarkSubtask'
    BY <2>1, CorrectedTree DEF BenchInv, BenchmarkTypeOK, BenchmarkSubtaskOK
  <2> QED
    BY <2>2 DEF BenchInv, TreeGrows
<1> DEFINE tables == << resultSource, benchmarkSubtask, benchmarkRun, benchmarkResult >>
<1>a. ASSUME UNCHANGED tables PROVE (ResultSourceOK /\ BenchmarkSubtaskOK /\ BenchmarkRunOK /\ BenchmarkResultOK)' /\ IsFiniteSet(benchmarkRun)'
  BY <1>a DEF BenchInv, BenchmarkTypeOK, ResultSourceOK, BenchmarkSubtaskOK, BenchmarkRunOK, BenchmarkResultOK
<1>b. ASSUME import' = import, benchmarkSubtask' = benchmarkSubtask, benchmarkRun' = benchmarkRun, identifiers \subseteq identifiers'
      PROVE  ImportOK'
  BY <1>b DEF BenchInv, ImportOK, At, Row, WithKey
<1>c. ASSUME import' = Idle PROVE ImportOK'
  BY <1>c DEF ImportOK, Idle, At
<1>d. ASSUME import' = NextRow, benchmarkSubtask' = benchmarkSubtask PROVE ImportOK'
  BY <1>d DEF BenchInv, ImportOK, NextRow, At
<1>1. CASE Republish
  <2>1. edition' \in DOMAIN Editions
    BY <1>1, BenchmarkAssumption DEF Republish, BenchInv, BenchmarkTypeOK
  <2> QED
    BY <1>t, <1>1, <1>a, <1>b, <2>1 DEF Republish, BenchInv, BenchmarkTypeOK
<1>2. ASSUME NEW r \in DOMAIN Repositories, LearnRepository(r) PROVE BenchInv'
  BY <1>t, <1>2, <1>a, <1>b DEF LearnRepository, BenchInv, BenchmarkTypeOK
<1>3. CASE FetchTable
  <2>1. ImportOK'
    BY <1>3 DEF FetchTable, ImportOK, Idle, At
  <2> QED
    BY <1>t, <1>3, <1>a, <2>1 DEF FetchTable, BenchInv, BenchmarkTypeOK
<1>4. CASE FetchConfigs
  <2>1. ImportOK'
    BY <1>4 DEF FetchConfigs, ImportOK, Idle, At
  <2> QED
    BY <1>t, <1>4, <1>a, <2>1 DEF FetchConfigs, BenchInv, BenchmarkTypeOK
<1>5. CASE SkipRow
  BY <1>t, <1>5, <1>a, <1>d DEF SkipRow, BenchInv, BenchmarkTypeOK
<1>6. CASE DropExisting
  <2> USE <1>6 DEF DropExisting
  <2>1. CASE ~(DOMAIN Row.scores \subseteq import.subtasks)
    BY <1>t, <2>1, <1>a, <1>c DEF BenchInv, BenchmarkTypeOK
  <2>2. CASE DOMAIN Row.scores \subseteq import.subtasks
    <3> DEFINE dropped == WithKey(Row.dedupeKey)
    <3>1. /\ benchmarkRun' = benchmarkRun \ dropped
          /\ benchmarkResult' = Without({run.id : run \in dropped})
          /\ import' = [import EXCEPT !.stage = "insert"]
          /\ UNCHANGED << edition, identifiers, resultSource, benchmarkSubtask, reported >>
      BY <2>2
    <3>2. Row.repository \in identifiers
      BY DEF VariantIdByHuggingFace
    <3>3. /\ import'.stage = "insert" /\ import'.left = import.left /\ import'.subtasks = import.subtasks
          /\ import' = [f \in {"stage", "table", "subtasks", "left", "id"} |-> import'[f]]
      BY <3>1 DEF BenchInv, ImportOK
    <3>4. WithKey(Row.dedupeKey)' = {}
      BY <3>1, <3>3 DEF WithKey, Row
    <3>5. ImportOK'
      BY <2>2, <3>1, <3>2, <3>3, <3>4 DEF BenchInv, ImportOK, At, Row
    <3>6. BenchmarkRunOK' /\ IsFiniteSet(benchmarkRun')
      BY <3>1, FS_Subset DEF BenchInv, BenchmarkTypeOK, BenchmarkRunOK, RunsAreKeyed
    <3>7. BenchmarkResultOK'
      BY <3>1 DEF BenchInv, BenchmarkTypeOK, BenchmarkResultOK, Without
    <3> QED
      BY <1>t, <3>1, <3>5, <3>6, <3>7 DEF BenchInv, BenchmarkTypeOK, ResultSourceOK, BenchmarkSubtaskOK
  <2> QED
    BY <2>1, <2>2
<1>7. CASE InsertImported
  <2>1. CASE ~resultSource["bfcl_leaderboard"].enabled
    BY <1>t, <1>7, <2>1, <1>a, <1>c DEF InsertImported, BenchInv, BenchmarkTypeOK
  <2>2. CASE resultSource["bfcl_leaderboard"].enabled
    <3> DEFINE run == ImportedRun(Row)
    <3>1. PICK id \in RunIds : InsertRun(id, run) /\ import' = [import EXCEPT !.stage = "results", !.id = id]
      BY <1>7, <2>2 DEF InsertImported
    <3>2. UNCHANGED << edition, identifiers, resultSource, benchmarkSubtask, benchmarkResult, reported >> /\ At("insert")
      BY <1>7 DEF InsertImported
    <3>3. RunOK(run) /\ resultSource[run.source].enabled /\ run.dedupeKey = Row.dedupeKey
      <4>1. Repositories[Row.repository] \in VariantSlugs
        BY <3>2, BenchmarkAssumption DEF BenchInv, ImportOK, BenchmarkTypeOK
      <4> QED
        BY <2>2, <4>1 DEF ImportedRun, RunOK, BenchmarkDefinitions, ResultSources, OriginRank
    <3>4. run.dedupeKey = Null \/ WithKey(run.dedupeKey) = {}
      BY <3>2, <3>3 DEF BenchInv, ImportOK
    <3> HIDE DEF run
    <3>5. /\ BenchmarkRunOK' /\ IsFiniteSet(benchmarkRun')
          /\ \E new \in benchmarkRun' : new.id = id /\ benchmarkRun' = benchmarkRun \cup {new}
      BY <3>1, <3>2, <3>3, <3>4, InsertRunStep
    <3>6. ImportOK'
      <4>1. /\ import'.stage = "results" /\ import'.left = import.left /\ import'.subtasks = import.subtasks /\ import'.id = id
            /\ import' = [f \in {"stage", "table", "subtasks", "left", "id"} |-> import'[f]]
        BY <3>1 DEF BenchInv, ImportOK
      <4> QED
        BY <3>2, <3>5, <4>1 DEF BenchInv, ImportOK, At, Row
    <3>7. BenchmarkResultOK'
      BY <3>2, <3>5 DEF BenchInv, BenchmarkTypeOK, BenchmarkResultOK
    <3> QED
      BY <1>t, <3>2, <3>5, <3>6, <3>7 DEF BenchInv, BenchmarkTypeOK, ResultSourceOK, BenchmarkSubtaskOK
  <2> QED
    BY <2>1, <2>2
<1>8. CASE InsertResults
  <2>1. /\ At("results") /\ import' = NextRow /\ benchmarkResult' = With(import.id, Row.scores)
        /\ UNCHANGED << edition, identifiers, resultSource, benchmarkSubtask, benchmarkRun, reported >>
    BY <1>8 DEF InsertResults
  <2>2. DOMAIN Row.scores \subseteq DOMAIN benchmarkSubtask /\ \E run \in benchmarkRun : run.id = import.id
    BY <2>1 DEF BenchInv, ImportOK
  <2>3. BenchmarkResultOK'
    BY <2>1, <2>2 DEF BenchInv, BenchmarkTypeOK, BenchmarkResultOK, With
  <2>4. ImportOK'
    BY <1>d, <2>1
  <2> QED
    BY <1>t, <2>1, <2>3, <2>4 DEF BenchInv, BenchmarkTypeOK, ResultSourceOK, BenchmarkSubtaskOK, BenchmarkRunOK
<1>9. CASE Finish
  BY <1>t, <1>9, <1>a, <1>c DEF Finish, BenchInv, BenchmarkTypeOK
<1>10. CASE Crash
  BY <1>t, <1>10, <1>a, <1>c DEF Crash, BenchInv, BenchmarkTypeOK
<1>11. ASSUME NEW report \in Reports, Record(report) PROVE BenchInv'
  <2>1. PICK id \in RunIds : InsertRun(id, report.run) /\ benchmarkResult' = With(id, report.results)
    BY <1>11 DEF Record
  <2>2. /\ resultSource[report.run.source].enabled /\ reported' = reported \cup {report}
        /\ UNCHANGED << edition, identifiers, resultSource, benchmarkSubtask, import >>
    BY <1>11 DEF Record
  <2>3. PICK new \in benchmarkRun' : new.id = id /\ new.dedupeKey = Null /\ benchmarkRun' = benchmarkRun \cup {new}
    BY <2>1, <2>2, InsertRunStep, BenchmarkAssumption
  <2>4. BenchmarkRunOK' /\ IsFiniteSet(benchmarkRun')
    BY <2>1, <2>2, InsertRunStep, BenchmarkAssumption
  <2>5. DOMAIN report.results \subseteq DOMAIN benchmarkSubtask \cup {Whole}
    BY BenchmarkAssumption DEF BenchInv, TreeGrows
  <2>6. BenchmarkResultOK'
    BY <2>1, <2>2, <2>3, <2>5 DEF BenchInv, BenchmarkTypeOK, BenchmarkResultOK, With
  <2>7. ImportOK'
    BY <2>2, <2>3 DEF BenchInv, ImportOK, At, Row, WithKey
  <2> QED
    BY <1>t, <2>2, <2>4, <2>6, <2>7 DEF BenchInv, BenchmarkTypeOK, ResultSourceOK, BenchmarkSubtaskOK
<1>12. CASE EnsureResultSources
  <2>1. /\ resultSource' = [k \in DOMAIN resultSource |-> [resultSource[k] EXCEPT !.priority = ResultSources[k].priority]]
        /\ UNCHANGED << edition, identifiers, benchmarkSubtask, benchmarkRun, benchmarkResult, reported, import >>
    BY <1>12 DEF EnsureResultSources
  <2>2. \A k \in DOMAIN ResultSources : ResultSources[k].priority \in Int
    BY DEF ResultSources
  <2>3. ResultSourceOK' /\ \A k \in DOMAIN ResultSources : resultSource'[k].enabled = resultSource[k].enabled
    BY <2>1, <2>2 DEF BenchInv, BenchmarkTypeOK, ResultSourceOK, ResultSourceRows
  <2>4. BenchmarkRunOK'
    BY <2>1, <2>3 DEF BenchInv, BenchmarkTypeOK, BenchmarkRunOK, RunOK
  <2> QED
    BY <1>t, <2>1, <2>3, <2>4, <1>b DEF BenchInv, BenchmarkTypeOK, BenchmarkSubtaskOK, BenchmarkResultOK
<1>13. CASE EnsureBenchmarkDefinitions
  <2>1. /\ benchmarkSubtask' = Corrected(benchmarkSubtask)
        /\ UNCHANGED << edition, identifiers, resultSource, benchmarkRun, benchmarkResult, reported, import >>
    BY <1>13 DEF EnsureBenchmarkDefinitions
  <2>2. BenchmarkSubtaskOK' /\ DOMAIN benchmarkSubtask \subseteq DOMAIN benchmarkSubtask'
    BY <2>1, CorrectedTree DEF BenchInv, BenchmarkTypeOK, BenchmarkSubtaskOK
  <2>3. BenchmarkResultOK'
    BY <2>1, <2>2 DEF BenchInv, BenchmarkTypeOK, BenchmarkResultOK
  <2>4. ImportOK'
    BY <2>1, <2>2 DEF BenchInv, ImportOK, At, Row, WithKey
  <2> QED
    BY <1>t, <2>1, <2>2, <2>3, <2>4 DEF BenchInv, BenchmarkTypeOK, ResultSourceOK, BenchmarkRunOK
<1>14. ASSUME NEW k \in Switched, Switch(k) PROVE BenchInv'
  <2>1. /\ resultSource' = [resultSource EXCEPT ![k].enabled = ~@] /\ k \in DOMAIN ResultSources
        /\ UNCHANGED << edition, identifiers, benchmarkSubtask, benchmarkRun, benchmarkResult, reported, import >>
    BY <1>14, BenchmarkAssumption DEF Switch
  <2>2. CASE resultSource[k].enabled
    <3>1. \A run \in benchmarkRun : run.source # k
      BY <1>14, <2>2 DEF Switch
    <3>2. ResultSourceOK' /\ \A j \in DOMAIN ResultSources : j # k => resultSource'[j].enabled = resultSource[j].enabled
      BY <2>1, <2>2 DEF BenchInv, BenchmarkTypeOK, ResultSourceOK, ResultSourceRows
    <3>3. BenchmarkRunOK'
      BY <2>1, <3>1, <3>2 DEF BenchInv, BenchmarkTypeOK, BenchmarkRunOK, RunOK
    <3> QED
      BY <1>t, <2>1, <3>2, <3>3, <1>b DEF BenchInv, BenchmarkTypeOK, BenchmarkSubtaskOK, BenchmarkResultOK
  <2>3. CASE ~resultSource[k].enabled
    <3>1. ResultSources[k].cleared
      BY <1>14, <2>3 DEF Switch
    <3>2. ResultSourceOK' /\ \A j \in DOMAIN ResultSources : resultSource[j].enabled => resultSource'[j].enabled
      BY <2>1, <2>3, <3>1 DEF BenchInv, BenchmarkTypeOK, ResultSourceOK, ResultSourceRows
    <3>3. BenchmarkRunOK'
      BY <2>1, <3>2 DEF BenchInv, BenchmarkTypeOK, BenchmarkRunOK, RunOK
    <3> QED
      BY <1>t, <2>1, <3>2, <3>3, <1>b DEF BenchInv, BenchmarkTypeOK, BenchmarkSubtaskOK, BenchmarkResultOK
  <2> QED
    BY <2>2, <2>3
<1>15. CASE UNCHANGED benchmarkVars
  BY <1>t, <1>15, <1>a, <1>b DEF benchmarkVars, BenchInv, BenchmarkTypeOK
<1> QED
  BY <1>1, <1>2, <1>3, <1>4, <1>5, <1>6, <1>7, <1>8, <1>9, <1>10, <1>11, <1>12, <1>13, <1>14, <1>15 DEF BenchmarkNext, ImportStep

(* The pages of Catalog add their own state beside that of Benchmarks. *)
LEMMA CatalogIsBenchmarks == CatalogSpec => BenchmarkSpec
<1>1. CatalogInit => BenchmarkInit
  BY DEF CatalogInit
<1>2. [CatalogNext]_catalogVars => [BenchmarkNext]_benchmarkVars
  BY DEF CatalogNext, catalogVars, PublishArtifact, Contribute, Withdraw
<1> QED
  BY <1>1, <1>2, PTL DEF CatalogSpec, BenchmarkSpec

THEOREM BenchInductive == CatalogSpec => []BenchInv
<1>1. BenchmarkSpec => []BenchInv
  BY BenchInit, BenchStep, PTL DEF BenchmarkSpec
<1> QED
  BY <1>1, CatalogIsBenchmarks, PTL

(* The import, crashed anywhere and repeated, other writers, deploys and operators leave tables that hold only what their *)
(* schema allows: a run under one key once, from a source that is enabled, with results of subtasks that are declared.    *)
THEOREM BenchmarkTypeCorrect == CatalogSpec => []BenchmarkTypeOK
<1>1. BenchInv => BenchmarkTypeOK
  BY DEF BenchInv
<1> QED
  BY <1>1, BenchInductive, PTL

-----------------------------------------------------------------------------
(* Which run is the headline.                                              *)

LEMMA AheadOfFive ==
    ASSUME NEW k, NEW l, DOMAIN k = 1 .. 5
    PROVE  Ahead(k, l) <=>
             \/ k[1] > l[1]
             \/ k[1] = l[1] /\ k[2] > l[2]
             \/ k[1] = l[1] /\ k[2] = l[2] /\ k[3] > l[3]
             \/ k[1] = l[1] /\ k[2] = l[2] /\ k[3] = l[3] /\ k[4] > l[4]
             \/ k[1] = l[1] /\ k[2] = l[2] /\ k[3] = l[3] /\ k[4] = l[4] /\ k[5] > l[5]
BY DEF Ahead

LEMMA DatabaseFields ==
    /\ database.runs = benchmarkRun /\ database.results = benchmarkResult /\ database.sources = resultSource
    /\ database.value = [id \in {run.id : run \in benchmarkRun} |->
                            IF id \in DOMAIN benchmarkResult THEN ValueOf(benchmarkSubtask, benchmarkResult[id]) ELSE {}]
BY DEF database, Database

LEMMA KeysAreNumbers ==
    ASSUME BenchInv, NEW run \in benchmarkRun
    PROVE  /\ OriginRank[run.origin] \in Int /\ OriginOrder(run.origin) = OriginRank[run.origin] + 1
           /\ resultSource[run.source].priority \in Int
           /\ run.measuredOn \in Int /\ run.createdAt \in Int /\ run.id \in Int
<1>1. RunOK(run) /\ run.id \in Int /\ run.createdAt \in Nat
  BY DEF BenchInv, BenchmarkTypeOK, BenchmarkRunOK
<1>2. resultSource[run.source].priority \in Int
  BY <1>1 DEF BenchInv, BenchmarkTypeOK, ResultSourceOK, ResultSourceRows, RunOK
<1>3. OriginRank[run.origin] \in Int /\ OriginOrder(run.origin) = OriginRank[run.origin] + 1
  <2> DEFINE o == run.origin
  <2>1. /\ DOMAIN Independence = 1 .. 5 /\ Independence[1] = "benchmark_operator" /\ Independence[2] = "third_party"
        /\ Independence[3] = "editorial" /\ Independence[4] = "submitted_registry" /\ Independence[5] = "developer_reported"
    BY DEF Independence
  <2>2. /\ DOMAIN OriginRank = {"benchmark_operator", "third_party", "editorial", "submitted_registry", "developer_reported"}
        /\ OriginRank["benchmark_operator"] = 0 /\ OriginRank["third_party"] = 1 /\ OriginRank["editorial"] = 2
        /\ OriginRank["submitted_registry"] = 3 /\ OriginRank["developer_reported"] = 4
    BY DEF OriginRank
  <2>3. PICK i \in 1 .. 5 : Independence[i] = o /\ OriginRank[o] = i - 1
    BY <1>1, <2>1, <2>2 DEF RunOK
  <2>4. \A j \in 1 .. 5 : Independence[j] = o => j = i
    BY <2>1, <2>3
  <2>5. OriginOrder(o) = i
    BY <2>1, <2>3, <2>4 DEF OriginOrder
  <2> QED
    BY <2>3, <2>5
<1> QED
  BY <1>1, <1>2, <1>3 DEF RunOK

(* What a run ahead of another by the key of the headline has: the standing of the other, or a better one. *)
LEMMA AheadAsHeadline ==
    ASSUME BenchInv, NEW r \in benchmarkRun, NEW s \in benchmarkRun
    PROVE  LET k == HeadlineKey(database, r)
               l == HeadlineKey(database, s)
           IN /\ ~(Ahead(k, l) /\ Ahead(l, k))
              /\ Ahead(k, l) /\ Standing(r) = Standing(s) =>
                    \/ OriginRank[r.origin] < OriginRank[s.origin]
                    \/ /\ OriginRank[r.origin] = OriginRank[s.origin]
                       /\ \/ resultSource[r.source].priority > resultSource[s.source].priority
                          \/ /\ resultSource[r.source].priority = resultSource[s.source].priority
                             /\ r.measuredOn >= s.measuredOn
<1> DEFINE k == HeadlineKey(database, r)
           l == HeadlineKey(database, s)
           fr == Flag(Standing(r))
           fs == Flag(Standing(s))
           or == 0 - OriginRank[r.origin]
           os == 0 - OriginRank[s.origin]
           pr == resultSource[r.source].priority
           ps == resultSource[s.source].priority
           mr == r.measuredOn
           ms == s.measuredOn
           ir == 0 - r.id
           is == 0 - s.id
<1>1. fr \in Int /\ fs \in Int /\ (Standing(r) = Standing(s) => fr = fs)
  BY DEF Flag
<1>2. /\ OriginRank[r.origin] \in Int /\ OriginRank[s.origin] \in Int
      /\ or \in Int /\ pr \in Int /\ mr \in Int /\ ir \in Int
      /\ os \in Int /\ ps \in Int /\ ms \in Int /\ is \in Int
  BY KeysAreNumbers
<1>3. k = << fr, or, pr, mr, ir >> /\ l = << fs, os, ps, ms, is >>
  BY DatabaseFields DEF HeadlineKey, Standing
<1>4. /\ or > os => OriginRank[r.origin] < OriginRank[s.origin]
      /\ or = os => OriginRank[r.origin] = OriginRank[s.origin]
  BY <1>2
<1> HIDE DEF fr, fs, or, os, pr, ps, mr, ms, ir, is, k, l
<1>9. /\ DOMAIN k = 1 .. 5 /\ k[1] = fr /\ k[2] = or /\ k[3] = pr /\ k[4] = mr /\ k[5] = ir
      /\ DOMAIN l = 1 .. 5 /\ l[1] = fs /\ l[2] = os /\ l[3] = ps /\ l[4] = ms /\ l[5] = is
  BY <1>3
<1>5. Ahead(k, l) <=> \/ fr > fs
                      \/ fr = fs /\ or > os
                      \/ fr = fs /\ or = os /\ pr > ps
                      \/ fr = fs /\ or = os /\ pr = ps /\ mr > ms
                      \/ fr = fs /\ or = os /\ pr = ps /\ mr = ms /\ ir > is
  BY <1>9, AheadOfFive
<1>8. Ahead(l, k) <=> \/ fs > fr
                      \/ fs = fr /\ os > or
                      \/ fs = fr /\ os = or /\ ps > pr
                      \/ fs = fr /\ os = or /\ ps = pr /\ ms > mr
                      \/ fs = fr /\ os = or /\ ps = pr /\ ms = mr /\ is > ir
  BY <1>9, AheadOfFive
<1>6. ~(Ahead(k, l) /\ Ahead(l, k))
  BY <1>1, <1>2, <1>5, <1>8
<1>7. Ahead(k, l) /\ Standing(r) = Standing(s) =>
        or > os \/ (or = os /\ (pr > ps \/ (pr = ps /\ mr >= ms)))
  BY <1>1, <1>2, <1>5
<1> QED
  BY <1>4, <1>6, <1>7 DEF k, l, pr, ps, mr, ms

LEMMA HeadlineOf ==
    ASSUME NEW db, NEW h \in Headlines(db)
    PROVE  /\ h.run \in Candidates(db, h.benchmark, h.variant.slug)
           /\ h.run \in BenchmarkHeadlineResult(db, h.benchmark, h.variant.slug)
           /\ \A run \in Candidates(db, h.benchmark, h.variant.slug) :
                 run = h.run \/ Ahead(HeadlineKey(db, h.run), HeadlineKey(db, run))
<1>1. PICK b \in DOMAIN BenchmarkDefinitions, v \in Range(Variants) : h \in HeadlinesOf(db, b, v)
  BY DEF Headlines
<1>2. h.benchmark = b /\ h.variant = v /\ h.run \in BenchmarkHeadlineResult(db, b, v.slug)
  BY <1>1 DEF HeadlinesOf
<1> QED
  BY <1>2 DEF BenchmarkHeadlineResult, FirstBy

(* Which number is shown is decided by who measured, never by what: of runs of one standing the headline's is the most   *)
(* independent, and no number that any candidate claims instead of its own makes it, or another, the headline.           *)
THEOREM HeadlineIsNotFlatteringHolds == CatalogSpec => []HeadlineIsNotFlattering
<1>1. ASSUME BenchInv, NEW h \in Headlines(database), NEW run \in Candidates(database, h.benchmark, h.variant.slug)
      PROVE  Standing(run) = Standing(h.run) => OriginOrder(h.run.origin) <= OriginOrder(run.origin)
  <2>1. run \in benchmarkRun /\ h.run \in benchmarkRun
    BY <1>1, HeadlineOf, DatabaseFields DEF Candidates
  <2>2. run = h.run \/ Ahead(HeadlineKey(database, h.run), HeadlineKey(database, run))
    BY <1>1, HeadlineOf
  <2>3. /\ OriginRank[run.origin] \in Int /\ OriginOrder(run.origin) = OriginRank[run.origin] + 1
        /\ OriginRank[h.run.origin] \in Int /\ OriginOrder(h.run.origin) = OriginRank[h.run.origin] + 1
    BY <1>1, <2>1, KeysAreNumbers
  <2>4. Standing(run) = Standing(h.run) => OriginRank[h.run.origin] <= OriginRank[run.origin]
    BY <1>1, <2>1, <2>2, <2>3, AheadAsHeadline
  <2> QED
    BY <2>3, <2>4
<1>2. ASSUME BenchInv, NEW h \in Headlines(database), NEW run \in Candidates(database, h.benchmark, h.variant.slug), NEW value
      PROVE  BenchmarkHeadlineResult(Claiming(database, run, value), h.benchmark, h.variant.slug) = {h.run}
  <2> DEFINE db == database
             claimed == Claiming(db, run, value)
             all == Candidates(db, h.benchmark, h.variant.slug)
  <2>1. /\ claimed.runs = benchmarkRun /\ claimed.sources = resultSource
        /\ claimed.value = [db.value EXCEPT ![run.id] = {value}]
    BY DEF Claiming, database, Database
  <2>2. run \in benchmarkRun /\ db.value[run.id] # {}
    BY <1>2, DatabaseFields DEF Candidates
  <2>3. \A r \in benchmarkRun : r.id \in DOMAIN db.value
    BY DatabaseFields
  <2>4. ASSUME NEW r \in benchmarkRun PROVE claimed.value[r.id] # {} <=> db.value[r.id] # {}
    BY <2>1, <2>2, <2>3
  <2>5. Candidates(claimed, h.benchmark, h.variant.slug) = all
    BY <2>1, <2>4, DatabaseFields DEF Candidates
  <2>6. \A r : HeadlineKey(claimed, r) = HeadlineKey(db, r)
    BY <2>1, DatabaseFields DEF HeadlineKey
  <2>7. BenchmarkHeadlineResult(claimed, h.benchmark, h.variant.slug) = BenchmarkHeadlineResult(db, h.benchmark, h.variant.slug)
    BY <2>5, <2>6 DEF BenchmarkHeadlineResult, FirstBy
  <2>8. ASSUME NEW r \in BenchmarkHeadlineResult(db, h.benchmark, h.variant.slug) PROVE r = h.run
    <3>1. r \in all /\ (h.run = r \/ Ahead(HeadlineKey(db, r), HeadlineKey(db, h.run)))
      BY <1>2, <2>8, HeadlineOf DEF BenchmarkHeadlineResult, FirstBy
    <3>2. r = h.run \/ Ahead(HeadlineKey(db, h.run), HeadlineKey(db, r))
      BY <1>2, <3>1, HeadlineOf
    <3>3. r \in benchmarkRun /\ h.run \in benchmarkRun
      BY <1>2, <3>1, HeadlineOf, DatabaseFields DEF Candidates
    <3> QED
      BY <1>2, <3>1, <3>2, <3>3, AheadAsHeadline
  <2>9. h.run \in BenchmarkHeadlineResult(db, h.benchmark, h.variant.slug)
    BY <1>2, HeadlineOf
  <2> HIDE DEF claimed, all
  <2>10. BenchmarkHeadlineResult(db, h.benchmark, h.variant.slug) = {h.run}
    BY <2>8, <2>9
  <2> QED
    BY <2>7, <2>10 DEF claimed
<1>3. BenchInv => HeadlineIsNotFlattering
  BY <1>1, <1>2 DEF HeadlineIsNotFlattering
<1> QED
  BY <1>3, BenchInductive, PTL

-----------------------------------------------------------------------------
(* The table of a model's page.                                            *)

\* No tree of subtasks has ever pooled samples: pooling needs their counts, which no writer stores.
NothingPooled == \A older \in OlderTrees : \A k \in DOMAIN older : older[k].method # "pooled"

NotPooled == \A k \in DOMAIN benchmarkSubtask : benchmarkSubtask[k].method # "pooled"

LEMMA NotPooledAlways == ASSUME NothingPooled PROVE CatalogSpec => []NotPooled
<1>1. BenchmarkInit => NotPooled
  BY DEF BenchmarkInit, NothingPooled, NotPooled
<1>2. NotPooled /\ [BenchmarkNext]_benchmarkVars => NotPooled'
  <2> SUFFICES ASSUME NotPooled, [BenchmarkNext]_benchmarkVars PROVE NotPooled'
    OBVIOUS
  <2>1. CASE benchmarkSubtask' = benchmarkSubtask
    BY <2>1 DEF NotPooled
  <2>2. CASE benchmarkSubtask' = Corrected(benchmarkSubtask)
    <3>1. \A k \in DOMAIN BfclTree : BfclTree[k].method # "pooled"
      BY ShippedTree DEF Null
    <3> QED
      BY <2>2, <3>1 DEF NotPooled, Corrected
  <2> QED
    BY <2>1, <2>2, TreeStep
<1>3. BenchmarkSpec => []NotPooled
  BY <1>1, <1>2, PTL DEF BenchmarkSpec
<1> QED
  BY <1>3, CatalogIsBenchmarks, PTL

LEMMA CombinesToSomething ==
    ASSUME NEW method \in {"mean", "weighted"}, NEW value, NEW weight, DOMAIN value # {}
    PROVE  Combine(method, value, weight) # {}
BY DEF Combine

(* A run with any result has a number, unless all its groups are pooled. *)
LEMMA ReportHasValue ==
    ASSUME NEW tree, TreeOK(tree), \A k \in DOMAIN tree : tree[k].method # "pooled",
           NEW results, DOMAIN results # {}, DOMAIN results \subseteq DOMAIN tree \cup {Whole}
    PROVE  ValueOf(tree, results) # {}
<1>1. CASE Whole \in DOMAIN results
  BY <1>1 DEF ValueOf
<1>2. CASE Whole \notin DOMAIN results
  <2> DEFINE groups == {GroupOf(tree, k) : k \in DOMAIN results}
  <2>1. PICK k \in DOMAIN results : k \in DOMAIN tree
    BY <1>2
  <2> DEFINE g == GroupOf(tree, k)
             leaves == {j \in DOMAIN results : GroupOf(tree, j) = g}
  <2>2. g \in DOMAIN tree /\ g \in groups /\ k \in leaves
    BY <2>1 DEF GroupOf, TreeOK
  <2>3. MethodOf(tree[g]) \in {"mean", "weighted"}
    BY <2>2 DEF MethodOf, TreeOK, BenchmarkDefinitions
  <2>4. GroupValue(tree, results, g) # {}
    <3> HIDE DEF g
    <3> QED
      BY <2>2, <2>3, CombinesToSomething DEF GroupValue
  <2>5. BenchmarkRunRollup(tree, results) # {}
    <3> HIDE DEF g
    <3>1. g \in {h \in groups : [f \in groups |-> GroupValue(tree, results, f)][h] # {}}
      BY <2>2, <2>4
    <3> QED
      BY <3>1 DEF BenchmarkRunRollup
  <2> QED
    BY <1>2, <2>5 DEF ValueOf
<1> QED
  BY <1>1, <1>2

(* The key of the canonical report orders the stored runs totally, by origin, source and date first. *)
LEMMA AheadAsCanonical ==
    ASSUME BenchInv, NEW r \in benchmarkRun, NEW s \in benchmarkRun
    PROVE  LET k == CanonicalKey(database, r)
               l == CanonicalKey(database, s)
           IN /\ r = s \/ Ahead(k, l) \/ Ahead(l, k)
              /\ \A t \in benchmarkRun : Ahead(k, l) /\ Ahead(l, CanonicalKey(database, t)) => Ahead(k, CanonicalKey(database, t))
              /\ Ahead(k, l) =>
                    \/ OriginRank[r.origin] < OriginRank[s.origin]
                    \/ /\ OriginRank[r.origin] = OriginRank[s.origin]
                       /\ \/ resultSource[r.source].priority > resultSource[s.source].priority
                          \/ /\ resultSource[r.source].priority = resultSource[s.source].priority
                             /\ r.measuredOn >= s.measuredOn
<1> DEFINE or(x) == 0 - OriginRank[x.origin]
           pr(x) == resultSource[x.source].priority
           me(x) == x.measuredOn
           cr(x) == x.createdAt
           id(x) == 0 - x.id
           key(x) == CanonicalKey(database, x)
<1>1. ASSUME NEW x \in benchmarkRun
      PROVE  /\ OriginRank[x.origin] \in Int /\ or(x) \in Int /\ pr(x) \in Int /\ me(x) \in Int /\ cr(x) \in Int /\ id(x) \in Int
             /\ DOMAIN key(x) = 1 .. 5 /\ key(x)[1] = or(x) /\ key(x)[2] = pr(x) /\ key(x)[3] = me(x)
             /\ key(x)[4] = cr(x) /\ key(x)[5] = id(x)
  <2>1. OriginRank[x.origin] \in Int /\ pr(x) \in Int /\ me(x) \in Int /\ cr(x) \in Int /\ x.id \in Int
    BY KeysAreNumbers
  <2>2. key(x) = << or(x), pr(x), me(x), cr(x), id(x) >>
    BY DatabaseFields DEF CanonicalKey
  <2> HIDE DEF key
  <2> QED
    BY <2>1, <2>2
<1>2. ASSUME NEW x \in benchmarkRun, NEW y \in benchmarkRun
      PROVE  /\ or(x) > or(y) <=> OriginRank[x.origin] < OriginRank[y.origin]
             /\ or(x) = or(y) <=> OriginRank[x.origin] = OriginRank[y.origin]
             /\ id(x) = id(y) => x = y
  <2>1. OriginRank[x.origin] \in Int /\ OriginRank[y.origin] \in Int /\ x.id \in Int /\ y.id \in Int
    BY KeysAreNumbers
  <2>2. x.id = y.id => x = y
    BY DEF BenchInv, BenchmarkTypeOK, BenchmarkRunOK, RunsAreKeyed
  <2> QED
    BY <2>1, <2>2
<1> HIDE DEF or, pr, me, cr, id, key
<1>3. ASSUME NEW x \in benchmarkRun, NEW y \in benchmarkRun
      PROVE  Ahead(key(x), key(y)) <=>
               \/ or(x) > or(y)
               \/ or(x) = or(y) /\ pr(x) > pr(y)
               \/ or(x) = or(y) /\ pr(x) = pr(y) /\ me(x) > me(y)
               \/ or(x) = or(y) /\ pr(x) = pr(y) /\ me(x) = me(y) /\ cr(x) > cr(y)
               \/ or(x) = or(y) /\ pr(x) = pr(y) /\ me(x) = me(y) /\ cr(x) = cr(y) /\ id(x) > id(y)
  <2>1. /\ DOMAIN key(x) = 1 .. 5 /\ key(x)[1] = or(x) /\ key(x)[2] = pr(x) /\ key(x)[3] = me(x)
        /\ key(x)[4] = cr(x) /\ key(x)[5] = id(x)
    BY <1>1
  <2>2. /\ key(y)[1] = or(y) /\ key(y)[2] = pr(y) /\ key(y)[3] = me(y) /\ key(y)[4] = cr(y) /\ key(y)[5] = id(y)
    BY <1>1
  <2> QED
    BY <2>1, <2>2, AheadOfFive
<1>4. r = s \/ Ahead(key(r), key(s)) \/ Ahead(key(s), key(r))
  BY <1>1, <1>2, <1>3
<1>5. ASSUME NEW t \in benchmarkRun, Ahead(key(r), key(s)), Ahead(key(s), key(t)) PROVE Ahead(key(r), key(t))
  <2>1. /\ or(r) \in Int /\ pr(r) \in Int /\ me(r) \in Int /\ cr(r) \in Int /\ id(r) \in Int
        /\ or(s) \in Int /\ pr(s) \in Int /\ me(s) \in Int /\ cr(s) \in Int /\ id(s) \in Int
        /\ or(t) \in Int /\ pr(t) \in Int /\ me(t) \in Int /\ cr(t) \in Int /\ id(t) \in Int
    BY <1>1
  <2> QED
    BY <1>3, <1>5, <2>1, SMTT(30)
<1>6. Ahead(key(r), key(s)) =>
        or(r) > or(s) \/ (or(r) = or(s) /\ (pr(r) > pr(s) \/ (pr(r) = pr(s) /\ me(r) >= me(s))))
  BY <1>1, <1>3
<1> QED
  BY <1>2, <1>4, <1>5, <1>6 DEF key, pr, me

LEMMA CanonicalExists ==
    ASSUME BenchInv, NEW S, S \subseteq benchmarkRun, S # {}
    PROVE  FirstBy(S, LAMBDA run : CanonicalKey(database, run)) # {}
<1> DEFINE ahead(x, y) == Ahead(CanonicalKey(database, x), CanonicalKey(database, y))
           R == {p \in S \X S : ahead(p[1], p[2])}
<1>1. IsFiniteSet(S)
  BY FS_Subset DEF BenchInv
<1>2. \A x, y \in S : x = y \/ ahead(x, y) \/ ahead(y, x)
  BY AheadAsCanonical
<1>3. \A x, y, z \in S : ahead(x, y) /\ ahead(y, z) => ahead(x, z)
  BY AheadAsCanonical
<1>4. FirstBy(S, LAMBDA run : CanonicalKey(database, run)) = {x \in S : \A y \in S : y = x \/ ahead(x, y)}
  BY DEF FirstBy
<1> HIDE DEF ahead
<1>5. \A x, y \in S : <<x, y>> \in R <=> ahead(x, y)
  OBVIOUS
<1> HIDE DEF R
<1>6. \A x, y \in S : x = y \/ <<x, y>> \in R \/ <<y, x>> \in R
  BY <1>2, <1>5
<1>7. \A x, y, z \in S : <<x, y>> \in R /\ <<y, z>> \in R => <<x, z>> \in R
  BY <1>3, <1>5
<1>8. PICK x \in S : \A y \in S : y = x \/ <<x, y>> \in R
  BY <1>1, <1>6, <1>7, FirstOfFinite
<1> QED
  BY <1>4, <1>5, <1>8

(* The table of a model's page supports its headline: of each number the headline rests on, the table shows the report of  *)
(* the headline itself, or one that origin, source and date do not tell from it; whatever is stored, in whatever order.    *)
THEOREM TableSupportsHeadlineHolds == ASSUME NothingPooled PROVE CatalogSpec => []TableSupportsHeadline
<1>1. ASSUME BenchInv, NotPooled, NEW h \in Headlines(database), NEW subtask \in DOMAIN benchmarkResult[h.run.id]
      PROVE  \E run \in BenchmarkResultCanonical(database, h.benchmark, h.variant.slug, subtask, h.run.config) :
                 Declared(database, run) = Declared(database, h.run)
  <2> DEFINE M == Measurements(database, h.benchmark, h.variant.slug, subtask, h.run.config)
  <2>1. /\ h.run \in benchmarkRun /\ h.run.benchmark = h.benchmark /\ h.run.subject = h.variant.slug
        /\ database.value[h.run.id] # {}
    BY <1>1, HeadlineOf, DatabaseFields DEF Candidates
  <2>2. h.run.id \in DOMAIN benchmarkResult
    BY <2>1, DatabaseFields
  <2>3. M \subseteq benchmarkRun /\ h.run \in M
    BY <1>1, <2>1, <2>2, DatabaseFields DEF Measurements
  <2>4. PICK c \in M : \A y \in M : y = c \/ Ahead(CanonicalKey(database, c), CanonicalKey(database, y))
    <3>1. FirstBy(M, LAMBDA run : CanonicalKey(database, run)) # {}
      BY <1>1, <2>3, CanonicalExists
    <3> QED
      BY <3>1 DEF FirstBy
  <2>5. c \in BenchmarkResultCanonical(database, h.benchmark, h.variant.slug, subtask, h.run.config)
    BY <2>4 DEF BenchmarkResultCanonical, FirstBy
  <2>6. /\ c \in benchmarkRun /\ c.benchmark = h.benchmark /\ c.subject = h.variant.slug /\ c.config = h.run.config
        /\ c.id \in DOMAIN benchmarkResult /\ subtask \in DOMAIN benchmarkResult[c.id]
    BY DatabaseFields DEF Measurements
  <2>7. ValueOf(benchmarkSubtask, benchmarkResult[c.id]) # {}
    BY <1>1, <2>6, ReportHasValue DEF BenchInv, BenchmarkTypeOK, BenchmarkSubtaskOK, BenchmarkResultOK, NotPooled
  <2>8. c \in Candidates(database, h.benchmark, h.variant.slug)
    BY <2>6, <2>7, DatabaseFields DEF Candidates
  <2>9. c = h.run \/ Ahead(HeadlineKey(database, h.run), HeadlineKey(database, c))
    BY <1>1, <2>8, HeadlineOf
  <2>10. h.run = c \/ Ahead(CanonicalKey(database, c), CanonicalKey(database, h.run))
    BY <2>3, <2>4
  <2>11. Standing(c) = Standing(h.run)
    BY <2>1, <2>6 DEF Standing
  <2>12. CASE c # h.run
    <3>1. \/ OriginRank[h.run.origin] < OriginRank[c.origin]
          \/ /\ OriginRank[h.run.origin] = OriginRank[c.origin]
             /\ \/ resultSource[h.run.source].priority > resultSource[c.source].priority
                \/ /\ resultSource[h.run.source].priority = resultSource[c.source].priority
                   /\ h.run.measuredOn >= c.measuredOn
      BY <1>1, <2>1, <2>6, <2>9, <2>11, <2>12, AheadAsHeadline
    <3>2. \/ OriginRank[c.origin] < OriginRank[h.run.origin]
          \/ /\ OriginRank[c.origin] = OriginRank[h.run.origin]
             /\ \/ resultSource[c.source].priority > resultSource[h.run.source].priority
                \/ /\ resultSource[c.source].priority = resultSource[h.run.source].priority
                   /\ c.measuredOn >= h.run.measuredOn
      BY <1>1, <2>1, <2>6, <2>10, <2>12, AheadAsCanonical
    <3>3. /\ OriginRank[c.origin] \in Int /\ resultSource[c.source].priority \in Int /\ c.measuredOn \in Int
          /\ OriginRank[h.run.origin] \in Int /\ resultSource[h.run.source].priority \in Int /\ h.run.measuredOn \in Int
      BY <1>1, <2>1, <2>6, KeysAreNumbers
    <3>4. /\ OriginRank[c.origin] = OriginRank[h.run.origin]
          /\ resultSource[c.source].priority = resultSource[h.run.source].priority
          /\ c.measuredOn = h.run.measuredOn
      BY <3>1, <3>2, <3>3
    <3> QED
      BY <2>5, <3>4, DatabaseFields DEF Declared
  <2> QED
    BY <2>5, <2>12
<1>2. BenchInv /\ NotPooled => TableSupportsHeadline
  BY <1>1 DEF TableSupportsHeadline
<1> QED
  BY <1>2, BenchInductive, NotPooledAlways, PTL
===============================================================================
