---------------------------- MODULE FeedIngestProofs ----------------------------
(***************************************************************************)
(* Theorems about the feed adapter, for any number of feeds and entries,   *)
(* any windows and lateness, and any number of failures: validators are    *)
(* earned and nothing is missed, as long as a run has room for what its    *)
(* feeds can yield.                                                        *)
(***************************************************************************)
EXTENDS FeedIngest, FiniteSetTheorems, SequenceTheorems, TLAPS

\* No run is cut short: apps/worker/sources/feeds.json lists 5 feeds of 20 entries each, and a
\* scheduled run takes 300 (MUTINAI_INGEST_LIMIT in main.ts).
Roomy == NumFeeds * MaxItems < Limit

-----------------------------------------------------------------------------
(* The inductive invariant.                                                *)

Active == run.at # "idle"

\* By the dates of all: the entries newer than e, which give e its rank.
Above(dates, n, e) == {x \in 1 .. n : dates[x] > dates[e] \/ (dates[x] = dates[e] /\ x > e)}

\* ... and the newest of the first n.
Top(dates, n) == {e \in 1 .. n : Cardinality(Above(dates, n, e)) < MaxItems}

RunTypes ==
    /\ run \in [at : {"idle", "feeds", "entries"}, start : 0 .. MaxTime, since : Int, feed : 1 .. NumFeeds + 1,
                etag : Nat, queue : SUBSET Nat, yielded : Nat, failed : BOOLEAN]
    /\ run.at = "entries" => run.feed \in Feeds /\ run.queue \subseteq 1 .. run.etag
    /\ run.at # "entries" => run.queue = {}

\* Runs start one after another, and take their window from the last success.
ClocksAgree ==
    /\ \A f \in Feeds : \A e \in 1 .. Len(entries[f]) : appeared[f][e] <= now
    /\ lastStart # Never => lastStart <= now
    /\ Active => /\ run.start <= now /\ (lastStart # Never => lastStart <= run.start)
                 /\ run.since = IF lastStart = Never THEN run.start - FirstWindow ELSE lastStart - Overlap

\* A run has taken no more than the feeds it has asked can yield.
TakesItsShare ==
    /\ IsFiniteSet(run.queue)
    /\ run.at = "feeds" => run.yielded <= (run.feed - 1) * MaxItems
    /\ run.at = "entries" => run.yielded + Cardinality(run.queue) <= run.feed * MaxItems

\* Validators belong to a document that was there, and to a window no later run can look behind.
ValidatorsAreOld ==
    \A f \in Feeds : validators[f] > 0 =>
        /\ validators[f] <= Len(entries[f])
        /\ IF lastStart = Never
             THEN window[f] <= now - FirstWindow /\ (Active => window[f] <= run.since)
             ELSE window[f] <= lastStart - Overlap \/ window[f] <= first

\* What is inside the window of the response being read is processed or still to come, and what the
\* response does not hold has appeared since the run began.
ResponseIsHeld ==
    run.at = "entries" =>
        /\ run.etag <= Len(entries[run.feed])
        /\ \A e \in Top(entries[run.feed], run.etag) :
              entries[run.feed][e] >= run.since => e \in run.queue \/ <<run.feed, e>> \in processed
        /\ \A e \in run.etag + 1 .. Len(entries[run.feed]) : appeared[run.feed][e] >= run.start

\* The run has seen what was in feed f before it, inside its window.
Seen(f) ==
    \A e \in Newest(f, Len(entries[f])) :
        (/\ appeared[f][e] < run.start /\ entries[f][e] >= run.since
         /\ lastStart # Never => entries[f][e] >= first)
          => <<f, e>> \in processed

AskedIsSeen == (Active /\ ~run.failed) => \A f \in 1 .. run.feed - 1 : Seen(f)

FInv ==
    /\ TypeOK /\ RunTypes /\ ClocksAgree /\ TakesItsShare /\ ValidatorsAreOld /\ ResponseIsHeld /\ AskedIsSeen
    /\ ValidatorsAreEarned /\ NothingMissed

-----------------------------------------------------------------------------
(* The newest entries of a feed, by the dates of all.                      *)

LEMMA NewestIsTop == \A f, n : Newest(f, n) = Top(entries[f], n) /\ Newest(f, n)' = Top(entries'[f], n)
BY DEF Newest, Newer, Top, Above

LEMMA AboveIsFinite ==
    ASSUME NEW dates, NEW n \in Nat, NEW e
    PROVE  IsFiniteSet(Above(dates, n, e)) /\ Cardinality(Above(dates, n, e)) \in Nat
<1>1. IsFiniteSet(1 .. n)
  BY FS_Interval
<1>2. Above(dates, n, e) \in SUBSET (1 .. n)
  BY DEF Above
<1>3. IsFiniteSet(Above(dates, n, e))
  BY <1>1, <1>2, FS_Subset
<1> QED
  BY <1>3, FS_CardinalityType

\* Later entries push entries out of the newest, and never in.
LEMMA TopOfPrefix ==
    ASSUME NEW dates, NEW m \in Nat, NEW n \in Nat, m <= n, NEW e \in Top(dates, n), e <= m
    PROVE  e \in Top(dates, m)
<1>1. e \in 1 .. m /\ Cardinality(Above(dates, n, e)) < MaxItems
  BY DEF Top
<1>2. Above(dates, m, e) \in SUBSET Above(dates, n, e)
  BY DEF Above
<1>3. Cardinality(Above(dates, m, e)) <= Cardinality(Above(dates, n, e))
  BY <1>2, AboveIsFinite, FS_Subset
<1>4. Cardinality(Above(dates, m, e)) < MaxItems
  BY <1>1, <1>3, AboveIsFinite, FeedIngestAssumption
<1> QED
  BY <1>1, <1>4 DEF Top

\* The newest of the first n depend on no other date.
LEMMA TopOfSame ==
    ASSUME NEW dates, NEW other, NEW n, \A e \in 1 .. n : dates[e] = other[e]
    PROVE  Top(dates, n) = Top(other, n)
<1>1. \A e \in 1 .. n : Above(dates, n, e) = Above(other, n, e)
  BY DEF Above
<1> QED
  BY <1>1 DEF Top

\* No more of them than the feed's maxItems: their ranks differ.
LEMMA TopIsBounded ==
    ASSUME NEW dates \in Seq(Int), NEW n \in Nat, n <= Len(dates)
    PROVE  IsFiniteSet(Top(dates, n)) /\ Cardinality(Top(dates, n)) <= MaxItems
<1> DEFINE before(d, e) == dates[d] > dates[e] \/ (dates[d] = dates[e] /\ d > e)
<1> DEFINE rank == [e \in Top(dates, n) |-> Cardinality(Above(dates, n, e))]
<1>1. \A e \in 1 .. n : dates[e] \in Int
  BY LenProperties, ElementOfSeq
<1>2. \A d, e \in 1 .. n : before(d, e) => Cardinality(Above(dates, n, d)) < Cardinality(Above(dates, n, e))
  <2> TAKE d, e \in 1 .. n
  <2> HAVE before(d, e)
  <2>1. Above(dates, n, d) \in SUBSET Above(dates, n, e)
    BY <1>1 DEF Above
  <2>2. d \in Above(dates, n, e) /\ d \notin Above(dates, n, d)
    BY <1>1 DEF Above
  <2>3. Cardinality(Above(dates, n, d)) <= Cardinality(Above(dates, n, e))
        /\ Cardinality(Above(dates, n, e)) # Cardinality(Above(dates, n, d))
    BY <2>1, <2>2, AboveIsFinite, FS_Subset
  <2> QED
    BY <2>3, AboveIsFinite
<1>3. \A d, e \in 1 .. n : d # e => before(d, e) \/ before(e, d)
  BY <1>1
<1>4. \A e \in Top(dates, n) : e \in 1 .. n /\ Cardinality(Above(dates, n, e)) \in 0 .. MaxItems - 1
  BY AboveIsFinite, FeedIngestAssumption DEF Top
<1>5. rank \in [Top(dates, n) -> 0 .. MaxItems - 1]
  BY <1>4
<1>6. \A d, e \in Top(dates, n) : rank[d] = rank[e] => d = e
  BY <1>2, <1>3, <1>4, AboveIsFinite
<1> HIDE DEF rank
<1>7. rank \in Injection(Top(dates, n), 0 .. MaxItems - 1)
  BY <1>5, <1>6 DEF Injection, IsInjective
<1>8. IsFiniteSet(0 .. MaxItems - 1) /\ Cardinality(0 .. MaxItems - 1) = MaxItems
  <2>1. 0 \in Int /\ MaxItems - 1 \in Int /\ MaxItems \in Nat
    BY FeedIngestAssumption
  <2>2. /\ IsFiniteSet(0 .. MaxItems - 1)
        /\ Cardinality(0 .. MaxItems - 1) = IF 0 > MaxItems - 1 THEN 0 ELSE MaxItems - 1 - 0 + 1
    BY <2>1, FS_Interval
  <2> QED
    BY <2>1, <2>2
<1> QED
  BY <1>7, <1>8, FS_Injection

\* Where no feed grows, nor any validator or snapshot changes, what was earned and not missed stays so.
LEMMA DocumentsUnchanged ==
    ASSUME UNCHANGED entries
    PROVE  \A f, n : Newest(f, n)' = Newest(f, n) /\ \A since : Within(f, n, since)' = Within(f, n, since)
BY NewestIsTop DEF Within

\* What the types say of single entries and clocks.
Plain ==
    /\ \A f \in Feeds : /\ Len(entries[f]) \in Nat /\ Len(appeared[f]) = Len(entries[f])
                        /\ Len(entries[f]) <= MaxEntries[f] /\ MaxEntries[f] \in Nat
                        /\ \A e \in 1 .. Len(entries[f]) : entries[f][e] \in Int /\ appeared[f][e] \in Nat
                        /\ validators[f] \in Nat /\ window[f] \in Int
    /\ now \in Nat /\ lastStart \in Nat \cup {Never} /\ first \in Int /\ Never \notin Int
    /\ Overlap \in Nat /\ FirstWindow \in Nat /\ MaxItems \in Nat /\ NumFeeds \in Nat /\ Limit \in Nat

LEMMA TypesArePlain == TypeOK => Plain
<1> SUFFICES ASSUME TypeOK PROVE Plain
  OBVIOUS
<1>1. \A f \in Feeds : /\ entries[f] \in Seq(Int) /\ appeared[f] \in Seq(0 .. MaxTime)
                       /\ Len(appeared[f]) = Len(entries[f]) /\ Len(entries[f]) <= MaxEntries[f]
  BY DEF TypeOK
<1>2. \A f \in Feeds : /\ Len(entries[f]) \in Nat
                       /\ \A e \in 1 .. Len(entries[f]) : entries[f][e] \in Int
                       /\ \A e \in 1 .. Len(appeared[f]) : appeared[f][e] \in 0 .. MaxTime
  BY <1>1, LenProperties, ElementOfSeq
<1>3. \A f \in Feeds : MaxEntries[f] \in Nat /\ validators[f] \in Nat /\ window[f] \in Int
  BY FeedIngestAssumption DEF TypeOK, Feeds
<1>4. /\ now \in Nat /\ lastStart \in Nat \cup {Never} /\ first \in Int /\ Never \notin Int
      /\ Overlap \in Nat /\ FirstWindow \in Nat /\ MaxItems \in Nat /\ NumFeeds \in Nat /\ Limit \in Nat
  BY FeedIngestAssumption DEF TypeOK
<1>5. ASSUME NEW f \in Feeds
      PROVE  /\ Len(entries[f]) \in Nat /\ Len(appeared[f]) = Len(entries[f])
             /\ Len(entries[f]) <= MaxEntries[f] /\ MaxEntries[f] \in Nat
             /\ \A e \in 1 .. Len(entries[f]) : entries[f][e] \in Int /\ appeared[f][e] \in Nat
             /\ validators[f] \in Nat /\ window[f] \in Int
  <2>1. Len(appeared[f]) = Len(entries[f]) /\ Len(entries[f]) <= MaxEntries[f]
    BY <1>1
  <2>2. \A e \in 1 .. Len(entries[f]) : appeared[f][e] \in Nat
    BY <1>2, <2>1
  <2> QED
    BY <1>2, <1>3, <2>1, <2>2
<1> QED
  BY <1>4, <1>5 DEF Plain

-----------------------------------------------------------------------------
(* One lemma per kind of step.                                             *)

LEMMA FInitially == Init => FInv
<1> SUFFICES ASSUME Init PROVE FInv
  OBVIOUS
<1> USE FeedIngestAssumption DEF Init, NoRun
<1>1. TypeOK
  <2>1. now \in 0 .. MaxTime /\ lastStart \in 0 .. MaxTime \cup {Never} /\ first \in Int /\ faults \in 0 .. MaxFaults
    OBVIOUS
  <2>2. entries \in [Feeds -> Seq(Int)] /\ appeared \in [Feeds -> Seq(0 .. MaxTime)] /\ processed \subseteq Entry
    BY EmptySeq
  <2>3. \A f \in Feeds : Len(entries[f]) = 0 /\ Len(appeared[f]) = 0 /\ MaxEntries[f] \in Nat
    BY EmptySeq DEF Feeds
  <2>4. validators \in [Feeds -> Nat] /\ \A f \in Feeds : validators[f] <= MaxEntries[f]
    BY <2>3
  <2>5. window \in [Feeds -> Int]
    OBVIOUS
  <2>6. /\ run.at \in {"idle", "feeds", "entries"} /\ run.feed \in 1 .. NumFeeds + 1
        /\ {run.feed} \X run.queue \subseteq Entry /\ run.yielded \in 0 .. Limit
    OBVIOUS
  <2>7. Cardinality(run.queue) <= MaxItems
    BY FS_EmptySet
  <2> QED
    BY <2>1, <2>2, <2>3, <2>4, <2>5, <2>6, <2>7 DEF TypeOK
<1>2. RunTypes
  BY DEF RunTypes
<1>3. ClocksAgree /\ ValidatorsAreOld /\ ResponseIsHeld /\ AskedIsSeen
  BY DEF ClocksAgree, ValidatorsAreOld, ResponseIsHeld, AskedIsSeen, Active
<1>4. TakesItsShare
  BY FS_EmptySet DEF TakesItsShare
<1>5. ValidatorsAreEarned /\ NothingMissed
  BY DEF ValidatorsAreEarned, NothingMissed, Within, Newest
<1> QED
  BY <1>1, <1>2, <1>3, <1>4, <1>5 DEF FInv

LEMMA TickStep == ASSUME FInv, Tick PROVE FInv'
<1>1. TypeOK'
  BY FeedIngestAssumption DEF FInv, Tick, TypeOK, Entry
<1>2. Plain /\ now' = now + 1 /\ UNCHANGED <<entries, appeared, processed, validators, window, lastStart, first, run>>
  BY TypesArePlain DEF FInv, Tick
<1>3. RunTypes' /\ TakesItsShare'
  BY <1>2 DEF FInv, RunTypes, TakesItsShare
<1>4. ClocksAgree'
  BY <1>2 DEF FInv, ClocksAgree, RunTypes, Active, Plain
<1>5. ValidatorsAreOld'
  BY <1>2 DEF FInv, ValidatorsAreOld, Active, Plain
<1>6. ResponseIsHeld' /\ AskedIsSeen' /\ ValidatorsAreEarned' /\ NothingMissed'
  BY <1>2, DocumentsUnchanged DEF FInv, ResponseIsHeld, AskedIsSeen, Seen, Active, ValidatorsAreEarned, NothingMissed
<1> QED
  BY <1>1, <1>3, <1>4, <1>5, <1>6 DEF FInv

\* A new entry appears now, and the others stay as they were.
LEMMA Grown ==
    ASSUME TypeOK, NEW f \in Feeds, Publish(f)
    PROVE  /\ TypeOK'
           /\ \A g \in Feeds : /\ Len(entries[g]) <= Len(entries'[g]) /\ Len(entries'[g]) \in Nat
                               /\ \A e \in 1 .. Len(entries[g]) : /\ entries'[g][e] = entries[g][e]
                                                                  /\ appeared'[g][e] = appeared[g][e]
                               /\ \A e \in Len(entries[g]) + 1 .. Len(entries'[g]) : appeared'[g][e] = now
<1>1. PICK lag \in 0 .. MaxLag : entries' = [entries EXCEPT ![f] = Append(@, now - lag)]
  BY DEF Publish
<1>2. /\ appeared' = [appeared EXCEPT ![f] = Append(@, now)] /\ Len(entries[f]) < MaxEntries[f]
      /\ UNCHANGED <<now, processed, validators, window, lastStart, first, run, faults>>
  BY DEF Publish
<1>3. now \in 0 .. MaxTime /\ now - lag \in Int
  BY <1>1, FeedIngestAssumption DEF TypeOK
<1>4. entries[f] \in Seq(Int) /\ appeared[f] \in Seq(0 .. MaxTime)
  BY DEF TypeOK
<1>5. Plain
  BY TypesArePlain
<1>6. /\ Append(entries[f], now - lag) \in Seq(Int) /\ Len(Append(entries[f], now - lag)) = Len(entries[f]) + 1
      /\ \A e \in 1 .. Len(entries[f]) : Append(entries[f], now - lag)[e] = entries[f][e]
  BY <1>3, <1>4, AppendProperties
<1>7. /\ Append(appeared[f], now) \in Seq(0 .. MaxTime) /\ Len(Append(appeared[f], now)) = Len(appeared[f]) + 1
      /\ Append(appeared[f], now)[Len(appeared[f]) + 1] = now
      /\ \A e \in 1 .. Len(appeared[f]) : Append(appeared[f], now)[e] = appeared[f][e]
  BY <1>3, <1>4, AppendProperties
<1>8. /\ entries'[f] = Append(entries[f], now - lag) /\ appeared'[f] = Append(appeared[f], now)
      /\ \A g \in Feeds \ {f} : entries'[g] = entries[g] /\ appeared'[g] = appeared[g]
  BY <1>1, <1>2 DEF TypeOK
<1>9. entries' \in [Feeds -> Seq(Int)] /\ appeared' \in [Feeds -> Seq(0 .. MaxTime)]
  BY <1>1, <1>2, <1>6, <1>7 DEF TypeOK
<1> DEFINE old == Len(entries[f])
<1>10. /\ Len(entries'[f]) = old + 1 /\ Len(appeared'[f]) = old + 1 /\ appeared'[f][old + 1] = now /\ old \in Nat
       /\ \A e \in 1 .. old : entries'[f][e] = entries[f][e] /\ appeared'[f][e] = appeared[f][e]
  BY <1>5, <1>6, <1>7, <1>8 DEF Plain
<1>11. \A g \in Feeds \ {f} : /\ entries'[g] = entries[g] /\ appeared'[g] = appeared[g]
                              /\ Len(appeared[g]) = Len(entries[g]) /\ Len(entries[g]) \in Nat
                              /\ Len(entries[g]) <= MaxEntries[g]
  BY <1>5, <1>8 DEF Plain
<1>12. TypeOK'
  <2>1. \A g \in Feeds : Len(entries'[g]) = Len(appeared'[g]) /\ Len(entries'[g]) <= MaxEntries[g]
    <3> TAKE g \in Feeds
    <3>1. CASE g = f
      BY <1>2, <1>5, <1>10, <3>1 DEF Plain
    <3>2. CASE g # f
      BY <1>11, <3>2
    <3> QED
      BY <3>1, <3>2
  <2> QED
    BY <1>2, <1>9, <2>1 DEF TypeOK, Entry
<1>13. ASSUME NEW g \in Feeds
       PROVE  /\ Len(entries[g]) <= Len(entries'[g]) /\ Len(entries'[g]) \in Nat
              /\ \A e \in 1 .. Len(entries[g]) : /\ entries'[g][e] = entries[g][e]
                                                 /\ appeared'[g][e] = appeared[g][e]
              /\ \A e \in Len(entries[g]) + 1 .. Len(entries'[g]) : appeared'[g][e] = now
  <2>1. CASE g = f
    <3>1. \A e \in old + 1 .. Len(entries'[f]) : e = old + 1
      BY <1>10
    <3> QED
      BY <1>10, <2>1, <3>1
  <2>2. CASE g # f
    <3>1. \A e \in Len(entries[g]) + 1 .. Len(entries'[g]) : FALSE
      BY <1>11, <2>2
    <3> QED
      BY <1>11, <2>2, <3>1
  <2> QED
    BY <2>1, <2>2
<1> QED
  BY <1>12, <1>13

LEMMA PublishStep == ASSUME FInv, NEW f \in Feeds, Publish(f) PROVE FInv'
<1> DEFINE size(g) == Len(entries[g])
           grown(g) == Len(entries'[g])
<1>1. UNCHANGED <<now, processed, validators, window, lastStart, first, run, faults>>
  BY DEF Publish
<1>2. Plain /\ TypeOK'
  BY TypesArePlain, Grown DEF FInv
<1>3. \A g \in Feeds : /\ size(g) <= grown(g) /\ grown(g) \in Nat /\ size(g) \in Nat
                       /\ \A e \in 1 .. size(g) : entries'[g][e] = entries[g][e] /\ appeared'[g][e] = appeared[g][e]
                       /\ \A e \in size(g) + 1 .. grown(g) : appeared'[g][e] = now
  BY <1>2, Grown DEF FInv, Plain
<1>4. ASSUME NEW g \in Feeds, NEW n \in Nat, n <= size(g)
      PROVE  /\ Newest(g, n)' = Newest(g, n) /\ Top(entries'[g], n) = Newest(g, n)
             /\ \A since : Within(g, n, since)' = Within(g, n, since)
  <2>1. \A e \in 1 .. n : entries'[g][e] = entries[g][e]
    BY <1>3, <1>4
  <2>2. Top(entries'[g], n) = Top(entries[g], n)
    BY <2>1, TopOfSame
  <2>3. Newest(g, n)' = Newest(g, n) /\ Top(entries'[g], n) = Newest(g, n)
    BY <2>2, NewestIsTop
  <2>4. Newest(g, n) \subseteq 1 .. n
    BY DEF Newest
  <2> QED
    BY <2>1, <2>3, <2>4 DEF Within
<1>5. ASSUME NEW g \in Feeds, NEW e \in Newest(g, Len(entries[g]))'
      PROVE  \/ /\ e \in Newest(g, Len(entries[g])) /\ e \in 1 .. size(g)
                /\ entries'[g][e] = entries[g][e] /\ appeared'[g][e] = appeared[g][e]
             \/ appeared'[g][e] = now
  <2>1. e \in Top(entries'[g], grown(g)) /\ e \in 1 .. grown(g)
    BY <1>5 DEF Newest, Newer, Top, Above
  <2>2. size(g) \in Nat /\ grown(g) \in Nat /\ size(g) <= grown(g)
    BY <1>3
  <2>3. CASE e <= size(g)
    <3>1. e \in Top(entries'[g], size(g)) /\ e \in 1 .. size(g)
      BY <2>1, <2>2, <2>3, TopOfPrefix
    <3>2. e \in Newest(g, size(g))
      BY <1>4, <2>2, <3>1
    <3> QED
      BY <1>3, <3>1, <3>2
  <2>4. CASE ~(e <= size(g))
    BY <1>3, <2>1, <2>2, <2>4
  <2> QED
    BY <2>3, <2>4
<1>6. RunTypes' /\ TakesItsShare'
  BY <1>1 DEF FInv, RunTypes, TakesItsShare
<1>7. ClocksAgree'
  <2>1. ASSUME NEW g \in Feeds, NEW e \in 1 .. grown(g) PROVE appeared'[g][e] <= now
    <3>1. e \in 1 .. size(g) \/ e \in size(g) + 1 .. grown(g)
      BY <1>3
    <3> QED
      BY <1>2, <1>3, <3>1 DEF FInv, ClocksAgree, Plain
  <2> QED
    BY <1>1, <2>1 DEF FInv, ClocksAgree, Active
<1>8. ValidatorsAreOld'
  <2>1. \A g \in Feeds : validators[g] > 0 => validators[g] <= grown(g)
    BY <1>2, <1>3 DEF FInv, ValidatorsAreOld, Plain
  <2> QED
    BY <1>1, <2>1 DEF FInv, ValidatorsAreOld, Active
<1>9. ResponseIsHeld'
  <2> SUFFICES ASSUME run.at = "entries"
               PROVE  /\ run.etag <= Len(entries'[run.feed])
                      /\ \A e \in Top(entries'[run.feed], run.etag) :
                            entries'[run.feed][e] >= run.since => e \in run.queue \/ <<run.feed, e>> \in processed
                      /\ \A e \in run.etag + 1 .. Len(entries'[run.feed]) : appeared'[run.feed][e] >= run.start
    BY <1>1 DEF ResponseIsHeld
  <2> DEFINE g == run.feed
  <2>1. g \in Feeds /\ run.etag \in Nat /\ run.start \in Nat /\ run.start <= now
    BY FeedIngestAssumption DEF FInv, RunTypes, ClocksAgree, Active
  <2>2. run.etag <= size(g)
    BY DEF FInv, ResponseIsHeld
  <2>3. \A e \in 1 .. run.etag : entries'[g][e] = entries[g][e]
    BY <1>3, <2>1, <2>2
  <2>4. Top(entries'[g], run.etag) = Top(entries[g], run.etag) /\ Top(entries[g], run.etag) \subseteq 1 .. run.etag
    BY <2>3, TopOfSame DEF Top
  <2>5. ASSUME NEW e \in run.etag + 1 .. grown(g) PROVE appeared'[g][e] >= run.start
    <3>1. (e \in run.etag + 1 .. size(g) /\ e \in 1 .. size(g)) \/ e \in size(g) + 1 .. grown(g)
      BY <1>3, <2>1
    <3> QED
      BY <1>2, <1>3, <2>1, <3>1 DEF FInv, ResponseIsHeld, Plain
  <2>6. run.etag <= grown(g)
    BY <1>3, <2>1, <2>2
  <2> QED
    BY <2>3, <2>4, <2>5, <2>6 DEF FInv, ResponseIsHeld
<1>10. AskedIsSeen'
  <2> SUFFICES ASSUME Active, ~run.failed, NEW g \in 1 .. run.feed - 1, NEW e \in Newest(g, Len(entries[g]))',
                      appeared'[g][e] < run.start, entries'[g][e] >= run.since,
                      lastStart # Never => entries'[g][e] >= first
               PROVE  <<g, e>> \in processed
    BY <1>1 DEF AskedIsSeen, Seen, Active
  <2>1. g \in Feeds /\ run.start <= now /\ run.start \in Nat
    BY <1>2, FeedIngestAssumption DEF FInv, RunTypes, ClocksAgree, Active, Feeds, Plain
  <2>2. appeared'[g][e] # now
    BY <1>2, <2>1 DEF Plain
  <2> QED
    BY <1>5, <2>1, <2>2 DEF FInv, AskedIsSeen, Seen
<1>11. ValidatorsAreEarned'
  <2> SUFFICES ASSUME NEW g \in Feeds, NEW e \in Within(g, validators[g], window[g])'
               PROVE  <<g, e>> \in processed
    BY <1>1 DEF ValidatorsAreEarned
  <2>1. validators[g] \in Nat /\ validators[g] <= size(g)
    BY <1>2 DEF FInv, ValidatorsAreOld, Plain
  <2>2. \A n, since : n = validators[g] /\ since = window[g] => Within(g, n, since)' = Within(g, n, since)
    BY <1>4, <2>1
  <2>3. e \in Within(g, validators[g], window[g])
    BY <1>1, <2>2
  <2> QED
    BY <2>3 DEF FInv, ValidatorsAreEarned
<1>12. NothingMissed'
  <2> SUFFICES ASSUME NEW g \in Feeds, NEW e \in Newest(g, Len(entries[g]))',
                      lastStart # Never, appeared'[g][e] < lastStart,
                      appeared'[g][e] - entries'[g][e] <= Overlap, entries'[g][e] >= first
               PROVE  <<g, e>> \in processed
    BY <1>1 DEF NothingMissed
  <2>1. appeared'[g][e] # now
    BY <1>2 DEF FInv, ClocksAgree, Plain
  <2> QED
    BY <1>5, <2>1 DEF FInv, NothingMissed
<1> QED
  BY <1>2, <1>6, <1>7, <1>8, <1>9, <1>10, <1>11, <1>12 DEF FInv

\* Room is counted in entries per feed.
LEMMA Room ==
    ASSUME NEW m \in Nat, NEW a \in Nat, NEW b \in Nat, a <= b
    PROVE  a * m \in Nat /\ a * m <= b * m /\ (a + 1) * m = a * m + m
<1>1. b * m = a * m + (b - a) * m /\ (a + 1) * m = a * m + m
  OBVIOUS
<1>2. a * m \in Nat /\ (b - a) * m \in Nat
  OBVIOUS
<1> QED
  BY <1>1, <1>2

\* As long as there is room, a run ends with its feeds, and a feed with its entries.
LEMMA NeverFull == ASSUME FInv, Roomy, Active PROVE (run.at = "feeds" \/ run.queue # {}) => ~Full
<1>1. /\ run.at \in {"feeds", "entries"} /\ run.feed \in 1 .. NumFeeds + 1 /\ run.yielded \in Nat
      /\ run.at = "entries" => run.feed \in 1 .. NumFeeds
      /\ run.at = "feeds" => run.queue = {}
  BY DEF FInv, RunTypes, Active, Feeds
<1>2. NumFeeds \in Nat /\ MaxItems \in Nat /\ Limit \in Nat /\ NumFeeds * MaxItems \in Nat /\ NumFeeds * MaxItems < Limit
  BY FeedIngestAssumption, Room DEF Roomy
<1>3. CASE run.at = "feeds"
  <2>1. run.feed - 1 \in Nat /\ run.feed - 1 <= NumFeeds
    BY <1>1, <1>2
  <2>2. (run.feed - 1) * MaxItems \in Nat /\ (run.feed - 1) * MaxItems <= NumFeeds * MaxItems
    BY <1>2, <2>1, Room
  <2>3. run.yielded <= (run.feed - 1) * MaxItems
    BY <1>3 DEF FInv, TakesItsShare
  <2> QED
    BY <1>1, <1>2, <2>2, <2>3 DEF Full
<1>4. CASE run.at = "entries" /\ run.queue # {}
  <2>1. run.feed \in Nat /\ run.feed <= NumFeeds
    BY <1>1, <1>2, <1>4
  <2>2. run.feed * MaxItems \in Nat /\ run.feed * MaxItems <= NumFeeds * MaxItems
    BY <1>2, <2>1, Room
  <2>3. run.yielded + Cardinality(run.queue) <= run.feed * MaxItems
    BY <1>4 DEF FInv, TakesItsShare
  <2>4. Cardinality(run.queue) \in Nat /\ Cardinality(run.queue) # 0
    BY <1>4, FS_CardinalityType, FS_EmptySet DEF FInv, TakesItsShare
  <2> QED
    BY <1>1, <1>2, <2>2, <2>3, <2>4 DEF Full
<1> QED
  BY <1>1, <1>3, <1>4

LEMMA EntriesOfFeed ==
    ASSUME NEW f \in Feeds
    PROVE  /\ \A e \in 1 .. MaxEntries[f] : <<f, e>> \in Entry
           /\ \A Q : Q \subseteq 1 .. MaxEntries[f] => {f} \X Q \subseteq Entry
BY DEF Entry

\* A run begins with nothing asked.
LEMMA StartStep == ASSUME FInv, StartRun PROVE FInv'
<1>1. /\ UNCHANGED <<now, entries, appeared, processed, validators, window, lastStart, first, faults>>
      /\ run' = [at |-> "feeds", start |-> now, since |-> Since(lastStart), feed |-> 1, etag |-> 0, queue |-> {},
                 yielded |-> 0, failed |-> FALSE]
  BY DEF StartRun, NoRun
<1>2. Plain /\ now \in 0 .. MaxTime
  BY TypesArePlain DEF FInv, TypeOK
<1>3. Since(lastStart) \in Int
  BY <1>2 DEF Since, Plain
<1>4. TypeOK'
  BY <1>1, <1>2, FS_EmptySet DEF FInv, TypeOK, Entry, Plain
<1>5. RunTypes'
  BY <1>1, <1>2, <1>3 DEF RunTypes, Plain
<1>6. ClocksAgree'
  BY <1>1, <1>2 DEF FInv, ClocksAgree, Active, Since, Plain
<1>7. TakesItsShare'
  BY <1>1, <1>2, FS_EmptySet DEF TakesItsShare, Plain
<1>8. ValidatorsAreOld'
  BY <1>1, <1>2 DEF FInv, ValidatorsAreOld, Active, Since, Plain
<1>9. ResponseIsHeld' /\ AskedIsSeen'
  BY <1>1 DEF ResponseIsHeld, AskedIsSeen
<1>10. ValidatorsAreEarned' /\ NothingMissed'
  BY <1>1, DocumentsUnchanged DEF FInv, ValidatorsAreEarned, NothingMissed
<1> QED
  BY <1>4, <1>5, <1>6, <1>7, <1>8, <1>9, <1>10 DEF FInv

\* A run that ends leaves what it has processed, and the validators of the feeds it has read.
LEMMA RunDiesStep == ASSUME FInv, RunDies PROVE FInv'
<1>1. /\ UNCHANGED <<now, entries, appeared, processed, validators, window, lastStart, first>>
      /\ run' = NoRun /\ faults' = faults + 1 /\ faults < MaxFaults
  BY DEF RunDies
<1>2. Plain
  BY TypesArePlain DEF FInv
<1>3. TypeOK'
  BY <1>1, <1>2, FS_EmptySet, FeedIngestAssumption DEF FInv, TypeOK, Entry, Plain, NoRun
<1>4. RunTypes'
  BY <1>1, <1>2, FeedIngestAssumption DEF RunTypes, Plain, NoRun
<1>5. ClocksAgree' /\ ValidatorsAreOld' /\ ResponseIsHeld' /\ AskedIsSeen'
  BY <1>1 DEF FInv, ClocksAgree, ValidatorsAreOld, ResponseIsHeld, AskedIsSeen, Active, NoRun
<1>6. TakesItsShare'
  BY <1>1, FS_EmptySet DEF TakesItsShare, NoRun
<1>7. ValidatorsAreEarned' /\ NothingMissed'
  BY <1>1, DocumentsUnchanged DEF FInv, ValidatorsAreEarned, NothingMissed
<1> QED
  BY <1>3, <1>4, <1>5, <1>6, <1>7 DEF FInv

\* A success whose feeds were all asked moves the window to its own beginning.
LEMMA EndRunStep == ASSUME FInv, Roomy, EndRun PROVE FInv'
<1>1. /\ UNCHANGED <<now, entries, appeared, processed, validators, window, faults>>
      /\ run' = NoRun /\ run.at = "feeds"
      /\ lastStart' = (IF run.failed THEN lastStart ELSE run.start)
      /\ first' = (IF ~run.failed /\ lastStart = Never THEN run.since ELSE first)
  BY DEF EndRun
<1>2. Plain /\ Active /\ run.start \in Nat /\ run.start \in 0 .. MaxTime /\ run.since \in Int /\ run.failed \in BOOLEAN
  BY <1>1, TypesArePlain DEF FInv, RunTypes, Active
<1>3. run.feed = NumFeeds + 1
  BY <1>1, <1>2, NeverFull DEF EndRun, FInv, RunTypes, Plain
<1>4. TypeOK'
  BY <1>1, <1>2, FS_EmptySet, FeedIngestAssumption DEF FInv, TypeOK, Entry, Plain, NoRun
<1>5. RunTypes'
  BY <1>1, <1>2, FeedIngestAssumption DEF RunTypes, Plain, NoRun
<1>6. ClocksAgree' /\ ResponseIsHeld' /\ AskedIsSeen'
  BY <1>1, <1>2 DEF FInv, ClocksAgree, ResponseIsHeld, AskedIsSeen, Active, NoRun, Plain
<1>7. TakesItsShare'
  BY <1>1, FS_EmptySet DEF TakesItsShare, NoRun
<1>8. ValidatorsAreOld'
  BY <1>1, <1>2 DEF FInv, ValidatorsAreOld, ClocksAgree, Active, NoRun, Plain
<1>9. ValidatorsAreEarned'
  BY <1>1, DocumentsUnchanged DEF FInv, ValidatorsAreEarned
<1>10. NothingMissed'
  <2>1. CASE run.failed
    BY <1>1, <2>1, DocumentsUnchanged DEF FInv, NothingMissed
  <2>2. CASE ~run.failed
    <3> SUFFICES ASSUME NEW f \in Feeds, NEW e \in Newest(f, Len(entries[f])),
                        appeared[f][e] < run.start, appeared[f][e] - entries[f][e] <= Overlap, entries[f][e] >= first'
                 PROVE  <<f, e>> \in processed
      BY <1>1, <2>2, DocumentsUnchanged DEF NothingMissed
    <3>1. Seen(f) /\ e \in 1 .. Len(entries[f])
      BY <1>2, <1>3, <2>2 DEF FInv, AskedIsSeen, Feeds, Newest, Plain
    <3>2. appeared[f][e] \in Nat /\ entries[f][e] \in Int
      BY <1>2, <3>1 DEF Plain
    <3>3. CASE lastStart = Never
      BY <1>1, <2>2, <3>1, <3>3 DEF Seen
    <3>4. CASE lastStart # Never /\ appeared[f][e] < lastStart
      BY <1>1, <3>4 DEF FInv, NothingMissed
    <3>5. CASE lastStart # Never /\ ~(appeared[f][e] < lastStart)
      <4>1. run.since = lastStart - Overlap /\ first' = first
        BY <1>1, <1>2, <3>5 DEF FInv, ClocksAgree
      <4>2. entries[f][e] >= run.since
        BY <1>2, <3>2, <3>5, <4>1 DEF Plain
      <4> QED
        BY <3>1, <3>5, <4>1, <4>2 DEF Seen
    <3> QED
      BY <3>3, <3>4, <3>5
  <2> QED
    BY <2>1, <2>2
<1> QED
  BY <1>4, <1>5, <1>6, <1>7, <1>8, <1>9, <1>10 DEF FInv

\* The loop goes on to the next feed, having seen this one or with an error.
LEMMA NextFeedStep ==
    ASSUME FInv, MoreFeeds, NEW failed \in BOOLEAN,
           run' = [run EXCEPT !.feed = @ + 1, !.failed = failed],
           run.failed => failed, failed \/ Seen(run.feed),
           UNCHANGED <<now, entries, appeared, processed, validators, window, lastStart, first>>,
           faults' \in 0 .. MaxFaults
    PROVE  FInv'
<1>1. Plain /\ run.at = "feeds" /\ run.feed \in 1 .. NumFeeds /\ run.yielded \in Nat /\ run.queue = {}
  BY TypesArePlain DEF FInv, MoreFeeds, RunTypes, Plain
<1>2. /\ run'.feed = run.feed + 1 /\ run'.failed = failed /\ run'.queue = {} /\ run'.at = "feeds"
      /\ run'.start = run.start /\ run'.since = run.since /\ run'.yielded = run.yielded /\ run'.etag = run.etag
  BY <1>1 DEF FInv, RunTypes
<1>0. run.feed + 1 \in 1 .. NumFeeds + 1
  BY <1>1 DEF Plain
<1>3. TypeOK'
  <2>1. Cardinality(run'.queue) <= MaxItems /\ {run'.feed} \X run'.queue \subseteq Entry
    BY <1>1, <1>2 DEF FInv, TypeOK
  <2>2. run'.at \in {"idle", "feeds", "entries"} /\ run'.feed \in 1 .. NumFeeds + 1 /\ run'.yielded \in 0 .. Limit
    BY <1>0, <1>2 DEF FInv, TypeOK
  <2> QED
    BY <2>1, <2>2 DEF FInv, TypeOK, Entry
<1>4. RunTypes'
  BY <1>0, <1>1, <1>2 DEF FInv, RunTypes
<1>5. ClocksAgree' /\ ValidatorsAreOld' /\ ResponseIsHeld'
  BY <1>1, <1>2 DEF FInv, ClocksAgree, ValidatorsAreOld, ResponseIsHeld, Active
<1>6. TakesItsShare'
  <2>1. run.feed - 1 \in Nat /\ MaxItems \in Nat /\ run.feed \in Nat /\ run.feed - 1 <= run.feed
    BY <1>1 DEF Plain
  <2>2. (run.feed - 1) * MaxItems \in Nat /\ run.feed * MaxItems \in Nat /\ (run.feed - 1) * MaxItems <= run.feed * MaxItems
    BY <2>1, Room
  <2>3. run.yielded <= (run.feed - 1) * MaxItems /\ run'.feed - 1 = run.feed
    BY <1>1, <1>2 DEF FInv, TakesItsShare
  <2> QED
    BY <1>1, <1>2, <2>2, <2>3, FS_EmptySet DEF TakesItsShare
<1>7. AskedIsSeen'
  <2>1. ASSUME NEW f \in 1 .. run.feed, ~failed PROVE Seen(f)
    BY <1>1, <2>1 DEF FInv, AskedIsSeen, Active
  <2>2. \A f : Seen(f) => Seen(f)'
    BY <1>2, DocumentsUnchanged DEF Seen
  <2> QED
    BY <1>1, <1>2, <2>1, <2>2 DEF AskedIsSeen, Plain
<1>8. ValidatorsAreEarned' /\ NothingMissed'
  BY DocumentsUnchanged DEF FInv, ValidatorsAreEarned, NothingMissed
<1> QED
  BY <1>3, <1>4, <1>5, <1>6, <1>7, <1>8 DEF FInv

\* 304: the document is one whose validators were earned, by a window no later than this run's.
LEMMA NotModifiedStep == ASSUME FInv, NotModified PROVE FInv'
<1>1. /\ MoreFeeds /\ validators[run.feed] > 0 /\ validators[run.feed] = Len(entries[run.feed])
      /\ run' = [run EXCEPT !.feed = @ + 1]
      /\ UNCHANGED <<now, entries, appeared, processed, validators, window, lastStart, first, faults>>
  BY DEF NotModified
<1>2. Plain /\ Active /\ run.feed \in Feeds /\ run.since \in Int /\ run.failed \in BOOLEAN
  BY <1>1, TypesArePlain DEF FInv, RunTypes, Active, MoreFeeds, Feeds, Plain
<1>3. run' = [run EXCEPT !.feed = @ + 1, !.failed = run.failed]
  BY <1>1 DEF FInv, RunTypes
<1>4. Seen(run.feed)
  <2> DEFINE f == run.feed
  <2> SUFFICES ASSUME NEW e \in Newest(f, Len(entries[f])), entries[f][e] >= run.since,
                      lastStart # Never => entries[f][e] >= first
               PROVE  <<f, e>> \in processed
    BY DEF Seen
  <2>1. e \in Newest(f, validators[f]) /\ entries[f][e] \in Int
    BY <1>1, <1>2 DEF Newest, Plain
  <2>2. window[f] <= entries[f][e]
    <3>1. CASE lastStart = Never
      BY <1>1, <1>2, <2>1, <3>1 DEF FInv, ValidatorsAreOld, Plain
    <3>2. CASE lastStart # Never
      BY <1>1, <1>2, <2>1, <3>2 DEF FInv, ValidatorsAreOld, ClocksAgree, Plain
    <3> QED
      BY <3>1, <3>2
  <2> QED
    BY <1>2, <2>1, <2>2 DEF FInv, ValidatorsAreEarned, Within, Plain
<1>5. faults' \in 0 .. MaxFaults
  BY <1>1 DEF FInv, TypeOK
<1> QED
  BY <1>1, <1>2, <1>3, <1>4, <1>5, NextFeedStep

LEMMA FeedFailsStep == ASSUME FInv, FeedFails PROVE FInv'
<1>1. faults' \in 0 .. MaxFaults
  BY FeedIngestAssumption DEF FeedFails, FInv, TypeOK
<1> QED
  BY <1>1, NextFeedStep DEF FeedFails

\* 200: the entries inside the window wait in the queue.
LEMMA FetchFeedStep == ASSUME FInv, FetchFeed PROVE FInv'
<1> DEFINE f == run.feed
           n == Len(entries[f])
<1>1. /\ MoreFeeds /\ run' = [run EXCEPT !.at = "entries", !.etag = n, !.queue = Within(f, n, run.since)]
      /\ UNCHANGED <<now, entries, appeared, processed, validators, window, lastStart, first, faults>>
  BY DEF FetchFeed
<1>2. /\ Plain /\ run.at = "feeds" /\ f \in 1 .. NumFeeds /\ f \in Feeds /\ run.yielded \in Nat
      /\ n \in Nat /\ n <= MaxEntries[f]
  BY <1>1, TypesArePlain DEF FInv, MoreFeeds, RunTypes, Plain, Feeds
<1> DEFINE q == Within(f, n, run.since)
<1>3. /\ run'.feed = f /\ run'.failed = run.failed /\ run'.queue = q /\ run'.at = "entries"
      /\ run'.start = run.start /\ run'.since = run.since /\ run'.yielded = run.yielded /\ run'.etag = n
  BY <1>1 DEF FInv, RunTypes
<1>4. q \subseteq Newest(f, n) /\ q \subseteq 1 .. n
  BY DEF Within, Newest
<1>5. IsFiniteSet(q) /\ Cardinality(q) \in Nat /\ Cardinality(q) <= MaxItems
  <2>1. entries[f] \in Seq(Int)
    BY <1>2 DEF FInv, TypeOK
  <2>2. IsFiniteSet(Newest(f, n)) /\ Cardinality(Newest(f, n)) <= MaxItems
    BY <1>2, <2>1, TopIsBounded, NewestIsTop
  <2>3. IsFiniteSet(q) /\ Cardinality(q) <= Cardinality(Newest(f, n))
    BY <1>4, <2>2, FS_Subset
  <2> QED
    BY <1>2, <2>2, <2>3, FS_CardinalityType DEF Plain
<1> HIDE DEF q
<1>6. TypeOK'
  <2>1. {f} \X q \subseteq Entry
    BY <1>2, <1>4, EntriesOfFeed DEF Plain
  <2> QED
    BY <1>1, <1>3, <1>5, <2>1 DEF FInv, TypeOK, Entry
<1>7. RunTypes'
  <2>1. run' = [run EXCEPT !.at = "entries", !.etag = n, !.queue = q]
    BY <1>1 DEF q
  <2> HIDE DEF n
  <2>2. q \subseteq Nat
    BY <1>2, <1>4
  <2> QED
    BY <1>2, <1>3, <1>4, <2>1, <2>2 DEF FInv, RunTypes
<1>8. ClocksAgree' /\ ValidatorsAreOld'
  BY <1>1, <1>2, <1>3 DEF FInv, ClocksAgree, ValidatorsAreOld, Active
<1>9. TakesItsShare'
  <2>1. f - 1 \in Nat /\ MaxItems \in Nat /\ f = (f - 1) + 1
    BY <1>2 DEF Plain
  <2>2. (f - 1) * MaxItems \in Nat /\ f * MaxItems = (f - 1) * MaxItems + MaxItems
    BY <2>1, Room
  <2>3. run.yielded <= (f - 1) * MaxItems
    BY <1>2 DEF FInv, TakesItsShare
  <2> QED
    BY <1>2, <1>3, <1>5, <2>1, <2>2, <2>3 DEF TakesItsShare
<1>10. ResponseIsHeld'
  <2>1. \A e \in n + 1 .. n : FALSE
    BY <1>2
  <2>2. \A e \in Top(entries[f], n) : entries[f][e] >= run.since => e \in q
    BY NewestIsTop DEF Within, q
  <2> HIDE DEF f
  <2> QED
    BY <1>1, <1>2, <1>3, <2>1, <2>2 DEF ResponseIsHeld
<1>11. AskedIsSeen'
  <2>1. \A g : Seen(g) => Seen(g)'
    BY <1>1, <1>3, DocumentsUnchanged DEF Seen
  <2> QED
    BY <1>2, <1>3, <2>1 DEF FInv, AskedIsSeen, Active
<1>12. ValidatorsAreEarned' /\ NothingMissed'
  BY <1>1, DocumentsUnchanged DEF FInv, ValidatorsAreEarned, NothingMissed
<1> QED
  BY <1>6, <1>7, <1>8, <1>9, <1>10, <1>11, <1>12 DEF FInv

\* An entry that was waiting is processed.
LEMMA ProcessEntryStep == ASSUME FInv, Roomy, ProcessEntry PROVE FInv'
<1> DEFINE f == run.feed
<1>1. PICK e \in run.queue : /\ processed' = processed \cup {<<f, e>>}
                             /\ run' = [run EXCEPT !.queue = @ \ {e}, !.yielded = @ + 1]
  BY DEF ProcessEntry
<1>2. run.at = "entries" /\ ~Full /\ UNCHANGED <<now, entries, appeared, validators, window, lastStart, first, faults>>
  BY DEF ProcessEntry
<1>3. /\ Plain /\ f \in Feeds /\ run.yielded \in Nat /\ run.queue \subseteq 1 .. run.etag
      /\ IsFiniteSet(run.queue)
  BY <1>2, TypesArePlain DEF FInv, RunTypes, TakesItsShare
<1> DEFINE q == run.queue \ {e}
<1>4. /\ run'.feed = f /\ run'.failed = run.failed /\ run'.queue = q /\ run'.at = "entries"
      /\ run'.start = run.start /\ run'.since = run.since /\ run'.yielded = run.yielded + 1 /\ run'.etag = run.etag
  BY <1>1, <1>2 DEF FInv, RunTypes
<1>5. /\ IsFiniteSet(q) /\ Cardinality(q) = Cardinality(run.queue) - 1 /\ Cardinality(run.queue) \in Nat
  BY <1>1, <1>3, FS_RemoveElement, FS_CardinalityType
<1>6. TypeOK'
  <2>1. <<f, e>> \in Entry /\ {f} \X q \subseteq Entry
    BY <1>1 DEF FInv, TypeOK
  <2>2. run.yielded + 1 \in 0 .. Limit
    BY <1>2, <1>3 DEF Full, Plain
  <2>3. Cardinality(q) <= MaxItems
    BY <1>3, <1>5 DEF FInv, TypeOK, Plain
  <2> HIDE DEF q
  <2> QED
    BY <1>1, <1>2, <1>4, <2>1, <2>2, <2>3 DEF FInv, TypeOK, Entry
<1>7. RunTypes'
  <2>1. q \subseteq Nat /\ q \subseteq 1 .. run.etag /\ run.yielded + 1 \in Nat
    BY <1>3 DEF FInv, RunTypes
  <2>2. run' = [run EXCEPT !.queue = q, !.yielded = run.yielded + 1]
    BY <1>1 DEF FInv, RunTypes
  <2> HIDE DEF q
  <2> QED
    BY <1>2, <1>3, <1>4, <2>1, <2>2 DEF FInv, RunTypes
<1>8. ClocksAgree' /\ ValidatorsAreOld'
  BY <1>2, <1>4 DEF FInv, ClocksAgree, ValidatorsAreOld, Active
<1>9. TakesItsShare'
  <2> HIDE DEF q
  <2>1. f * MaxItems \in Nat
    BY <1>3, Room DEF Feeds, Plain
  <2> QED
    BY <1>2, <1>3, <1>4, <1>5, <2>1 DEF FInv, TakesItsShare
<1>10. ResponseIsHeld'
  BY <1>1, <1>2, <1>4 DEF FInv, ResponseIsHeld
<1>11. AskedIsSeen'
  <2>1. \A g : Seen(g) => Seen(g)'
    BY <1>1, <1>2, <1>4, DocumentsUnchanged DEF Seen
  <2> QED
    BY <1>2, <1>4, <2>1 DEF FInv, AskedIsSeen, Active
<1>12. ValidatorsAreEarned' /\ NothingMissed'
  BY <1>1, <1>2, DocumentsUnchanged DEF FInv, ValidatorsAreEarned, NothingMissed
<1> QED
  BY <1>6, <1>7, <1>8, <1>9, <1>10, <1>11, <1>12 DEF FInv

\* The feed is done: its entries are processed, and its validators stored.
LEMMA StoreValidatorsStep == ASSUME FInv, Roomy, StoreValidators PROVE FInv'
<1> DEFINE f == run.feed
<1>1. /\ run.at = "entries" /\ (run.queue = {} \/ Full)
      /\ validators' = [validators EXCEPT ![f] = run.etag] /\ window' = [window EXCEPT ![f] = run.since]
      /\ run' = [run EXCEPT !.at = "feeds", !.feed = @ + 1, !.queue = {}]
      /\ UNCHANGED <<now, entries, appeared, processed, lastStart, first, faults>>
  BY DEF StoreValidators, FeedDone
<1>2. /\ Plain /\ f \in Feeds /\ f \in Nat /\ f + 1 \in 1 .. NumFeeds + 1 /\ run.yielded \in Nat
      /\ run.etag \in Nat /\ run.etag <= Len(entries[f]) /\ run.since \in Int /\ run.start \in Nat
  BY <1>1, TypesArePlain DEF FInv, RunTypes, Plain, Feeds, ResponseIsHeld
<1>3. run.queue = {}
  BY <1>1, NeverFull DEF Active
<1>4. /\ run'.feed = f + 1 /\ run'.failed = run.failed /\ run'.queue = {} /\ run'.at = "feeds"
      /\ run'.start = run.start /\ run'.since = run.since /\ run'.yielded = run.yielded
  BY <1>1 DEF FInv, RunTypes
<1>5. /\ validators'[f] = run.etag /\ window'[f] = run.since
      /\ \A g \in Feeds \ {f} : validators'[g] = validators[g] /\ window'[g] = window[g]
  BY <1>1, <1>2 DEF FInv, RunTypes, TypeOK
<1>6. TypeOK'
  <2>1. validators' \in [Feeds -> Nat] /\ \A g \in Feeds : validators'[g] <= MaxEntries[g]
    <3>1. validators' \in [Feeds -> Nat]
      BY <1>1, <1>2 DEF FInv, TypeOK
    <3>2. run.etag <= MaxEntries[f]
      BY <1>2 DEF Plain
    <3>3. \A g \in Feeds : validators[g] <= MaxEntries[g]
      BY DEF FInv, TypeOK
    <3> HIDE DEF f
    <3> QED
      BY <1>5, <3>1, <3>2, <3>3
  <2>2. window' \in [Feeds -> Int]
    BY <1>1, <1>2 DEF FInv, TypeOK
  <2>3. /\ Cardinality(run'.queue) <= MaxItems /\ {run'.feed} \X run'.queue \subseteq Entry
        /\ run'.at \in {"idle", "feeds", "entries"} /\ run'.feed \in 1 .. NumFeeds + 1 /\ run'.yielded \in 0 .. Limit
    BY <1>2, <1>3, <1>4 DEF FInv, TypeOK
  <2> QED
    BY <1>1, <2>1, <2>2, <2>3 DEF FInv, TypeOK, Entry
<1>7. RunTypes'
  BY <1>1, <1>2, <1>4 DEF FInv, RunTypes
<1>8. ClocksAgree'
  BY <1>1, <1>4 DEF FInv, ClocksAgree, Active
<1>9. ValidatorsAreOld'
  <2>1. ASSUME NEW g \in Feeds, validators'[g] > 0
        PROVE  /\ validators'[g] <= Len(entries[g])
               /\ IF lastStart = Never THEN window'[g] <= now - FirstWindow /\ window'[g] <= run.since
                                       ELSE window'[g] <= lastStart - Overlap \/ window'[g] <= first
    <3>1. CASE g = f
      BY <1>1, <1>2, <1>5, <3>1 DEF FInv, ClocksAgree, Active, Plain
    <3>2. CASE g # f
      BY <1>1, <1>5, <2>1, <3>2 DEF FInv, ValidatorsAreOld, Active
    <3> QED
      BY <3>1, <3>2
  <2> QED
    BY <1>1, <1>4, <2>1 DEF ValidatorsAreOld
<1>10. TakesItsShare' /\ ResponseIsHeld'
  BY <1>1, <1>2, <1>3, <1>4, FS_EmptySet DEF FInv, TakesItsShare, ResponseIsHeld
<1>11. \A e \in Top(entries[f], run.etag) : entries[f][e] >= run.since => <<f, e>> \in processed
  BY <1>1, <1>3 DEF FInv, ResponseIsHeld
<1>12. AskedIsSeen'
  <2>1. \A g : Seen(g) => Seen(g)'
    BY <1>1, <1>4, DocumentsUnchanged DEF Seen
  <2>2. Seen(f)
    <3> SUFFICES ASSUME NEW e \in Newest(f, Len(entries[f])), appeared[f][e] < run.start, entries[f][e] >= run.since
                 PROVE  <<f, e>> \in processed
      BY DEF Seen
    <3>1. e \in Top(entries[f], Len(entries[f]))
      BY NewestIsTop
    <3>4. e \in 1 .. Len(entries[f])
      BY DEF Newest
    <3>2. e <= run.etag
      <4>1. appeared[f][e] \in Nat /\ Len(entries[f]) \in Nat
        BY <1>2, <3>4 DEF Plain
      <4>2. \A x \in run.etag + 1 .. Len(entries[f]) : appeared[f][x] >= run.start
        BY <1>1 DEF FInv, ResponseIsHeld
      <4> QED
        BY <1>2, <3>4, <4>1, <4>2
    <3>3. e \in Top(entries[f], run.etag)
      BY <1>2, <3>1, <3>2, TopOfPrefix DEF Plain
    <3> QED
      BY <1>11, <3>3
  <2>3. \A g \in 1 .. f : ~run.failed => Seen(g)
    BY <1>1, <1>2, <2>2 DEF FInv, AskedIsSeen, Active
  <2> HIDE DEF f
  <2> QED
    BY <1>2, <1>4, <2>1, <2>3 DEF AskedIsSeen
<1>13. ValidatorsAreEarned'
  <2> SUFFICES ASSUME NEW g \in Feeds, NEW e \in Within(g, validators[g], window[g])'
               PROVE  <<g, e>> \in processed
    BY <1>1 DEF ValidatorsAreEarned
  <2>1. e \in Top(entries[g], validators'[g]) /\ entries[g][e] >= window'[g]
    BY <1>1 DEF Within, Newest, Newer, Top, Above
  <2>2. CASE g = f
    BY <1>5, <1>11, <2>1, <2>2
  <2>3. CASE g # f
    <3>1. e \in Within(g, validators[g], window[g])
      BY <1>5, <2>1, <2>3, NewestIsTop DEF Within
    <3> QED
      BY <3>1 DEF FInv, ValidatorsAreEarned
  <2> QED
    BY <2>2, <2>3
<1>14. NothingMissed'
  BY <1>1, DocumentsUnchanged DEF FInv, NothingMissed
<1> QED
  BY <1>6, <1>7, <1>8, <1>9, <1>10, <1>12, <1>13, <1>14 DEF FInv

\* Every step of a run, of the publishers and of time keeps the invariant.
LEMMA FStep == ASSUME Roomy PROVE FInv /\ [Next]_vars => FInv'
<1> SUFFICES ASSUME FInv, [Next]_vars PROVE FInv'
  OBVIOUS
<1>1. CASE UNCHANGED vars
  <2>1. UNCHANGED <<now, entries, appeared, processed, validators, window, lastStart, first, run, faults>>
    BY <1>1 DEF vars
  <2>2. TypeOK' /\ RunTypes' /\ ClocksAgree' /\ TakesItsShare' /\ ValidatorsAreOld'
    BY <2>1 DEF FInv, TypeOK, Entry, RunTypes, ClocksAgree, TakesItsShare, ValidatorsAreOld, Active
  <2>3. ResponseIsHeld'
    BY <2>1 DEF FInv, ResponseIsHeld
  <2>4. AskedIsSeen' /\ ValidatorsAreEarned' /\ NothingMissed'
    BY <2>1, DocumentsUnchanged DEF FInv, AskedIsSeen, Seen, Active, ValidatorsAreEarned, NothingMissed
  <2> QED
    BY <2>2, <2>3, <2>4 DEF FInv
<1> QED
  BY <1>1, TickStep, PublishStep, StartStep, NotModifiedStep, FetchFeedStep, FeedFailsStep, ProcessEntryStep,
     StoreValidatorsStep, EndRunStep, RunDiesStep DEF Next

\* The inductive invariant holds in every reachable state.
THEOREM Inductive == ASSUME Roomy PROVE Spec => []FInv
BY FInitially, FStep, PTL DEF Spec

\* The state has its type: no run takes more than its limit, and no more than maxItems of a response.
THEOREM TypeCorrect == ASSUME Roomy PROVE Spec => []TypeOK
<1>1. FInv => TypeOK
  BY DEF FInv
<1> QED
  BY <1>1, Inductive, PTL

\* An ETag is stored only for a document whose entries in the window have snapshots, however runs
\* fail or die (adapters/feed.ts: "Stored only once every entry of this response was processed").
THEOREM ValidatorsAreEarnedHolds == ASSUME Roomy PROVE Spec => []ValidatorsAreEarned
<1>1. FInv => ValidatorsAreEarned
  BY DEF FInv
<1> QED
  BY <1>1, Inductive, PTL

\* What appeared before a run that succeeded, late by the overlap at most, has been processed: the
\* window moves past nothing that failed, died, or was hidden by a 304 (lastRunSince in cli.ts).
THEOREM NothingMissedHolds == ASSUME Roomy PROVE Spec => []NothingMissed
<1>1. FInv => NothingMissed
  BY DEF FInv
<1> QED
  BY <1>1, Inductive, PTL
=============================================================================
