--------------------------- MODULE CommunityPages ---------------------------
(***************************************************************************)
(* What is read of what members write: the queries behind the community    *)
(* pages (packages/db/src/queries/community.ts), which each put the policy *)
(* into SQL themselves, and the account export (exportAccountData in       *)
(* packages/db/src/identity.ts).                                           *)
(*                                                                         *)
(* A query is a function of the committed rows.  Rows are sets: order and  *)
(* limits (50, 10 of the 500 most helpful) are left out, and so are joins  *)
(* with the catalog.  The edit a rating comes from stands for its score.   *)
(***************************************************************************)
EXTENDS Community

Database ==
    [members |-> members, configs |-> configs, reviews |-> reviews, ratings |-> ratings,
     submissions |-> submissions, environments |-> environments, votes |-> votes]

\* What is disclosed of a row: coalesce((select sum(v.value) ...), 0).
HelpfulScore(db, target) ==
    Cardinality({v \in db.votes : v.target = target /\ v.value = 1})
        - Cardinality({v \in db.votes : v.target = target /\ v.value = -1})

RatingsOf(db, rows) == {x \in db.ratings : <<x[1], x[2]>> \in {ReviewTarget(r) : r \in rows}}

-----------------------------------------------------------------------------
(* Reviews *)

ReviewDTO(db, viewer, r) ==
    [review |-> r, ratings |-> RatingsOf(db, {r}), helpfulScore |-> HelpfulScore(db, ReviewTarget(r)),
     isOwn |-> IsOwner(viewer, r)]

ReviewQuery(db, viewer, mode, rows) ==
    {ReviewDTO(db, viewer, r) : r \in {x \in rows : VisibleTo(viewer, x, mode)}}

ListReviewsForEntity(db, viewer, s) ==
    ReviewQuery(db, viewer, "listing", {r \in db.reviews : r.subject = s})

ListRecentReviews(db, viewer) == ReviewQuery(db, viewer, "listing", db.reviews)

ListReviewsByAuthor(db, viewer, m) ==
    ReviewQuery(db, viewer, "listing", {r \in db.reviews : r.owner = m})

GetReview(db, viewer, target) ==
    ReviewQuery(db, viewer, "direct", {r \in db.reviews : ReviewTarget(r) = target})

Eligible(rows) == {r \in rows : PublicAggregateEligible(r)}

\* A bug to rule out: what is not moderated feeds the averages.
ScoresOfPublished(db, s, d) ==
    {x \in RatingsOf(db, {r \in db.reviews : r.status = "published"}) : x[2] = s /\ x[3] = d}

\* ratingAggregates, aggregateRatings: the scores of each dimension.
Scores(db, s, d) == {x \in RatingsOf(db, Eligible(db.reviews)) : x[2] = s /\ x[3] = d}

RatingAggregates(db, s) == {<<d, Scores(db, s, d)>> : d \in {e \in Dimensions : Scores(db, s, e) # {}}}

-----------------------------------------------------------------------------
(* Submissions *)

\* A bug to rule out: a submission shows the name of its configuration.
AnyName(db, viewer, owner) == {c.name : c \in {x \in db.configs : x.owner = owner}}

\* The name of the configuration of this owner, for those who may see it.
ConfigName(db, viewer, owner) ==
    {c.name : c \in {x \in db.configs : x.owner = owner /\ VisibleTo(viewer, x, "direct")}}

\* The parts of a member's configuration are disclosed with the submission.
Hardware(db, viewer, e) ==
    IF e.hardware = Reference THEN [type |-> "reference", name |-> {Reference}, components |-> {}]
    ELSE [type |-> "member", name |-> ConfigName(db, viewer, e.hardware),
          components |-> {c.owner : c \in {x \in db.configs : x.owner = e.hardware}}]

SubmissionDTO(db, viewer, s, e) ==
    [submission |-> s, hardware |-> Hardware(db, viewer, e),
     helpfulScore |-> HelpfulScore(db, SubmissionTarget(s)), isOwn |-> IsOwner(viewer, s)]

SubmissionQuery(db, viewer, mode, rows) ==
    {SubmissionDTO(db, viewer, p[1], p[2]) :
        p \in {x \in rows \X db.environments : x[1].id = x[2].id /\ VisibleTo(viewer, x[1], mode)}}

ListSubmissions(db, viewer) == SubmissionQuery(db, viewer, "listing", db.submissions)

GetSubmission(db, viewer, id) ==
    SubmissionQuery(db, viewer, "direct", {s \in db.submissions : s.id = id})

-----------------------------------------------------------------------------
(* Members *)

GetPublicProfile(db, m) ==
    IF m \notin db.members THEN {}
    ELSE {[reviewCount |-> Cardinality({r \in Eligible(db.reviews) : r.owner = m}),
           submissionCount |-> Cardinality({s \in Eligible(db.submissions) : s.owner = m})]}

ListOwnHardwareConfigs(db, viewer) == {c \in db.configs : IsOwner(viewer, c)}

GetCommunityStats(db) ==
    [profiles |-> Cardinality(db.members), reviews |-> Cardinality(Eligible(db.reviews)),
     submissions |-> Cardinality(Eligible(db.submissions)),
     verified |-> Cardinality({s \in Eligible(db.submissions) : s.verification = "verified"})]

\* A bug to rule out: the export holds what the member has published.
PublishedOf(m, rows) == {r \in rows : r.owner = m /\ r.visibility # "private"}

OwnedBy(m, rows) == {r \in rows : r.owner = m}

\* exportAccountData; environments come with the submissions that refer to them.
ExportAccount(db, m) ==
    LET own == OwnedBy(m, db.submissions) IN
    [configs |-> OwnedBy(m, db.configs), reviews |-> OwnedBy(m, db.reviews),
     ratings |-> RatingsOf(db, OwnedBy(m, db.reviews)), submissions |-> own,
     environments |-> {e \in db.environments : e.id \in {s.id : s \in own}},
     votes |-> {v \in db.votes : v.voter = m}]

-----------------------------------------------------------------------------
(* Everything a viewer is served, by lists and by links.                   *)

Listings(db, viewer) ==
    [recent |-> ListRecentReviews(db, viewer),
     reviews |-> {<<s, ListReviewsForEntity(db, viewer, s), RatingAggregates(db, s)>> : s \in Subjects},
     submissions |-> ListSubmissions(db, viewer),
     profiles |-> {<<m, GetPublicProfile(db, m), ListReviewsByAuthor(db, viewer, m)>> : m \in Members},
     own |-> ListOwnHardwareConfigs(db, viewer),
     stats |-> GetCommunityStats(db)]

Links(db, viewer) ==
    [reviews |-> {<<t, GetReview(db, viewer, t)>> : t \in Members \X Subjects},
     submissions |-> {<<i, GetSubmission(db, viewer, i)>> : i \in 1 .. MaxRequests}]

Pages(db, viewer, mode) == IF mode = "listing" THEN Listings(db, viewer) ELSE Links(db, viewer)

-----------------------------------------------------------------------------
(* Properties *)

\* The database without the rows canView refuses the viewer, and without the
\* names of the configurations it refuses them.
Redacted(db, viewer, mode) ==
    LET kept(rows) == {r \in rows : CanView(viewer, r, mode)}
        targets == {ReviewTarget(r) : r \in kept(db.reviews)}
                      \cup {SubmissionTarget(s) : s \in kept(db.submissions)}
    IN [db EXCEPT !.reviews = kept(@), !.submissions = kept(@),
                  !.ratings = RatingsOf(db, kept(db.reviews)),
                  !.environments = {e \in @ : <<e.id>> \in targets},
                  !.votes = {v \in @ : v.target \in targets},
                  !.configs = {c \in @ : CanView(viewer, c, "direct")}
                                \cup {[c EXCEPT !.name = "redacted"] :
                                        c \in {x \in @ : ~CanView(viewer, x, "direct")}}]

\* docs/adr/0004, "A single policy function `canView(viewer, resource)` defines access":
\* the lists, links, averages, counts and profiles a viewer is served are the same when
\* the rows it refuses them do not exist.  (Every set of rows is met with no request open.)
StrangersLearnNothing ==
    (\A q \in Requests : ~Open(q)) =>
        \A viewer \in members \cup {NoOne}, mode \in Modes :
            Pages(Database, viewer, mode) = Pages(Redacted(Database, viewer, mode), viewer, mode)

\* exportAccountData, "Everything Mutinai holds about the signed-in user": what goes
\* with a member's account is what the export held, whatever its visibility or status.
DeletionTakesWhatExportGives ==
    [][\A q \in Requests : FinishDeletion(q) =>
          LET export == ExportAccount(Database, req[q].by) IN
          /\ configs \ configs' = export.configs /\ reviews \ reviews' = export.reviews
          /\ ratings \ ratings' = export.ratings
          /\ submissions \ submissions' = export.submissions
          /\ environments \ environments' \subseteq export.environments
          /\ export.votes \subseteq votes \ votes']_vars
=============================================================================
