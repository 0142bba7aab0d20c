---------------------------- MODULE CommunityProofs ----------------------------
(***************************************************************************)
(* For any members, moderators, subjects and requests: the filter in the   *)
(* where clauses shows exactly what the policy allows, every row a request *)
(* writes is one the policy speaks of, a review is one edit, nothing of a  *)
(* deleted member is left, and only moderators undo what moderators did.   *)
(***************************************************************************)
EXTENDS CommunityPages, TLAPS

\* What the policy knows of a row: one of the visibilities and statuses, and an owner.
IsGoverned(r) ==
    /\ {"visibility", "status", "owner"} \subseteq DOMAIN r
    /\ r.visibility \in Visibilities /\ r.status \in Statuses /\ r.owner \in Members

\* packages/db/src/visibility.ts, "SQL mirror of `canView` from @mutinai/domain": the
\* two decide alike for every viewer, row and mode of access.
THEOREM MirrorsPolicy ==
    ASSUME NEW viewer \in Viewers, NEW r, IsGoverned(r), NEW mode \in Modes
    PROVE  VisibleTo(viewer, r, mode) <=> CanView(viewer, r, mode)
<1>1. r.owner # NoOne
  BY VisibilityAssumption DEF IsGoverned
<1>2. CASE r.visibility = "private"
  BY <1>1, <1>2 DEF VisibleTo, CanView, IsOwner, IsModerator
<1>3. CASE r.visibility # "private" /\ r.status # "published"
  BY <1>1, <1>3 DEF VisibleTo, CanView, IsOwner, IsModerator
<1>4. CASE r.visibility # "private" /\ r.status = "published"
  BY <1>1, <1>4 DEF VisibleTo, CanView, IsOwner, IsModerator, IsGoverned, Visibilities, Modes
<1> QED
  BY <1>2, <1>3, <1>4

\* What feeds averages and measured speeds is what a stranger finds in listings.
LEMMA AggregatesArePublic ==
    ASSUME NEW r, IsGoverned(r)
    PROVE  PublicAggregateEligible(r) <=> CanView(NoOne, r, "listing")
BY VisibilityAssumption DEF PublicAggregateEligible, CanView, IsOwner, IsModerator, IsGoverned, Visibilities

-----------------------------------------------------------------------------
\* What a request will write is chosen when it begins.
Chosen(r) ==
    /\ "at" \in DOMAIN r
    /\ r.at \in {"review", "ratings", "submission"} =>
          {"visibility", "by"} \subseteq DOMAIN r /\ r.visibility \in Visibilities /\ r.by \in Members

IInv ==
    /\ members \subseteq Members
    /\ \A r \in reviews \cup submissions : IsGoverned(r)
    /\ DOMAIN req = Requests
    /\ \A q \in Requests : Chosen(req[q])

\* Opening, moving on or closing a request keeps its choice.
LEMMA DoKeepsChoices ==
    ASSUME IInv, NEW q \in Requests, NEW r, Do(q, r), Chosen(r)
    PROVE  DOMAIN req' = Requests /\ \A p \in Requests : Chosen(req'[p])
BY DEF IInv, Do

LEMMA NoRequestChosen == Chosen(NoRequest)
BY DEF Chosen, NoRequest

LEMMA InitIsGoverned == Init => IInv
<1> SUFFICES ASSUME Init PROVE IInv
  OBVIOUS
<1>1. req = [q \in Requests |-> NoRequest] /\ members = Members /\ reviews = {} /\ submissions = {}
  BY DEF Init
<1> QED
  BY <1>1, NoRequestChosen DEF IInv

\* An edit keeps the status of the row it replaces.
LEMMA KeptStatusIsStatus ==
    ASSUME IInv, NEW m, NEW s
    PROVE  KeptStatus(m, s) \in Statuses
<1>1. CASE \E r \in reviews : ReviewTarget(r) = <<m, s>>
  <2>1. (CHOOSE r \in reviews : ReviewTarget(r) = <<m, s>>) \in reviews
    BY <1>1
  <2> QED
    BY <2>1, <1>1 DEF KeptStatus, IInv, IsGoverned
<1>2. CASE ~ \E r \in reviews : ReviewTarget(r) = <<m, s>>
  BY <1>2 DEF KeptStatus, Statuses
<1> QED
  BY <1>1, <1>2

LEMMA NextIsGoverned == IInv /\ [Next]_vars => IInv'
<1> SUFFICES ASSUME IInv, [Next]_vars PROVE IInv'
  OBVIOUS
<1> USE NoRequestChosen, DoKeepsChoices
<1>1. CASE UNCHANGED vars
  BY <1>1 DEF IInv, vars, data, Chosen, IsGoverned
<1> SUFFICES ASSUME NEW q \in Requests, Step(q) PROVE IInv'
  BY <1>1 DEF Next
<1>2. CASE CreateConfig(q)
  BY <1>2 DEF IInv, CreateConfig, Chosen, IsGoverned
<1>3. CASE BeginReview(q)
  <2>1. members' = members /\ reviews' = reviews /\ submissions' = submissions
    BY <1>3 DEF BeginReview, data
  <2>2. PICK m \in members, s \in Subjects, v \in Offered, d \in ValidRatings :
          Do(q, [at |-> "review", by |-> m, subject |-> s, visibility |-> v, dimensions |-> d,
                 edit |-> begun', old |-> {}])
    BY <1>3 DEF BeginReview
  <2>3. Chosen([at |-> "review", by |-> m, subject |-> s, visibility |-> v, dimensions |-> d,
                edit |-> begun', old |-> {}])
    BY CommunityAssumption DEF Chosen, IInv
  <2> QED
    BY <2>1, <2>2, <2>3 DEF IInv
<1>4. CASE WriteReview(q)
  <2>1. members' = members /\ reviews' = reviews /\ submissions' = submissions
    BY <1>4 DEF WriteReview, data
  <2>2. Chosen([req[q] EXCEPT !.at = "ratings",
                              !.old = {r \in ratings : r[1] = req[q].by /\ r[2] = req[q].subject}])
    BY <1>4 DEF WriteReview, Chosen, IInv
  <2> QED
    BY <1>4, <2>1, <2>2 DEF IInv, WriteReview
<1>5. CASE CommitReview(q)
  <2> DEFINE row == [owner |-> req[q].by, subject |-> req[q].subject, edit |-> req[q].edit,
                     visibility |-> req[q].visibility,
                     status |-> KeptStatus(req[q].by, req[q].subject)]
  <2>1. IsGoverned(row)
    BY <1>5, KeptStatusIsStatus DEF CommitReview, IsGoverned, IInv, Chosen
  <2>2. reviews' \subseteq reviews \cup {row} /\ members' = members /\ submissions' = submissions
    BY <1>5 DEF CommitReview, OtherReviews
  <2>3. Do(q, NoRequest)
    BY <1>5 DEF CommitReview
  <2> QED
    BY <2>1, <2>2, <2>3 DEF IInv
<1>6. CASE BeginSubmission(q)
  <2>1. members' = members /\ reviews' = reviews /\ submissions' = submissions
    BY <1>6 DEF BeginSubmission, data
  <2>2. PICK m \in members, v \in Offered :
          \E h \in AllowedHardware(m) :
             Do(q, [at |-> "submission", by |-> m, id |-> begun', hardware |-> h, visibility |-> v])
    BY <1>6 DEF BeginSubmission
  <2>3. PICK h \in AllowedHardware(m) :
          Do(q, [at |-> "submission", by |-> m, id |-> begun', hardware |-> h, visibility |-> v])
    BY <2>2
  <2>4. Chosen([at |-> "submission", by |-> m, id |-> begun', hardware |-> h, visibility |-> v])
    BY CommunityAssumption DEF Chosen, IInv
  <2> QED
    BY <2>1, <2>3, <2>4 DEF IInv
<1>7. CASE InsertSubmission(q)
  <2> DEFINE row == [id |-> req[q].id, owner |-> req[q].by, visibility |-> req[q].visibility,
                     status |-> "published", verification |-> "unverified"]
  <2>1. IsGoverned(row)
    BY <1>7 DEF InsertSubmission, IsGoverned, IInv, Chosen, Statuses
  <2>2. submissions' = submissions \cup {row} /\ members' = members /\ reviews' = reviews
    BY <1>7 DEF InsertSubmission
  <2>3. Do(q, NoRequest)
    BY <1>7 DEF InsertSubmission
  <2> QED
    BY <2>1, <2>2, <2>3 DEF IInv
<1>8. CASE BeginVote(q) \/ BeginModeration(q) \/ BeginDeletion(q)
  <2>1. members' = members /\ reviews' = reviews /\ submissions' = submissions
    BY <1>8 DEF BeginVote, BeginModeration, BeginDeletion, data
  <2>2. \E r : Do(q, r) /\ Chosen(r)
    <3>1. CASE BeginVote(q)
      <4>1. PICK m, t, x :
              Do(q, [at |-> "vote", by |-> m, target |-> t, value |-> x, old |-> {}])
        BY <3>1 DEF BeginVote
      <4>2. Chosen([at |-> "vote", by |-> m, target |-> t, value |-> x, old |-> {}])
        BY DEF Chosen
      <4> QED
        BY <4>1, <4>2
    <3>2. CASE BeginModeration(q)
      <4>1. PICK m : Do(q, [at |-> "moderate", by |-> m])
        BY <3>2 DEF BeginModeration
      <4>2. Chosen([at |-> "moderate", by |-> m])
        BY DEF Chosen
      <4> QED
        BY <4>1, <4>2
    <3>3. CASE BeginDeletion(q)
      <4>1. PICK m, ids : Do(q, [at |-> "delete", by |-> m, seen |-> ids])
        BY <3>3 DEF BeginDeletion
      <4>2. Chosen([at |-> "delete", by |-> m, seen |-> ids])
        BY DEF Chosen
      <4> QED
        BY <4>1, <4>2
    <3> QED
      BY <1>8, <3>1, <3>2, <3>3
  <2> QED
    BY <2>1, <2>2 DEF IInv
<1>9. CASE DeleteVote(q)
  <2>1. members' = members /\ reviews' = reviews /\ submissions' = submissions
    BY <1>9 DEF DeleteVote, data
  <2>2. Chosen([req[q] EXCEPT !.at = "cast", !.old = OwnVotes(q)])
    BY <1>9 DEF DeleteVote, Chosen, IInv
  <2> QED
    BY <1>9, <2>1, <2>2 DEF IInv, DeleteVote
<1>10. CASE CastVote(q) \/ Abort(q)
  BY <1>10 DEF CastVote, Abort, IInv, data
<1>11. CASE ModerateReview(q)
  <2>1. PICK r \in reviews, s \in Rulings :
          reviews' = (reviews \ {r}) \cup {[r EXCEPT !.status = s]}
    BY <1>11 DEF ModerateReview
  <2>2. IsGoverned([r EXCEPT !.status = s])
    BY CommunityAssumption DEF IsGoverned, IInv
  <2>3. members' = members /\ submissions' = submissions /\ Do(q, NoRequest)
    BY <1>11 DEF ModerateReview
  <2> QED
    BY <2>1, <2>2, <2>3 DEF IInv
<1>12. CASE SetSubmissionVerification(q)
  <2>1. PICK s \in submissions, v \in Verdicts :
          submissions' = (submissions \ {s}) \cup {[s EXCEPT !.verification = v]}
    BY <1>12 DEF SetSubmissionVerification
  <2>2. IsGoverned([s EXCEPT !.verification = v])
    BY DEF IsGoverned, IInv
  <2>3. members' = members /\ reviews' = reviews /\ Do(q, NoRequest)
    BY <1>12 DEF SetSubmissionVerification
  <2> QED
    BY <2>1, <2>2, <2>3 DEF IInv
<1>13. CASE FinishDeletion(q)
  BY <1>13 DEF FinishDeletion, IInv
<1> QED
  BY <1>2, <1>3, <1>4, <1>5, <1>6, <1>7, <1>8, <1>9, <1>10, <1>11, <1>12, <1>13 DEF Step

\* In every state, direct links and listings show exactly what the policy allows, and
\* averages take in nothing a stranger may not list.
THEOREM ListingsAreSafe == Spec => []ListingsFollowPolicy
<1>1. IInv => ListingsFollowPolicy
  <2> SUFFICES ASSUME IInv, NEW t \in Targets
               PROVE  /\ \A viewer \in Viewers, mode \in Modes :
                            VisibleTo(viewer, t.row, mode) <=> CanView(viewer, t.row, mode)
                      /\ PublicAggregateEligible(t.row) <=> CanView(NoOne, t.row, "listing")
    BY DEF ListingsFollowPolicy
  <2>1. t.row \in reviews \cup submissions
    BY DEF Targets
  <2>2. IsGoverned(t.row)
    BY <2>1 DEF IInv
  <2> QED
    BY <2>2, MirrorsPolicy, AggregatesArePublic
<1> QED
  BY InitIsGoverned, NextIsGoverned, <1>1, PTL DEF Spec
-----------------------------------------------------------------------------
(* What concurrent requests of a member leave of a review, and what a      *)
(* deletion leaves of a member.                                            *)

\* The ratings in R of the review of m on s.
RatingsIn(R, m, s) == {x \in R : x[1] = m /\ x[2] = s}

Shaped ==
    /\ \A r \in reviews : {"subject", "edit"} \subseteq DOMAIN r /\ r.subject \in Subjects
    /\ \A s \in submissions : "id" \in DOMAIN s

\* The unique key on author and subject.
OneReviewEach == \A r, o \in reviews : ReviewTarget(r) = ReviewTarget(o) => r = o

\* What an edit is going to write.
Asked(r) ==
    r.at \in {"review", "ratings"} =>
        /\ {"by", "subject", "dimensions", "edit", "old"} \subseteq DOMAIN r
        /\ r.subject \in Subjects /\ r.dimensions \in ValidRatings

\* A transaction that holds the row lock of a review replaces all its ratings, ...
Holding ==
    \A q \in Requests : req[q].at = "ratings" =>
        req[q].by \in members /\ req[q].old = RatingsIn(ratings, req[q].by, req[q].subject)

\* ... and no other holds it.
OneWriter ==
    \A p, q \in Requests :
        (/\ req[p].at = "ratings" /\ req[q].at = "ratings"
         /\ req[p].by = req[q].by /\ req[p].subject = req[q].subject) => p = q

RowFacts == Shaped /\ OneReviewEach /\ ReviewIsOneEdit /\ NothingOfTheDeleted
RequestFacts == (\A q \in Requests : Asked(req[q])) /\ Holding /\ OneWriter

KInv == IInv /\ RowFacts /\ RequestFacts

LEMMA InitIsKept == Init => KInv
<1> SUFFICES ASSUME Init PROVE KInv
  OBVIOUS
<1>1. /\ req = [q \in Requests |-> NoRequest] /\ reviews = {} /\ submissions = {} /\ ratings = {}
      /\ configs = {} /\ votes = {}
  BY DEF Init
<1>2. RowFacts
  BY <1>1 DEF RowFacts, Shaped, OneReviewEach, ReviewIsOneEdit, NothingOfTheDeleted
<1>3. \A q \in Requests : req[q].at = "none"
  BY <1>1 DEF NoRequest
<1>4. RequestFacts
  BY <1>3 DEF RequestFacts, Asked, Holding, OneWriter
<1> QED
  BY <1>2, <1>4, InitIsGoverned DEF KInv

LEMMA RowsUnchanged ==
    ASSUME RowFacts, UNCHANGED data PROVE RowFacts'
BY DEF RowFacts, data, Shaped, OneReviewEach, ReviewIsOneEdit, NothingOfTheDeleted, ReviewTarget, SubmissionTarget, Targets

\* A step of one request that does not take the lock, and takes neither members nor
\* ratings from those that hold one.
LEMMA OthersHold ==
    ASSUME KInv, NEW q \in Requests, NEW r, Do(q, r), r.at # "ratings", Asked(r),
           \A p \in Requests \ {q} : req[p].at = "ratings" =>
               /\ req[p].by \in members'
               /\ RatingsIn(ratings', req[p].by, req[p].subject) = RatingsIn(ratings, req[p].by, req[p].subject)
    PROVE  RequestFacts'
<1>1. req'[q] = r /\ \A p \in Requests \ {q} : req'[p] = req[p]
  BY DEF Do, KInv, IInv
<1>2. \A p \in Requests : Asked(req'[p])
  BY <1>1 DEF KInv, RequestFacts
<1>3. Holding'
  <2> SUFFICES ASSUME NEW p \in Requests, req'[p].at = "ratings"
               PROVE  /\ req'[p].by \in members'
                      /\ req'[p].old = RatingsIn(ratings', req[p].by, req[p].subject)
                      /\ req'[p] = req[p]
    BY DEF Holding, RatingsIn
  <2>1. p # q /\ req'[p] = req[p]
    BY <1>1
  <2> QED
    BY <2>1 DEF KInv, RequestFacts, Holding
<1>4. OneWriter'
  BY <1>1 DEF OneWriter, KInv, RequestFacts
<1> QED
  BY <1>2, <1>3, <1>4 DEF RequestFacts

LEMMA NothingAsked == Asked(NoRequest) /\ NoRequest.at # "ratings"
BY DEF Asked, NoRequest

\* A request begins, deletes the vote it replaces, or ends without having written.
LEMMA OtherRequests ==
    ASSUME KInv, NEW q \in Requests,
           BeginReview(q) \/ BeginSubmission(q) \/ BeginVote(q) \/ DeleteVote(q)
             \/ BeginModeration(q) \/ BeginDeletion(q) \/ Abort(q)
    PROVE  RowFacts' /\ RequestFacts'
<1>1. UNCHANGED data
  BY DEF BeginReview, BeginSubmission, BeginVote, DeleteVote, BeginModeration, BeginDeletion, Abort
<1>2. \E r : Do(q, r) /\ r.at # "ratings" /\ Asked(r)
  <2>1. CASE BeginReview(q)
    <3>1. PICK m \in members, s \in Subjects, v \in Offered, d \in ValidRatings :
            Do(q, [at |-> "review", by |-> m, subject |-> s, visibility |-> v, dimensions |-> d,
                   edit |-> begun', old |-> {}])
      BY <2>1 DEF BeginReview
    <3> QED
      BY <3>1 DEF Asked
  <2>2. CASE BeginSubmission(q)
    <3>1. PICK m, n, h, v : Do(q, [at |-> "submission", by |-> m, id |-> n, hardware |-> h, visibility |-> v])
      BY <2>2 DEF BeginSubmission
    <3> QED
      BY <3>1 DEF Asked
  <2>3. CASE BeginVote(q)
    <3>1. PICK m, t, x : Do(q, [at |-> "vote", by |-> m, target |-> t, value |-> x, old |-> {}])
      BY <2>3 DEF BeginVote
    <3> QED
      BY <3>1 DEF Asked
  <2>4. CASE DeleteVote(q)
    <3>1. /\ Do(q, [req[q] EXCEPT !.at = "cast", !.old = OwnVotes(q)])
          /\ "at" \in DOMAIN req[q]
      BY <2>4 DEF DeleteVote, KInv, IInv, Chosen
    <3>2. [req[q] EXCEPT !.at = "cast", !.old = OwnVotes(q)].at = "cast"
      BY <3>1
    <3> QED
      BY <3>1, <3>2 DEF Asked
  <2>5. CASE BeginModeration(q)
    <3>1. PICK m : Do(q, [at |-> "moderate", by |-> m])
      BY <2>5 DEF BeginModeration
    <3> QED
      BY <3>1 DEF Asked
  <2>6. CASE BeginDeletion(q)
    <3>1. PICK m, ids : Do(q, [at |-> "delete", by |-> m, seen |-> ids])
      BY <2>6 DEF BeginDeletion
    <3> QED
      BY <3>1 DEF Asked
  <2>7. CASE Abort(q)
    BY <2>7, NothingAsked DEF Abort
  <2> QED
    BY <2>1, <2>2, <2>3, <2>4, <2>5, <2>6, <2>7
<1>3. \A p \in Requests \ {q} : req[p].at = "ratings" =>
          /\ req[p].by \in members'
          /\ RatingsIn(ratings', req[p].by, req[p].subject) = RatingsIn(ratings, req[p].by, req[p].subject)
  BY <1>1 DEF data, RatingsIn, KInv, RequestFacts, Holding
<1> QED
  BY <1>1, <1>2, <1>3, RowsUnchanged, OthersHold DEF KInv

LEMMA WriteReviewKeeps ==
    ASSUME KInv, NEW q \in Requests, WriteReview(q)
    PROVE  RowFacts' /\ RequestFacts'
<1> DEFINE r == [req[q] EXCEPT !.at = "ratings",
                               !.old = {x \in ratings : x[1] = req[q].by /\ x[2] = req[q].subject}]
<1>1. req'[q] = r /\ \A p \in Requests \ {q} : req'[p] = req[p]
  BY DEF WriteReview, Do, KInv, IInv
<1>2. UNCHANGED data /\ req[q].by \in members /\ ~Locked(req[q].by, req[q].subject)
  BY DEF WriteReview
<1>3. Asked(req[q]) /\ req[q].at = "review" /\ "at" \in DOMAIN req[q]
  BY DEF WriteReview, KInv, RequestFacts, IInv, Chosen
<1>4. /\ r.at = "ratings" /\ r.by = req[q].by /\ r.subject = req[q].subject
      /\ r.old = RatingsIn(ratings, req[q].by, req[q].subject) /\ r.dimensions = req[q].dimensions
      /\ DOMAIN r = DOMAIN req[q]
  BY <1>3 DEF Asked, RatingsIn
<1>5. \A p \in Requests : Asked(req'[p])
  BY <1>1, <1>3, <1>4 DEF Asked, KInv, RequestFacts
<1> HIDE DEF r
<1>6. Holding'
  <2> SUFFICES ASSUME NEW p \in Requests, req'[p].at = "ratings"
               PROVE  /\ req'[p].by \in members'
                      /\ req'[p].old = RatingsIn(ratings', req'[p].by, req'[p].subject)
    BY DEF Holding
  <2>1. members' = members /\ ratings' = ratings
    BY <1>2 DEF data
  <2>2. CASE p = q
    BY <1>1, <1>2, <1>4, <2>1, <2>2
  <2>3. CASE p # q
    BY <1>1, <2>1, <2>3 DEF Holding, KInv, RequestFacts
  <2> QED
    BY <2>2, <2>3
<1>7. OneWriter'
  <2>1. \A p \in Requests \ {q} :
            req[p].at = "ratings" => ~(req[p].by = req[q].by /\ req[p].subject = req[q].subject)
    BY <1>2 DEF Locked
  <2>2. OneWriter
    BY DEF KInv, RequestFacts
  <2> QED
    BY <1>1, <1>4, <2>1, <2>2 DEF OneWriter
<1> QED
  BY <1>2, <1>5, <1>6, <1>7, RowsUnchanged DEF RequestFacts, KInv

LEMMA CommitReviewKeeps ==
    ASSUME KInv, NEW q \in Requests, CommitReview(q)
    PROVE  RowFacts' /\ RequestFacts'
<1> DEFINE m == req[q].by
           s == req[q].subject
           row == [owner |-> m, subject |-> s, edit |-> req[q].edit,
                   visibility |-> req[q].visibility, status |-> KeptStatus(m, s)]
<1>1. /\ reviews' = {r \in reviews : ReviewTarget(r) # <<m, s>>} \cup {row}
      /\ ratings' = (ratings \ req[q].old) \cup {<<m, s, d, req[q].edit>> : d \in req[q].dimensions}
      /\ UNCHANGED <<members, configs, submissions, environments, votes>>
      /\ Do(q, NoRequest) /\ req[q].at = "ratings"
  BY DEF CommitReview, OtherReviews
<1>2. /\ m \in members /\ req[q].old = RatingsIn(ratings, m, s)
      /\ s \in Subjects /\ req[q].dimensions # {}
  <2>1. Holding /\ Asked(req[q])
    BY DEF KInv, RequestFacts
  <2>2. req[q].dimensions \in ValidRatings /\ s \in Subjects
    BY <1>1, <2>1 DEF Asked
  <2>3. req[q].dimensions # {}
    BY <2>2 DEF ValidRatings
  <2>4. req[q].by \in members /\ req[q].old = RatingsIn(ratings, req[q].by, req[q].subject)
    BY <1>1, <2>1 DEF Holding
  <2> QED
    BY <2>2, <2>3, <2>4
<1>3. RatingsIn(ratings', m, s) = {<<m, s, d, req[q].edit>> : d \in req[q].dimensions}
  BY <1>1, <1>2 DEF RatingsIn
<1>4. \A n, t : <<n, t>> # <<m, s>> => RatingsIn(ratings', n, t) = RatingsIn(ratings, n, t)
  BY <1>1, <1>2 DEF RatingsIn
<1>5. RequestFacts'
  <2>1. ASSUME NEW p \in Requests \ {q}, req[p].at = "ratings"
        PROVE  /\ req[p].by \in members'
               /\ RatingsIn(ratings', req[p].by, req[p].subject)
                     = RatingsIn(ratings, req[p].by, req[p].subject)
    <3>1. <<req[p].by, req[p].subject>> # <<m, s>>
      BY <1>1, <2>1 DEF KInv, RequestFacts, OneWriter
    <3> QED
      BY <1>1, <1>4, <2>1, <3>1 DEF KInv, RequestFacts, Holding
  <2> QED
    BY <1>1, <2>1, NothingAsked, OthersHold DEF RatingsIn
<1>6. Shaped'
  BY <1>1, <1>2 DEF Shaped, KInv, RowFacts
<1>7. OneReviewEach'
  BY <1>1 DEF OneReviewEach, KInv, RowFacts, ReviewTarget
<1>8. ReviewIsOneEdit'
  <2> SUFFICES ASSUME NEW r \in reviews'
               PROVE  LET own == RatingsIn(ratings', r.owner, r.subject)
                      IN own # {} /\ \A x \in own : x[4] = r.edit
    BY DEF ReviewIsOneEdit, RatingsIn
  <2>1. CASE r = row
    <3>1. r.owner = m /\ r.subject = s /\ r.edit = req[q].edit
      BY <2>1
    <3>2. RatingsIn(ratings', r.owner, r.subject) = {<<m, s, d, r.edit>> : d \in req[q].dimensions}
      BY <1>3, <3>1
    <3>3. PICK d \in req[q].dimensions : TRUE
      BY <1>2
    <3>4. <<m, s, d, r.edit>> \in RatingsIn(ratings', r.owner, r.subject)
      BY <3>2
    <3>5. ASSUME NEW x \in RatingsIn(ratings', r.owner, r.subject) PROVE x[4] = r.edit
      BY <3>2
    <3> QED
      BY <3>4, <3>5
  <2>2. CASE r # row
    <3>1. r \in reviews /\ <<r.owner, r.subject>> # <<m, s>>
      BY <1>1, <2>2 DEF ReviewTarget
    <3>2. RatingsIn(ratings', r.owner, r.subject) = RatingsIn(ratings, r.owner, r.subject)
      BY <1>4, <3>1
    <3> QED
      BY <3>1, <3>2 DEF KInv, RowFacts, ReviewIsOneEdit, RatingsIn
  <2> QED
    BY <2>1, <2>2
<1>9. NothingOfTheDeleted'
  <2>1. \A c \in (configs \cup reviews \cup submissions)' : c.owner \in members'
    BY <1>1, <1>2 DEF KInv, RowFacts, NothingOfTheDeleted
  <2>2. \A r \in ratings' : r[1] \in members'
    BY <1>1, <1>2 DEF KInv, RowFacts, NothingOfTheDeleted
  <2>3. ASSUME NEW v \in votes
        PROVE  v.voter \in members /\ v.target \in {t.target : t \in Targets}'
    <3>1. v.voter \in members /\ v.target \in {t.target : t \in Targets}
      BY DEF KInv, RowFacts, NothingOfTheDeleted
    <3>2. \/ \E r \in reviews : v.target = ReviewTarget(r)
          \/ \E x \in submissions : v.target = SubmissionTarget(x)
      BY <3>1 DEF Targets
    <3>3. \/ \E r \in reviews' : v.target = ReviewTarget(r)
          \/ \E x \in submissions' : v.target = SubmissionTarget(x)
      <4>1. ASSUME NEW r \in reviews PROVE \E n \in reviews' : ReviewTarget(n) = ReviewTarget(r)
        <5>1. CASE ReviewTarget(r) = <<m, s>>
          <6>1. row \in reviews' /\ ReviewTarget(row) = <<m, s>>
            BY <1>1 DEF ReviewTarget
          <6> QED
            BY <5>1, <6>1
        <5>2. CASE ReviewTarget(r) # <<m, s>>
          BY <1>1, <5>2
        <5> QED
          BY <5>1, <5>2
      <4> QED
        BY <1>1, <3>2, <4>1
    <3>4. \/ \E r \in reviews' : v.target = [target |-> ReviewTarget(r), row |-> r].target
          \/ \E x \in submissions' : v.target = [target |-> SubmissionTarget(x), row |-> x].target
      BY <3>3
    <3>5. \E t \in Targets' : v.target = t.target
      BY <3>4 DEF Targets, ReviewTarget, SubmissionTarget
    <3> QED
      BY <3>1, <3>5
  <2> QED
    BY <1>1, <2>1, <2>2, <2>3 DEF KInv, RowFacts, NothingOfTheDeleted
<1> QED
  BY <1>5, <1>6, <1>7, <1>8, <1>9 DEF RowFacts
\* A request that writes neither members, nor ratings, nor any review, and ends or goes on.
LEMMA OtherRows ==
    ASSUME KInv, NEW q \in Requests, CreateConfig(q) \/ InsertSubmission(q) \/ CastVote(q) \/ SetSubmissionVerification(q)
    PROVE  RowFacts' /\ RequestFacts'
<1>1. UNCHANGED <<members, ratings, reviews>>
  BY DEF CreateConfig, InsertSubmission, CastVote, SetSubmissionVerification
<1>2. RequestFacts'
  <2>1. CASE CreateConfig(q)
    <3>1. req' = req
      BY <2>1 DEF CreateConfig
    <3> QED
      BY <1>1, <3>1 DEF KInv, RequestFacts, Holding, OneWriter, Asked, RatingsIn
  <2>2. CASE Do(q, NoRequest)
    <3>1. \A p \in Requests \ {q} : req[p].at = "ratings" =>
              /\ req[p].by \in members'
              /\ RatingsIn(ratings', req[p].by, req[p].subject) = RatingsIn(ratings, req[p].by, req[p].subject)
      BY <1>1 DEF KInv, RequestFacts, Holding
    <3> QED
      BY <2>2, <3>1, NothingAsked, OthersHold
  <2> QED
    BY <2>1, <2>2 DEF InsertSubmission, CastVote, SetSubmissionVerification
<1>3. OneReviewEach' /\ ReviewIsOneEdit'
  BY <1>1 DEF KInv, RowFacts, OneReviewEach, ReviewIsOneEdit, ReviewTarget
<1>4. NothingOfTheDeleted /\ Shaped
  BY DEF KInv, RowFacts
<1>5. CASE CreateConfig(q)
  <2>1. PICK m \in members, v \in OfferedConfigs :
          configs' = configs \cup {[owner |-> m, name |-> "named", visibility |-> v, status |-> "published"]}
    BY <1>5 DEF CreateConfig
  <2>2. UNCHANGED <<submissions, environments, votes>>
    BY <1>5 DEF CreateConfig
  <2>3. \A c \in configs' : c.owner \in members
    BY <1>4, <2>1 DEF NothingOfTheDeleted
  <2>4. Targets' = Targets
    BY <1>1, <2>2 DEF Targets, ReviewTarget, SubmissionTarget
  <2> QED
    BY <1>1, <1>2, <1>3, <1>4, <2>2, <2>3, <2>4 DEF RowFacts, Shaped, NothingOfTheDeleted
<1>6. CASE InsertSubmission(q)
  <2> DEFINE row == [id |-> req[q].id, owner |-> req[q].by, visibility |-> req[q].visibility,
                     status |-> "published", verification |-> "unverified"]
             env == [id |-> req[q].id, hardware |-> req[q].hardware]
  <2>1. /\ submissions' = submissions \cup {row} /\ environments' = environments \cup {env}
        /\ req[q].by \in members /\ UNCHANGED <<configs, votes>>
    BY <1>6 DEF InsertSubmission
  <2>2. Shaped'
    BY <1>1, <1>4, <2>1 DEF Shaped
  <2>3. \A x \in submissions' : x.owner \in members /\ x.id \in {e.id : e \in environments'}
    <3>1. row.owner \in members /\ row.id = env.id /\ env \in environments'
      BY <2>1
    <3> QED
      BY <1>4, <2>1, <3>1 DEF NothingOfTheDeleted
  <2>4. Targets \subseteq Targets'
    BY <1>1, <2>1 DEF Targets, ReviewTarget, SubmissionTarget
  <2> HIDE DEF row, env
  <2> QED
    BY <1>1, <1>2, <1>3, <1>4, <2>1, <2>2, <2>3, <2>4 DEF RowFacts, NothingOfTheDeleted
<1>7. CASE CastVote(q)
  <2>1. UNCHANGED <<configs, submissions, environments>>
    BY <1>7 DEF CastVote
  <2>2. Targets' = Targets
    BY <1>1, <2>1 DEF Targets, ReviewTarget, SubmissionTarget
  <2>3. \A v \in votes' : v.voter \in members /\ v.target \in {t.target : t \in Targets}
    BY <1>4, <1>7 DEF CastVote, VoteAllowed, NothingOfTheDeleted
  <2> QED
    BY <1>1, <1>2, <1>3, <1>4, <2>1, <2>2, <2>3 DEF RowFacts, Shaped, NothingOfTheDeleted
<1>8. CASE SetSubmissionVerification(q)
  <2>1. PICK x \in submissions, v \in Verdicts :
          submissions' = (submissions \ {x}) \cup {[x EXCEPT !.verification = v]}
    BY <1>8 DEF SetSubmissionVerification
  <2>2. UNCHANGED <<configs, environments, votes>>
    BY <1>8 DEF SetSubmissionVerification
  <2> DEFINE n == [x EXCEPT !.verification = v]
  <2>3. {"id", "owner"} \subseteq DOMAIN x
    BY <1>4 DEF Shaped, KInv, IInv, IsGoverned
  <2>4. n.id = x.id /\ n.owner = x.owner /\ "id" \in DOMAIN n
    BY <2>3
  <2> HIDE DEF n
  <2>5. submissions' = (submissions \ {x}) \cup {n}
    BY <2>1 DEF n
  <2>6. Shaped'
    BY <1>1, <1>4, <2>4, <2>5 DEF Shaped
  <2>7. \A y \in submissions' : y.owner \in members /\ y.id \in {e.id : e \in environments}
    BY <1>4, <2>4, <2>5 DEF NothingOfTheDeleted
  <2>8. {t.target : t \in Targets} \subseteq {t.target : t \in Targets}'
    <3> SUFFICES ASSUME NEW t \in Targets PROVE \E u \in Targets' : u.target = t.target
      OBVIOUS
    <3>1. CASE \E r \in reviews : t = [target |-> ReviewTarget(r), row |-> r]
      BY <1>1, <3>1 DEF Targets, ReviewTarget, SubmissionTarget
    <3>2. CASE \E y \in submissions : t = [target |-> SubmissionTarget(y), row |-> y]
      <4>1. PICK y \in submissions : t = [target |-> SubmissionTarget(y), row |-> y]
        BY <3>2
      <4>2. PICK z \in submissions' : z.id = y.id
        BY <2>4, <2>5
      <4>3. [target |-> SubmissionTarget(z), row |-> z] \in Targets'
        BY DEF Targets, ReviewTarget, SubmissionTarget
      <4> QED
        BY <4>1, <4>2, <4>3 DEF SubmissionTarget
    <3> QED
      BY <3>1, <3>2 DEF Targets
  <2> QED
    BY <1>1, <1>2, <1>3, <1>4, <2>2, <2>6, <2>7, <2>8 DEF RowFacts, NothingOfTheDeleted
<1> QED
  BY <1>5, <1>6, <1>7, <1>8

LEMMA ModerateReviewKeeps ==
    ASSUME KInv, NEW q \in Requests, ModerateReview(q)
    PROVE  RowFacts' /\ RequestFacts'
<1>1. PICK r \in reviews, s \in Rulings : reviews' = (reviews \ {r}) \cup {[r EXCEPT !.status = s]}
  BY DEF ModerateReview
<1> DEFINE n == [r EXCEPT !.status = s]
<1>2. {"subject", "edit", "owner"} \subseteq DOMAIN r /\ r.subject \in Subjects
  BY DEF KInv, RowFacts, Shaped, IInv, IsGoverned
<1>3. n.owner = r.owner /\ n.subject = r.subject /\ n.edit = r.edit /\ DOMAIN n = DOMAIN r
  BY <1>2
<1> HIDE DEF n
<1>4. reviews' = (reviews \ {r}) \cup {n}
  BY <1>1 DEF n
<1>5. /\ Do(q, NoRequest)
      /\ UNCHANGED <<members, configs, ratings, submissions, environments, votes>>
  BY DEF ModerateReview
<1>6. RequestFacts'
  <2>1. \A p \in Requests \ {q} : req[p].at = "ratings" =>
            /\ req[p].by \in members'
            /\ RatingsIn(ratings', req[p].by, req[p].subject) = RatingsIn(ratings, req[p].by, req[p].subject)
    BY <1>5 DEF KInv, RequestFacts, Holding
  <2> QED
    BY <1>5, <2>1, NothingAsked, OthersHold
<1>7. RowFacts
  BY DEF KInv
<1>8. Shaped' /\ OneReviewEach'
  BY <1>2, <1>3, <1>4, <1>5, <1>7 DEF RowFacts, Shaped, OneReviewEach, ReviewTarget
<1>9. ReviewIsOneEdit'
  BY <1>3, <1>4, <1>5, <1>7 DEF RowFacts, ReviewIsOneEdit
<1>10. {t.target : t \in Targets} \subseteq {t.target : t \in Targets}'
  <2> SUFFICES ASSUME NEW t \in Targets PROVE \E u \in Targets' : u.target = t.target
    OBVIOUS
  <2>1. CASE \E y \in submissions : t = [target |-> SubmissionTarget(y), row |-> y]
    BY <1>5, <2>1 DEF Targets, ReviewTarget, SubmissionTarget
  <2>2. CASE \E o \in reviews : t = [target |-> ReviewTarget(o), row |-> o]
    <3>1. PICK o \in reviews : t = [target |-> ReviewTarget(o), row |-> o]
      BY <2>2
    <3>2. PICK z \in reviews' : ReviewTarget(z) = ReviewTarget(o)
      BY <1>3, <1>4 DEF ReviewTarget
    <3>3. [target |-> ReviewTarget(z), row |-> z] \in Targets'
      BY DEF Targets, ReviewTarget, SubmissionTarget
    <3> QED
      BY <3>1, <3>2, <3>3
  <2> QED
    BY <2>1, <2>2 DEF Targets
<1>11. NothingOfTheDeleted'
  <2>1. \A c \in (configs \cup reviews \cup submissions)' : c.owner \in members
    BY <1>3, <1>4, <1>5, <1>7 DEF RowFacts, NothingOfTheDeleted
  <2> QED
    BY <1>5, <1>7, <1>10, <2>1 DEF RowFacts, NothingOfTheDeleted
<1> QED
  BY <1>6, <1>8, <1>9, <1>11 DEF RowFacts

LEMMA FinishDeletionKeeps ==
    ASSUME KInv, NEW q \in Requests, FinishDeletion(q)
    PROVE  RowFacts' /\ RequestFacts'
<1> DEFINE m == req[q].by
           left == {s \in submissions : s.owner # m}
           deleted == {e \in environments : e.id \in req[q].seen \/ e.hardware = m}
           gone == {t.target : t \in {x \in Targets : x.row.owner = m}}
<1>1. /\ \A s \in Subjects : ~Locked(m, s)
      /\ \A s \in left : s.id \notin {e.id : e \in deleted}
      /\ members' = members \ {m}
      /\ configs' = {c \in configs : c.owner # m} /\ reviews' = {r \in reviews : r.owner # m}
      /\ ratings' = {r \in ratings : r[1] # m} /\ submissions' = left
      /\ environments' = environments \ deleted
      /\ votes' = {v \in votes : v.voter # m /\ v.target \notin gone}
      /\ Do(q, NoRequest)
  BY DEF FinishDeletion, VotesLeft
<1>2. RowFacts /\ RequestFacts
  BY DEF KInv
<1>3. RequestFacts'
  <2>1. ASSUME NEW p \in Requests \ {q}, req[p].at = "ratings"
        PROVE  /\ req[p].by \in members'
               /\ RatingsIn(ratings', req[p].by, req[p].subject) = RatingsIn(ratings, req[p].by, req[p].subject)
    <3>1. req[p].subject \in Subjects /\ req[p].by \in members
      BY <1>2, <2>1 DEF RequestFacts, Asked, Holding
    <3>2. req[p].by # m
      BY <1>1, <2>1, <3>1 DEF Locked
    <3> QED
      BY <1>1, <3>1, <3>2 DEF RatingsIn
  <2> QED
    BY <1>1, <2>1, NothingAsked, OthersHold
<1>4. Shaped' /\ OneReviewEach'
  BY <1>1, <1>2 DEF RowFacts, Shaped, OneReviewEach, ReviewTarget
<1>5. ReviewIsOneEdit'
  <2> SUFFICES ASSUME NEW r \in reviews'
               PROVE  LET own == RatingsIn(ratings', r.owner, r.subject)
                      IN own # {} /\ \A x \in own : x[4] = r.edit
    BY DEF ReviewIsOneEdit, RatingsIn
  <2>1. r \in reviews /\ r.owner # m
    BY <1>1
  <2>2. RatingsIn(ratings', r.owner, r.subject) = RatingsIn(ratings, r.owner, r.subject)
    BY <1>1, <2>1 DEF RatingsIn
  <2> QED
    BY <1>2, <2>1, <2>2 DEF RowFacts, ReviewIsOneEdit, RatingsIn
<1>6. NothingOfTheDeleted'
  <2>1. /\ \A c \in (configs \cup reviews \cup submissions)' : c.owner \in members'
        /\ \A r \in ratings' : r[1] \in members'
    BY <1>1, <1>2 DEF RowFacts, NothingOfTheDeleted
  <2>2. ASSUME NEW v \in votes' PROVE v.voter \in members' /\ v.target \in {t.target : t \in Targets}'
    <3>1. v \in votes /\ v.voter # m /\ v.target \notin gone
      BY <1>1
    <3>2. v.voter \in members /\ \E t \in Targets : v.target = t.target
      BY <1>2, <3>1 DEF RowFacts, NothingOfTheDeleted
    <3>3. PICK t \in Targets : v.target = t.target
      BY <3>2
    <3>4. t.row.owner # m
      BY <3>1, <3>3
    <3>5. t \in Targets'
      BY <1>1, <3>4 DEF Targets, ReviewTarget, SubmissionTarget
    <3> QED
      BY <1>1, <3>1, <3>2, <3>3, <3>5
  <2>3. \A s \in submissions' : s.id \in {e.id : e \in environments'}
    BY <1>1, <1>2 DEF RowFacts, NothingOfTheDeleted
  <2> QED
    BY <2>1, <2>2, <2>3 DEF NothingOfTheDeleted
<1> QED
  BY <1>3, <1>4, <1>5, <1>6 DEF RowFacts

LEMMA NextIsKept == KInv /\ [Next]_vars => KInv'
<1> SUFFICES ASSUME KInv, [Next]_vars PROVE KInv'
  OBVIOUS
<1>1. IInv'
  BY NextIsGoverned DEF KInv
<1>2. CASE UNCHANGED vars
  <2>1. UNCHANGED data /\ req' = req
    BY <1>2 DEF vars
  <2>2. RequestFacts'
    BY <2>1 DEF KInv, RequestFacts, Asked, Holding, OneWriter, RatingsIn, data
  <2> QED
    BY <1>1, <2>1, <2>2, RowsUnchanged DEF KInv
<1>3. CASE Next
  <2>1. PICK q \in Requests : Step(q)
    BY <1>3 DEF Next
  <2>2. RowFacts' /\ RequestFacts'
    BY <2>1, OtherRequests, WriteReviewKeeps, CommitReviewKeeps, OtherRows, ModerateReviewKeeps, FinishDeletionKeeps DEF Step
  <2> QED
    BY <1>1, <2>2 DEF KInv
<1> QED
  BY <1>2, <1>3

LEMMA Kept == Spec => []KInv
BY InitIsKept, NextIsKept, PTL DEF Spec

\* upsertReview, "Creates or replaces the viewer's review": however many requests of a
\* member write one review at once, its ratings are those of one edit.
THEOREM ReviewIsOneEditHolds == Spec => []ReviewIsOneEdit
<1>1. KInv => ReviewIsOneEdit
  BY DEF KInv, RowFacts
<1> QED
  BY Kept, <1>1, PTL

\* deleteAccount, "Deletes an account and all user-authored content": no row of a member
\* who is gone is left, whatever requests of the member and votes of others were open.
THEOREM NothingOfTheDeletedHolds == Spec => []NothingOfTheDeleted
<1>1. KInv => NothingOfTheDeleted
  BY DEF KInv, RowFacts
<1> QED
  BY Kept, <1>1, PTL
\* moderateReview: what is not published comes back only by a moderator, however often its
\* author writes it again and whatever the member's other requests do.
THEOREM ModerationSticksHolds == Spec => ModerationSticks
<1> DEFINE Sticks ==
        \A r \in reviews, n \in reviews' :
            (ReviewTarget(r) = ReviewTarget(n) /\ r.status # "published" /\ n.status = "published")
               => \E q \in Requests : ModerateReview(q)
<1>1. KInv /\ [Next]_vars => [Sticks]_vars
  <2> SUFFICES ASSUME KInv, NEW q \in Requests, Step(q), ~ModerateReview(q),
                      NEW r \in reviews, NEW n \in reviews', ReviewTarget(r) = ReviewTarget(n)
               PROVE  n.status = "published" => r.status = "published"
    BY DEF Next
  <2>1. OneReviewEach
    BY DEF KInv, RowFacts
  <2>2. CASE n \in reviews
    BY <2>1, <2>2 DEF OneReviewEach
  <2>3. CASE n \notin reviews
    <3>1. CommitReview(q)
      BY <2>3 DEF Step, CreateConfig, BeginReview, WriteReview, BeginSubmission, InsertSubmission, BeginVote, DeleteVote,
                  CastVote, BeginModeration, SetSubmissionVerification, BeginDeletion, FinishDeletion, Abort, data
    <3> DEFINE m == req[q].by
               s == req[q].subject
    <3>2. n = [owner |-> m, subject |-> s, edit |-> req[q].edit,
               visibility |-> req[q].visibility, status |-> KeptStatus(m, s)]
      BY <2>3, <3>1 DEF CommitReview, OtherReviews
    <3>3. ReviewTarget(r) = <<m, s>> /\ n.status = KeptStatus(m, s)
      BY <3>2 DEF ReviewTarget
    <3>4. (CHOOSE o \in reviews : ReviewTarget(o) = <<m, s>>) = r
      BY <2>1, <3>3 DEF OneReviewEach
    <3> QED
      BY <3>3, <3>4 DEF KeptStatus
  <2> QED
    BY <2>2, <2>3
<1>2. Spec => [][Sticks]_vars
  BY Kept, <1>1, PTL DEF Spec
<1> QED
  BY <1>2 DEF ModerationSticks

-----------------------------------------------------------------------------
(* What is served does not depend on what is refused.                      *)

\* The policy speaks of configurations, too.
ConfigsGoverned == \A c \in configs : IsGoverned(c)

LEMMA ConfigsStayGoverned == IInv /\ ConfigsGoverned /\ [Next]_vars => ConfigsGoverned'
<1> SUFFICES ASSUME IInv, ConfigsGoverned, [Next]_vars PROVE ConfigsGoverned'
  OBVIOUS
<1>1. CASE configs' \subseteq configs
  BY <1>1 DEF ConfigsGoverned
<1>2. ASSUME NEW q \in Requests, CreateConfig(q) PROVE ConfigsGoverned'
  <2>1. PICK m \in members, v \in OfferedConfigs :
          configs' = configs \cup {[owner |-> m, name |-> "named", visibility |-> v, status |-> "published"]}
    BY <1>2 DEF CreateConfig
  <2>2. IsGoverned([owner |-> m, name |-> "named", visibility |-> v, status |-> "published"])
    BY CommunityAssumption DEF IsGoverned, IInv, Statuses
  <2> QED
    BY <2>1, <2>2 DEF ConfigsGoverned
<1> QED
  BY <1>1, <1>2 DEF Next, Step, vars, data, BeginReview, WriteReview, CommitReview, BeginSubmission,
     InsertSubmission, BeginVote, DeleteVote, CastVote, BeginModeration, ModerateReview,
     SetSubmissionVerification, BeginDeletion, FinishDeletion, Abort

\* The targets of votes among the rows of db.
TargetsIn(db) == {ReviewTarget(r) : r \in db.reviews} \cup {SubmissionTarget(s) : s \in db.submissions}

\* R is D without what the policy refuses the viewer.
Withheld(D, R, viewer, mode) ==
    /\ \A r \in D.reviews \cup D.submissions \cup D.configs : IsGoverned(r)
    /\ R.members = D.members
    /\ R.reviews = {r \in D.reviews : CanView(viewer, r, mode)}
    /\ R.submissions = {s \in D.submissions : CanView(viewer, s, mode)}
    /\ R.ratings = RatingsOf(D, R.reviews)
    /\ R.environments = {e \in D.environments : <<e.id>> \in TargetsIn(R)}
    /\ R.votes = {v \in D.votes : v.target \in TargetsIn(R)}
    /\ R.configs = {c \in D.configs : CanView(viewer, c, "direct")}
                      \cup {[c EXCEPT !.name = "redacted"] :
                              c \in {x \in D.configs : ~CanView(viewer, x, "direct")}}

LEMMA RedactedIsWithheld ==
    ASSUME IInv, ConfigsGoverned, NEW viewer, NEW mode
    PROVE  Withheld(Database, Redacted(Database, viewer, mode), viewer, mode)
<1> DEFINE kept(rows) == {r \in rows : CanView(viewer, r, mode)}
           targets == {ReviewTarget(r) : r \in kept(reviews)}
                         \cup {SubmissionTarget(s) : s \in kept(submissions)}
           D == Database
           R == Redacted(Database, viewer, mode)
<1>1. /\ D.members = members /\ D.configs = configs /\ D.reviews = reviews /\ D.ratings = ratings
      /\ D.submissions = submissions /\ D.environments = environments /\ D.votes = votes
      /\ DOMAIN D = {"members", "configs", "reviews", "ratings", "submissions", "environments", "votes"}
  BY DEF Database
<1>2. R = [D EXCEPT !.reviews = kept(@), !.submissions = kept(@),
                    !.ratings = RatingsOf(D, kept(reviews)),
                    !.environments = {e \in @ : <<e.id>> \in targets},
                    !.votes = {v \in @ : v.target \in targets},
                    !.configs = {c \in @ : CanView(viewer, c, "direct")}
                                  \cup {[c EXCEPT !.name = "redacted"] :
                                          c \in {x \in @ : ~CanView(viewer, x, "direct")}}]
  BY <1>1 DEF Redacted
<1> HIDE DEF D, R
<1>3. /\ R.members = members
      /\ R.reviews = kept(reviews) /\ R.submissions = kept(submissions)
      /\ R.ratings = RatingsOf(D, kept(reviews))
      /\ R.environments = {e \in environments : <<e.id>> \in targets}
      /\ R.votes = {v \in votes : v.target \in targets}
      /\ R.configs = {c \in configs : CanView(viewer, c, "direct")}
                        \cup {[c EXCEPT !.name = "redacted"] :
                                c \in {x \in configs : ~CanView(viewer, x, "direct")}}
  BY <1>1, <1>2
<1>4. targets = TargetsIn(R)
  BY <1>3 DEF TargetsIn
<1>5. \A r \in reviews \cup submissions \cup configs : IsGoverned(r)
  BY DEF IInv, ConfigsGoverned
<1> HIDE DEF targets
<1> QED
  BY <1>1, <1>3, <1>4, <1>5 DEF Withheld, D, R

\* A query that filters by policy finds the same rows in both.
LEMMA SameRows ==
    ASSUME NEW viewer \in Viewers, NEW mode \in Modes, NEW D, NEW R, Withheld(D, R, viewer, mode),
           NEW rows, rows \subseteq D.reviews \cup D.submissions,
           NEW left, left = {r \in rows : CanView(viewer, r, mode)}
    PROVE  {r \in left : VisibleTo(viewer, r, mode)} = {r \in rows : VisibleTo(viewer, r, mode)}
<1>1. \A r \in rows : VisibleTo(viewer, r, mode) <=> CanView(viewer, r, mode)
  BY MirrorsPolicy DEF Withheld
<1> QED
  BY <1>1

\* Public averages and counts are made of rows that every listing shows.
LEMMA SameEligible ==
    ASSUME NEW viewer \in Viewers, NEW D, NEW R, Withheld(D, R, viewer, "listing"),
           NEW rows, rows \subseteq D.reviews \cup D.submissions,
           NEW left, left = {r \in rows : CanView(viewer, r, "listing")}
    PROVE  Eligible(left) = Eligible(rows)
<1>1. \A r \in rows : PublicAggregateEligible(r) => CanView(viewer, r, "listing")
  BY DEF PublicAggregateEligible, CanView
<1> QED
  BY <1>1 DEF Eligible

LEMMA SameRatings ==
    ASSUME NEW viewer, NEW mode, NEW D, NEW R, Withheld(D, R, viewer, mode), NEW rows, rows \subseteq R.reviews
    PROVE  RatingsOf(R, rows) = RatingsOf(D, rows)
BY DEF Withheld, RatingsOf

LEMMA SameScore ==
    ASSUME NEW viewer, NEW mode, NEW D, NEW R, Withheld(D, R, viewer, mode), NEW target \in TargetsIn(R)
    PROVE  HelpfulScore(R, target) = HelpfulScore(D, target)
<1>1. \A n : {v \in R.votes : v.target = target /\ v.value = n} = {v \in D.votes : v.target = target /\ v.value = n}
  BY DEF Withheld
<1> QED
  BY <1>1 DEF HelpfulScore

LEMMA SameReviews ==
    ASSUME NEW viewer \in Viewers, NEW mode \in Modes, NEW D, NEW R, Withheld(D, R, viewer, mode),
           NEW rows, rows \subseteq D.reviews,
           NEW left, left = {r \in rows : CanView(viewer, r, mode)}
    PROVE  ReviewQuery(R, viewer, mode, left) = ReviewQuery(D, viewer, mode, rows)
<1> DEFINE shown == {r \in rows : VisibleTo(viewer, r, mode)}
<1>1. {r \in left : VisibleTo(viewer, r, mode)} = shown
  BY SameRows
<1>2. shown \subseteq R.reviews
  BY <1>1 DEF Withheld
<1>3. ASSUME NEW r \in shown PROVE ReviewDTO(R, viewer, r) = ReviewDTO(D, viewer, r)
  <2>1. RatingsOf(R, {r}) = RatingsOf(D, {r})
    BY <1>2, SameRatings
  <2>2. ReviewTarget(r) \in TargetsIn(R)
    BY <1>2 DEF TargetsIn
  <2>3. HelpfulScore(R, ReviewTarget(r)) = HelpfulScore(D, ReviewTarget(r))
    BY <2>2, SameScore
  <2> QED
    BY <2>1, <2>3 DEF ReviewDTO
<1>4. ReviewQuery(R, viewer, mode, left) = {ReviewDTO(R, viewer, r) : r \in shown}
  BY <1>1 DEF ReviewQuery
<1>5. ReviewQuery(D, viewer, mode, rows) = {ReviewDTO(D, viewer, r) : r \in shown}
  BY DEF ReviewQuery
<1> HIDE DEF shown
<1> QED
  BY <1>3, <1>4, <1>5

\* A configuration whose name is withheld keeps its owner and who may see it.
LEMMA SameHardware ==
    ASSUME NEW viewer \in Viewers, NEW mode, NEW D, NEW R, Withheld(D, R, viewer, mode), NEW e
    PROVE  Hardware(R, viewer, e) = Hardware(D, viewer, e)
<1> DEFINE seen == {c \in D.configs : CanView(viewer, c, "direct")}
           hidden == {c \in D.configs : ~CanView(viewer, c, "direct")}
           blank(c) == [c EXCEPT !.name = "redacted"]
<1>1. R.configs = seen \cup {blank(c) : c \in hidden}
  BY DEF Withheld
<1>2. \A c \in D.configs : IsGoverned(c)
  BY DEF Withheld
<1>3. \A c \in hidden : blank(c).owner = c.owner /\ blank(c).visibility = c.visibility /\ blank(c).status = c.status
  BY <1>2 DEF IsGoverned
<1>4. \A c \in D.configs : VisibleTo(viewer, c, "direct") <=> CanView(viewer, c, "direct")
  BY <1>2, MirrorsPolicy DEF Modes
<1>5. \A c \in hidden : ~VisibleTo(viewer, blank(c), "direct")
  <2> SUFFICES ASSUME NEW c \in hidden PROVE ~VisibleTo(viewer, blank(c), "direct")
    OBVIOUS
  <2>1. ~VisibleTo(viewer, c, "direct")
    BY <1>4
  <2>2. blank(c).owner = c.owner /\ blank(c).visibility = c.visibility /\ blank(c).status = c.status
    BY <1>3
  <2> HIDE DEF blank
  <2> QED
    BY <2>1, <2>2 DEF VisibleTo
<1>6. \A owner :
        {c \in R.configs : c.owner = owner /\ VisibleTo(viewer, c, "direct")}
           = {c \in D.configs : c.owner = owner /\ VisibleTo(viewer, c, "direct")}
  <2>1. \A c \in R.configs : VisibleTo(viewer, c, "direct") => c \in seen
    BY <1>1, <1>5
  <2>2. \A c \in D.configs : VisibleTo(viewer, c, "direct") => c \in seen
    BY <1>4
  <2> HIDE DEF hidden
  <2> QED
    BY <1>1, <2>1, <2>2
<1>7. \A owner : {c.owner : c \in {x \in R.configs : x.owner = owner}}
                    = {c.owner : c \in {x \in D.configs : x.owner = owner}}
  <2> SUFFICES ASSUME NEW owner
               PROVE  (\E x \in R.configs : x.owner = owner) <=> (\E x \in D.configs : x.owner = owner)
    OBVIOUS
  <2>1. ASSUME NEW c \in D.configs PROVE \E x \in R.configs : x.owner = c.owner
    <3>1. c \in seen => c \in R.configs
      BY <1>1
    <3>2. c \in hidden => blank(c) \in R.configs /\ blank(c).owner = c.owner
      BY <1>1, <1>3
    <3> QED
      BY <3>1, <3>2
  <2>2. ASSUME NEW c \in R.configs PROVE \E x \in D.configs : x.owner = c.owner
    <3>1. c \in seen \/ \E x \in hidden : c = blank(x)
      BY <1>1
    <3> QED
      BY <3>1, <1>3
  <2> QED
    BY <2>1, <2>2
<1> QED
  BY <1>6, <1>7 DEF Hardware, ConfigName

LEMMA SameSubmissions ==
    ASSUME NEW viewer \in Viewers, NEW mode \in Modes, NEW D, NEW R, Withheld(D, R, viewer, mode),
           NEW rows, rows \subseteq D.submissions,
           NEW left, left = {s \in rows : CanView(viewer, s, mode)}
    PROVE  SubmissionQuery(R, viewer, mode, left) = SubmissionQuery(D, viewer, mode, rows)
<1> DEFINE shown == {s \in rows : VisibleTo(viewer, s, mode)}
           joined == {x \in rows \X D.environments : x[1].id = x[2].id /\ VisibleTo(viewer, x[1], mode)}
<1>1. {s \in left : VisibleTo(viewer, s, mode)} = shown
  BY SameRows
<1>2. shown \subseteq R.submissions
  BY <1>1 DEF Withheld
<1>3. {x \in left \X R.environments : x[1].id = x[2].id /\ VisibleTo(viewer, x[1], mode)} = joined
  <2>1. \A s \in shown, e \in D.environments : s.id = e.id => e \in R.environments
    BY <1>2 DEF Withheld, TargetsIn, SubmissionTarget
  <2>2. R.environments \subseteq D.environments
    BY DEF Withheld
  <2>3. \A s : s \in shown <=> s \in left /\ VisibleTo(viewer, s, mode)
    BY <1>1
  <2>4. \A s : s \in shown <=> s \in rows /\ VisibleTo(viewer, s, mode)
    OBVIOUS
  <2> HIDE DEF shown
  <2> QED
    BY <2>1, <2>2, <2>3, <2>4
<1>4. ASSUME NEW x \in joined PROVE SubmissionDTO(R, viewer, x[1], x[2]) = SubmissionDTO(D, viewer, x[1], x[2])
  <2>1. x[1] \in shown
    OBVIOUS
  <2>2. SubmissionTarget(x[1]) \in TargetsIn(R)
    BY <1>2, <2>1 DEF TargetsIn
  <2>3. HelpfulScore(R, SubmissionTarget(x[1])) = HelpfulScore(D, SubmissionTarget(x[1]))
    BY <2>2, SameScore
  <2>4. Hardware(R, viewer, x[2]) = Hardware(D, viewer, x[2])
    BY SameHardware
  <2> QED
    BY <2>3, <2>4 DEF SubmissionDTO
<1>5. SubmissionQuery(R, viewer, mode, left) = {SubmissionDTO(R, viewer, x[1], x[2]) : x \in joined}
  BY <1>3 DEF SubmissionQuery
<1>6. SubmissionQuery(D, viewer, mode, rows) = {SubmissionDTO(D, viewer, x[1], x[2]) : x \in joined}
  BY DEF SubmissionQuery
<1> HIDE DEF joined
<1> QED
  BY <1>4, <1>5, <1>6

LEMMA SameLinks ==
    ASSUME NEW viewer \in Viewers, NEW D, NEW R, Withheld(D, R, viewer, "direct")
    PROVE  Links(R, viewer) = Links(D, viewer)
<1>1. \A target : GetReview(R, viewer, target) = GetReview(D, viewer, target)
  <2> SUFFICES ASSUME NEW target PROVE GetReview(R, viewer, target) = GetReview(D, viewer, target)
    OBVIOUS
  <2> DEFINE rows == {r \in D.reviews : ReviewTarget(r) = target}
             left == {r \in R.reviews : ReviewTarget(r) = target}
  <2>1. left = {r \in rows : CanView(viewer, r, "direct")}
    BY DEF Withheld
  <2>2. rows \subseteq D.reviews
    OBVIOUS
  <2>3. GetReview(R, viewer, target) = ReviewQuery(R, viewer, "direct", left)
           /\ GetReview(D, viewer, target) = ReviewQuery(D, viewer, "direct", rows)
    BY DEF GetReview
  <2> HIDE DEF rows, left
  <2> QED
    BY <2>1, <2>2, <2>3, SameReviews DEF Modes
<1>2. \A id : GetSubmission(R, viewer, id) = GetSubmission(D, viewer, id)
  <2> SUFFICES ASSUME NEW id PROVE GetSubmission(R, viewer, id) = GetSubmission(D, viewer, id)
    OBVIOUS
  <2> DEFINE rows == {s \in D.submissions : s.id = id}
             left == {s \in R.submissions : s.id = id}
  <2>1. left = {s \in rows : CanView(viewer, s, "direct")}
    BY DEF Withheld
  <2>2. rows \subseteq D.submissions
    OBVIOUS
  <2>3. GetSubmission(R, viewer, id) = SubmissionQuery(R, viewer, "direct", left)
           /\ GetSubmission(D, viewer, id) = SubmissionQuery(D, viewer, "direct", rows)
    BY DEF GetSubmission
  <2> HIDE DEF rows, left
  <2> QED
    BY <2>1, <2>2, <2>3, SameSubmissions DEF Modes
<1>3. {<<t, GetReview(R, viewer, t)>> : t \in Members \X Subjects}
         = {<<t, GetReview(D, viewer, t)>> : t \in Members \X Subjects}
  BY <1>1
<1>4. {<<i, GetSubmission(R, viewer, i)>> : i \in 1 .. MaxRequests}
         = {<<i, GetSubmission(D, viewer, i)>> : i \in 1 .. MaxRequests}
  BY <1>2
<1> QED
  BY <1>3, <1>4 DEF Links

LEMMA SameListings ==
    ASSUME NEW viewer \in Viewers, NEW D, NEW R, Withheld(D, R, viewer, "listing")
    PROVE  Listings(R, viewer) = Listings(D, viewer)
<1> DEFINE kept(rows) == {r \in rows : CanView(viewer, r, "listing")}
<1>1. R.reviews = kept(D.reviews) /\ R.submissions = kept(D.submissions) /\ R.members = D.members
  BY DEF Withheld
<1>2. ListRecentReviews(R, viewer) = ListRecentReviews(D, viewer)
  BY <1>1, SameReviews DEF ListRecentReviews, Modes
<1>3. \A s : ListReviewsForEntity(R, viewer, s) = ListReviewsForEntity(D, viewer, s)
  <2> SUFFICES ASSUME NEW s PROVE ListReviewsForEntity(R, viewer, s) = ListReviewsForEntity(D, viewer, s)
    OBVIOUS
  <2> DEFINE rows == {r \in D.reviews : r.subject = s}
             left == {r \in R.reviews : r.subject = s}
  <2>1. left = {r \in rows : CanView(viewer, r, "listing")} /\ rows \subseteq D.reviews
    BY <1>1
  <2>2. ListReviewsForEntity(R, viewer, s) = ReviewQuery(R, viewer, "listing", left)
           /\ ListReviewsForEntity(D, viewer, s) = ReviewQuery(D, viewer, "listing", rows)
    BY DEF ListReviewsForEntity
  <2> HIDE DEF rows, left
  <2> QED
    BY <2>1, <2>2, SameReviews DEF Modes
<1>4. \A m : ListReviewsByAuthor(R, viewer, m) = ListReviewsByAuthor(D, viewer, m)
  <2> SUFFICES ASSUME NEW m PROVE ListReviewsByAuthor(R, viewer, m) = ListReviewsByAuthor(D, viewer, m)
    OBVIOUS
  <2> DEFINE rows == {r \in D.reviews : r.owner = m}
             left == {r \in R.reviews : r.owner = m}
  <2>1. left = {r \in rows : CanView(viewer, r, "listing")} /\ rows \subseteq D.reviews
    BY <1>1
  <2>2. ListReviewsByAuthor(R, viewer, m) = ReviewQuery(R, viewer, "listing", left)
           /\ ListReviewsByAuthor(D, viewer, m) = ReviewQuery(D, viewer, "listing", rows)
    BY DEF ListReviewsByAuthor
  <2> HIDE DEF rows, left
  <2> QED
    BY <2>1, <2>2, SameReviews DEF Modes
<1>5. ListSubmissions(R, viewer) = ListSubmissions(D, viewer)
  BY <1>1, SameSubmissions DEF ListSubmissions, Modes
<1>6. Eligible(R.reviews) = Eligible(D.reviews) /\ Eligible(R.submissions) = Eligible(D.submissions)
  BY <1>1, SameEligible
<1>7. \A s : RatingAggregates(R, s) = RatingAggregates(D, s)
  <2>1. Eligible(R.reviews) \subseteq R.reviews
    BY DEF Eligible
  <2>2. RatingsOf(R, Eligible(R.reviews)) = RatingsOf(D, Eligible(D.reviews))
    BY <1>6, <2>1, SameRatings
  <2>3. \A s, d : Scores(R, s, d) = Scores(D, s, d)
    BY <2>2 DEF Scores
  <2> QED
    BY <2>3 DEF RatingAggregates
<1>8. \A m : GetPublicProfile(R, m) = GetPublicProfile(D, m)
  BY <1>1, <1>6 DEF GetPublicProfile
<1>9. ListOwnHardwareConfigs(R, viewer) = ListOwnHardwareConfigs(D, viewer)
  <2>1. \A c \in D.configs : IsGoverned(c)
    BY DEF Withheld
  <2>2. \A c \in D.configs : IsOwner(viewer, c) => CanView(viewer, c, "direct")
    BY <2>1 DEF CanView, Modes, IsGoverned, Visibilities
  <2>3. \A c \in D.configs : [c EXCEPT !.name = "redacted"].owner = c.owner
    BY <2>1 DEF IsGoverned
  <2> QED
    BY <2>2, <2>3 DEF ListOwnHardwareConfigs, IsOwner, Withheld
<1>10. GetCommunityStats(R) = GetCommunityStats(D)
  BY <1>1, <1>6 DEF GetCommunityStats
<1>11. {<<s, ListReviewsForEntity(R, viewer, s), RatingAggregates(R, s)>> : s \in Subjects}
          = {<<s, ListReviewsForEntity(D, viewer, s), RatingAggregates(D, s)>> : s \in Subjects}
  BY <1>3, <1>7
<1>12. {<<m, GetPublicProfile(R, m), ListReviewsByAuthor(R, viewer, m)>> : m \in Members}
          = {<<m, GetPublicProfile(D, m), ListReviewsByAuthor(D, viewer, m)>> : m \in Members}
  BY <1>4, <1>8
<1> QED
  BY <1>2, <1>5, <1>9, <1>10, <1>11, <1>12 DEF Listings

\* docs/adr/0004, "A single policy function `canView(viewer, resource)` defines access": no
\* list, link, average, count or profile depends on the rows the policy refuses its viewer.
THEOREM StrangersLearnNothingHolds == Spec => []StrangersLearnNothing
<1>1. Init => ConfigsGoverned
  BY DEF Init, ConfigsGoverned
<1>2. IInv /\ ConfigsGoverned => StrangersLearnNothing
  <2> SUFFICES ASSUME IInv, ConfigsGoverned, NEW viewer \in members \cup {NoOne}, NEW mode \in Modes
               PROVE  Pages(Database, viewer, mode) = Pages(Redacted(Database, viewer, mode), viewer, mode)
    BY DEF StrangersLearnNothing
  <2>1. viewer \in Viewers
    BY DEF IInv, Viewers
  <2>2. Withheld(Database, Redacted(Database, viewer, mode), viewer, mode)
    BY RedactedIsWithheld
  <2>3. CASE mode = "listing"
    BY <2>1, <2>2, <2>3, SameListings DEF Pages
  <2>4. CASE mode = "direct"
    BY <2>1, <2>2, <2>4, SameLinks DEF Pages
  <2> QED
    BY <2>3, <2>4 DEF Modes
<1> QED
  BY InitIsGoverned, NextIsGoverned, ConfigsStayGoverned, <1>1, <1>2, PTL DEF Spec

-----------------------------------------------------------------------------
(* What a deletion takes is what the export of the account holds.          *)

\* Member m has written the submission of this number.
Wrote(m, id) == \E s \in submissions : s.id = id /\ s.owner = m

\* Ratings belong to reviews, the rigs of members to their own submissions, and what a
\* deletion has found stays its member's.
RatingsBelong == \A x \in ratings : \E r \in reviews : ReviewTarget(r) = <<x[1], x[2]>>
RigsAreOwn == \A e \in environments : e.hardware \in members => Wrote(e.hardware, e.id)
SeenIsOwn(r) == (r.at = "delete" /\ r.by \in members) => \A id \in r.seen : Wrote(r.by, id)
SubmitsOwn(r) == r.at = "submission" => r.hardware \in {Reference, r.by}
OwnRequests == \A q \in Requests : SeenIsOwn(req[q]) /\ SubmitsOwn(req[q])

DInv == KInv /\ RatingsBelong /\ RigsAreOwn /\ OwnRequests

LEMMA InitIsOwn == Init => DInv
<1> SUFFICES ASSUME Init PROVE DInv
  OBVIOUS
<1>1. ratings = {} /\ environments = {} /\ \A q \in Requests : req[q].at = "none"
  BY DEF Init, NoRequest
<1> QED
  BY <1>1, InitIsKept DEF DInv, RatingsBelong, RigsAreOwn, OwnRequests, SeenIsOwn, SubmitsOwn

\* No submission of a member who is there is lost.
LEMMA SubmissionsStay ==
    ASSUME KInv, NEW q \in Requests, Step(q)
    PROVE  members' \subseteq members /\ \A m \in members' : \A id : Wrote(m, id) => Wrote(m, id)'
<1>1. CASE UNCHANGED <<members, submissions>>
  BY <1>1 DEF Wrote
<1>2. CASE InsertSubmission(q)
  BY <1>2 DEF InsertSubmission, Wrote
<1>3. CASE SetSubmissionVerification(q)
  <2>1. PICK s \in submissions, v \in Verdicts :
          submissions' = (submissions \ {s}) \cup {[s EXCEPT !.verification = v]}
    BY <1>3 DEF SetSubmissionVerification
  <2>2. [s EXCEPT !.verification = v].id = s.id /\ [s EXCEPT !.verification = v].owner = s.owner
    BY DEF KInv, IInv, RowFacts, Shaped, IsGoverned
  <2>3. members' = members
    BY <1>3 DEF SetSubmissionVerification
  <2> QED
    BY <2>1, <2>2, <2>3 DEF Wrote
<1>4. CASE FinishDeletion(q)
  BY <1>4 DEF FinishDeletion, Wrote
<1> QED
  BY <1>1, <1>2, <1>3, <1>4 DEF Step, data, CreateConfig, BeginReview, WriteReview, CommitReview, BeginSubmission,
     BeginVote, DeleteVote, CastVote, BeginModeration, ModerateReview, BeginDeletion, Abort

LEMMA RatingsStayOwned ==
    ASSUME DInv, NEW q \in Requests, Step(q) PROVE RatingsBelong'
<1>1. RatingsBelong
  BY DEF DInv
<1>2. CASE UNCHANGED <<reviews, ratings>>
  BY <1>1, <1>2 DEF RatingsBelong, ReviewTarget
<1>3. CASE CommitReview(q)
  <2> DEFINE m == req[q].by
             s == req[q].subject
             row == [owner |-> m, subject |-> s, edit |-> req[q].edit,
                     visibility |-> req[q].visibility, status |-> KeptStatus(m, s)]
  <2>1. /\ reviews' = {r \in reviews : ReviewTarget(r) # <<m, s>>} \cup {row}
        /\ ratings' = (ratings \ req[q].old) \cup {<<m, s, d, req[q].edit>> : d \in req[q].dimensions}
    BY <1>3 DEF CommitReview, OtherReviews
  <2>2. row \in reviews' /\ ReviewTarget(row) = <<m, s>>
    BY <2>1 DEF ReviewTarget
  <2>3. ASSUME NEW x \in ratings' PROVE \E r \in reviews' : ReviewTarget(r) = <<x[1], x[2]>>
    <3>1. CASE x \in ratings
      BY <1>1, <2>1, <2>2, <3>1 DEF RatingsBelong
    <3>2. CASE x \notin ratings
      <4>1. x[1] = m /\ x[2] = s
        BY <2>1, <3>2
      <4> QED
        BY <2>2, <4>1
    <3> QED
      BY <3>1, <3>2
  <2> QED
    BY <2>3 DEF RatingsBelong, ReviewTarget
<1>4. CASE ModerateReview(q)
  <2>1. PICK r \in reviews, s \in Rulings : reviews' = (reviews \ {r}) \cup {[r EXCEPT !.status = s]}
    BY <1>4 DEF ModerateReview
  <2>2. ReviewTarget([r EXCEPT !.status = s]) = ReviewTarget(r)
    BY DEF ReviewTarget, KInv, DInv, IInv, RowFacts, Shaped, IsGoverned
  <2>3. ratings' = ratings
    BY <1>4 DEF ModerateReview
  <2>4. \A o \in reviews : \E n \in reviews' : ReviewTarget(n) = ReviewTarget(o)
    BY <2>1, <2>2
  <2> QED
    BY <1>1, <2>3, <2>4 DEF RatingsBelong, ReviewTarget
<1>5. CASE FinishDeletion(q)
  <2>1. reviews' = {r \in reviews : r.owner # req[q].by} /\ ratings' = {r \in ratings : r[1] # req[q].by}
    BY <1>5 DEF FinishDeletion
  <2> QED
    BY <1>1, <2>1 DEF RatingsBelong, ReviewTarget
<1> QED
  BY <1>2, <1>3, <1>4, <1>5 DEF Step, data, CreateConfig, BeginReview, WriteReview, BeginSubmission, InsertSubmission,
     BeginVote, DeleteVote, CastVote, BeginModeration, SetSubmissionVerification, BeginDeletion, Abort

LEMMA RigsStayOwn ==
    ASSUME DInv, NEW q \in Requests, Step(q) PROVE RigsAreOwn'
<1>1. RigsAreOwn /\ members' \subseteq members /\ \A m \in members' : \A id : Wrote(m, id) => Wrote(m, id)'
  BY SubmissionsStay DEF DInv
<1>2. CASE InsertSubmission(q)
  <2> DEFINE env == [id |-> req[q].id, hardware |-> req[q].hardware]
             row == [id |-> req[q].id, owner |-> req[q].by, visibility |-> req[q].visibility,
                     status |-> "published", verification |-> "unverified"]
  <2>1. environments' = environments \cup {env} /\ submissions' = submissions \cup {row}
    BY <1>2 DEF InsertSubmission
  <2>2. req[q].hardware \in {Reference, req[q].by}
    BY <1>2 DEF InsertSubmission, DInv, OwnRequests, SubmitsOwn
  <2>3. Reference \notin members
    BY CommunityAssumption DEF DInv, KInv, IInv
  <2>4. row \in submissions' /\ row.id = env.id /\ row.owner = req[q].by /\ env.hardware = req[q].hardware
    BY <2>1
  <2>5. env.hardware \in members' => \E s \in submissions' : s.id = env.id /\ s.owner = env.hardware
    BY <1>1, <2>2, <2>3, <2>4
  <2> HIDE DEF env, row
  <2> QED
    BY <1>1, <2>1, <2>5 DEF RigsAreOwn, Wrote
<1>3. CASE ~InsertSubmission(q)
  <2>1. environments' \subseteq environments
    BY <1>3 DEF Step, data, CreateConfig, BeginReview, WriteReview, CommitReview, BeginSubmission, BeginVote, DeleteVote,
       CastVote, BeginModeration, ModerateReview, SetSubmissionVerification, BeginDeletion, FinishDeletion, Abort
  <2> QED
    BY <1>1, <2>1 DEF RigsAreOwn, Wrote
<1> QED
  BY <1>2, <1>3

LEMMA RequestsStayOwn ==
    ASSUME DInv, NEW q \in Requests, Step(q) PROVE OwnRequests'
<1>1. members' \subseteq members /\ \A m \in members' : \A id : Wrote(m, id) => Wrote(m, id)'
  BY SubmissionsStay DEF DInv
<1>2. \A p \in Requests : SeenIsOwn(req[p]) /\ SubmitsOwn(req[p]) /\ "at" \in DOMAIN req[p] /\ DOMAIN req = Requests
  BY DEF DInv, OwnRequests, KInv, IInv, Chosen
<1>3. \/ req' = req
      \/ \E r : /\ Do(q, r)
                /\ r.at = "delete" => \A id \in r.seen : Wrote(r.by, id)
                /\ SubmitsOwn(r)
  <2>1. CASE CreateConfig(q)
    BY <2>1 DEF CreateConfig
  <2>2. CASE BeginReview(q)
    <3>1. PICK m, s, v, d, n, o : Do(q, [at |-> "review", by |-> m, subject |-> s, visibility |-> v,
                                         dimensions |-> d, edit |-> n, old |-> o])
      BY <2>2 DEF BeginReview
    <3> QED
      BY <3>1 DEF SubmitsOwn
  <2>3. CASE WriteReview(q)
    <3>1. PICK o : Do(q, [req[q] EXCEPT !.at = "ratings", !.old = o])
      BY <2>3 DEF WriteReview
    <3>2. [req[q] EXCEPT !.at = "ratings", !.old = o].at = "ratings"
      BY <1>2
    <3> QED
      BY <3>1, <3>2 DEF SubmitsOwn
  <2>4. CASE BeginSubmission(q)
    <3>1. PICK m, n, v : \E h \in AllowedHardware(m) :
            Do(q, [at |-> "submission", by |-> m, id |-> n, hardware |-> h, visibility |-> v])
      BY <2>4 DEF BeginSubmission
    <3>2. PICK h \in AllowedHardware(m) :
            Do(q, [at |-> "submission", by |-> m, id |-> n, hardware |-> h, visibility |-> v])
      BY <3>1
    <3> QED
      BY <3>2 DEF SubmitsOwn, AllowedHardware
  <2>5. CASE BeginVote(q)
    <3>1. PICK m, t, x : Do(q, [at |-> "vote", by |-> m, target |-> t, value |-> x, old |-> {}])
      BY <2>5 DEF BeginVote
    <3> QED
      BY <3>1 DEF SubmitsOwn
  <2>6. CASE DeleteVote(q)
    <3>1. PICK o : Do(q, [req[q] EXCEPT !.at = "cast", !.old = o])
      BY <2>6 DEF DeleteVote
    <3>2. [req[q] EXCEPT !.at = "cast", !.old = o].at = "cast"
      BY <1>2
    <3> QED
      BY <3>1, <3>2 DEF SubmitsOwn
  <2>7. CASE BeginModeration(q)
    <3>1. PICK m : Do(q, [at |-> "moderate", by |-> m])
      BY <2>7 DEF BeginModeration
    <3> QED
      BY <3>1 DEF SubmitsOwn
  <2>8. CASE BeginDeletion(q)
    <3>1. PICK m : Do(q, [at |-> "delete", by |-> m, seen |-> {s.id : s \in {x \in submissions : x.owner = m}}])
      BY <2>8 DEF BeginDeletion
    <3>2. \A id \in {s.id : s \in {x \in submissions : x.owner = m}} : Wrote(m, id)
      BY DEF Wrote
    <3> QED
      BY <3>1, <3>2 DEF SubmitsOwn
  <2>9. CASE Do(q, NoRequest)
    BY <2>9 DEF NoRequest, SubmitsOwn
  <2> QED
    BY <2>1, <2>2, <2>3, <2>4, <2>5, <2>6, <2>7, <2>8, <2>9 DEF Step, CommitReview, InsertSubmission, CastVote,
       ModerateReview, SetSubmissionVerification, FinishDeletion, Abort
<1>4. \A p \in Requests : req'[p] = req[p] => SeenIsOwn(req[p])' /\ SubmitsOwn(req[p])'
  BY <1>1, <1>2 DEF SeenIsOwn, SubmitsOwn
<1>5. CASE req' = req
  BY <1>4, <1>5 DEF OwnRequests
<1>6. CASE req' # req
  <2>1. PICK r : /\ Do(q, r) /\ SubmitsOwn(r)
                 /\ r.at = "delete" => \A id \in r.seen : Wrote(r.by, id)
    BY <1>3, <1>6
  <2>2. req'[q] = r /\ \A p \in Requests \ {q} : req'[p] = req[p]
    BY <1>2, <2>1 DEF Do
  <2>3. SeenIsOwn(req[q])' /\ SubmitsOwn(req[q])'
    BY <1>1, <2>1, <2>2 DEF SeenIsOwn, SubmitsOwn
  <2> QED
    BY <1>4, <2>2, <2>3 DEF OwnRequests
<1> QED
  BY <1>5, <1>6

\* exportAccountData, "Everything Mutinai holds about the signed-in user": a deletion takes
\* what the export held, whatever the member's other requests wrote after it had begun.
THEOREM DeletionTakesWhatExportGivesHolds == Spec => DeletionTakesWhatExportGives
<1> DEFINE Takes(q) ==
        LET export == ExportAccount(Database, req[q].by) IN
        /\ configs \ configs' = export.configs /\ reviews \ reviews' = export.reviews
        /\ ratings \ ratings' = export.ratings
        /\ submissions \ submissions' = export.submissions
        /\ environments \ environments' \subseteq export.environments
        /\ export.votes \subseteq votes \ votes'
<1>1. DInv /\ [Next]_vars => DInv'
  <2> SUFFICES ASSUME DInv, [Next]_vars PROVE DInv'
    OBVIOUS
  <2>1. KInv'
    BY NextIsKept DEF DInv
  <2>2. CASE UNCHANGED vars
    BY <2>1, <2>2 DEF DInv, RatingsBelong, RigsAreOwn, OwnRequests, SeenIsOwn, SubmitsOwn, Wrote, ReviewTarget, vars, data
  <2> QED
    BY <2>1, <2>2, RatingsStayOwned, RigsStayOwn, RequestsStayOwn DEF DInv, Next
<1>2. ASSUME DInv, NEW q \in Requests, FinishDeletion(q) PROVE Takes(q)
  <2> DEFINE m == req[q].by
             export == ExportAccount(Database, m)
             own == {s \in submissions : s.owner = m}
  <2>1. /\ export.configs = {c \in configs : c.owner = m} /\ export.reviews = {r \in reviews : r.owner = m}
        /\ export.submissions = own /\ export.votes = {v \in votes : v.voter = m}
        /\ export.environments = {e \in environments : e.id \in {s.id : s \in own}}
        /\ export.ratings = {x \in ratings : <<x[1], x[2]>> \in {ReviewTarget(r) : r \in {r \in reviews : r.owner = m}}}
    BY DEF ExportAccount, Database, OwnedBy, RatingsOf
  <2>2. export.ratings = {x \in ratings : x[1] = m}
    BY <1>2, <2>1 DEF DInv, RatingsBelong, ReviewTarget
  <2>3. m \in members /\ req[q].at = "delete" /\ environments' = environments \ {e \in environments : e.id \in req[q].seen \/ e.hardware = m}
    BY <1>2 DEF FinishDeletion
  <2>4. \A id \in req[q].seen : Wrote(m, id)
    BY <1>2, <2>3 DEF DInv, OwnRequests, SeenIsOwn
  <2>5. \A e \in environments : e.hardware = m => Wrote(m, e.id)
    BY <1>2, <2>3 DEF DInv, RigsAreOwn
  <2>6. environments \ environments' \subseteq export.environments
    BY <2>1, <2>3, <2>4, <2>5 DEF Wrote
  <2> HIDE DEF export
  <2> QED
    BY <1>2, <2>1, <2>2, <2>6 DEF FinishDeletion, VotesLeft, export
<1>3. DInv /\ [Next]_vars => [\A q \in Requests : FinishDeletion(q) => Takes(q)]_vars
  BY <1>2
<1> HIDE DEF Takes
<1>4. Spec => [][\A q \in Requests : FinishDeletion(q) => Takes(q)]_vars
  BY <1>1, <1>3, InitIsOwn, PTL DEF Spec
<1> QED
  BY <1>4 DEF DeletionTakesWhatExportGives, Takes
=============================================================================
