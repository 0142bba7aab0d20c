------------------------------ MODULE Community ------------------------------
(***************************************************************************)
(* What members write (packages/db/src/queries/mutations.ts) and what      *)
(* becomes of it when they leave (deleteAccount in packages/db/src/        *)
(* identity.ts), under requests the web server handles concurrently.       *)
(*                                                                         *)
(* A request resolves its session, makes the reads that decide whether the *)
(* operation is allowed, and writes in a transaction under READ COMMITTED  *)
(* later on.  What a transaction has written is invisible until it         *)
(* commits, but a row it has written keeps others from writing that row.   *)
(* Foreign keys are checked, and cascade, as the schema says.              *)
(*                                                                         *)
(* Texts, scores and measurements are abstracted to the number of the edit *)
(* they come from; validation refuses a request before it begins.          *)
(***************************************************************************)
EXTENDS VisibilityPolicy, Integers, FiniteSets

CONSTANTS
    Subjects,       \* entities that can be reviewed
    Dimensions,     \* the rating dimensions that apply to them
    Requests,       \* requests in the server at one time
    Reference,      \* a reference hardware configuration
    Offered,        \* visibilities members choose from
    OfferedConfigs, \* and those they choose from for a configuration
    Rulings,        \* statuses moderators give to reviews
    Verdicts,       \* and verifications they give to submissions
    MaxRequests     \* bound: requests in all

ASSUME CommunityAssumption ==
    /\ Reference \notin Members
    /\ Offered \subseteq Visibilities /\ OfferedConfigs \subseteq Visibilities
    /\ Rulings \subseteq Statuses
    /\ MaxRequests \in Nat

VARIABLES
    members,       \* profiles that exist
    configs,       \* [owner, name, visibility, status]; bound: one of each member
    reviews,       \* [owner, subject, edit, visibility, status]
    ratings,       \* <<owner, subject, dimension, edit>>
    submissions,   \* [id, owner, visibility, status, verification]
    environments,  \* [id, hardware]: the environment of submission `id`
    votes,         \* [voter, target, value]
    begun,         \* requests so far; each numbers what it writes
    req            \* what each request is doing

data == <<members, configs, reviews, ratings, submissions, environments, votes>>
vars == <<data, begun, req>>

Values == {-1, 1}
NoRequest == [at |-> "none"]
Open(q) == req[q].at # "none"
Do(q, r) == req' = [req EXCEPT ![q] = r]
Begins(q) ==
    /\ ~Open(q) /\ begun < MaxRequests
    /\ begun' = begun + 1

Owners(rows) == {r.owner : r \in rows}

\* What can be voted on: a review by author and subject, a submission by id.
ReviewTarget(r) == <<r.owner, r.subject>>
SubmissionTarget(s) == <<s.id>>
Targets ==
    {[target |-> ReviewTarget(r), row |-> r] : r \in reviews}
        \cup {[target |-> SubmissionTarget(s), row |-> s] : s \in submissions}

CommunityTypeOK ==
    /\ members \subseteq Members
    /\ configs \subseteq [owner : Members, name : {"named"}, visibility : OfferedConfigs,
                          status : {"published"}]
    /\ reviews \subseteq [owner : Members, subject : Subjects, edit : 1 .. MaxRequests,
                          visibility : Offered, status : Rulings \cup {"published"}]
    /\ \A r, o \in reviews : ReviewTarget(r) = ReviewTarget(o) => r = o
    /\ ratings \subseteq Members \X Subjects \X Dimensions \X (1 .. MaxRequests)
    /\ submissions \subseteq [id : 1 .. MaxRequests, owner : Members, visibility : Offered,
                              status : {"published"},
                              verification : Verdicts \cup {"unverified"}]
    /\ environments \subseteq [id : 1 .. MaxRequests, hardware : Members \cup {Reference}]
    /\ \A v \in votes : v.voter \in Members /\ v.value \in Values
    /\ begun \in 0 .. MaxRequests

Init ==
    /\ members = Members
    /\ configs = {} /\ reviews = {} /\ ratings = {}
    /\ submissions = {} /\ environments = {} /\ votes = {}
    /\ begun = 0
    /\ req = [q \in Requests |-> NoRequest]

-----------------------------------------------------------------------------
(* createUserHardwareConfig *)

CreateConfig(q) ==
    /\ Begins(q)
    /\ \E m \in members \ Owners(configs), v \in OfferedConfigs :
          configs' = configs \cup {[owner |-> m, name |-> "named", visibility |-> v,
                                  status |-> "published"]}
    /\ UNCHANGED <<members, reviews, ratings, submissions, environments, votes, req>>

-----------------------------------------------------------------------------
(* upsertReview *)

\* What validateRatings lets pass: at least one dimension, each one that applies, and once.
ValidRatings == (SUBSET Dimensions) \ {{}}

BeginReview(q) ==
    /\ Begins(q)
    /\ \E m \in members, s \in Subjects, v \in Offered, d \in ValidRatings :
          Do(q, [at |-> "review", by |-> m, subject |-> s, visibility |-> v, dimensions |-> d,
                 edit |-> begun', old |-> {}])
    /\ UNCHANGED data

\* A bug to rule out: `on conflict do nothing` would not lock the row.
NeverLocked(m, s) == FALSE

\* A transaction has written the review of m on s and not committed.
Locked(m, s) ==
    \E q \in Requests : req[q].at = "ratings" /\ req[q].by = m /\ req[q].subject = s

\* Insert or update of the row, which waits for whoever else writes it, and
\* the deletion of the ratings it had.
WriteReview(q) ==
    /\ req[q].at = "review"
    /\ req[q].by \in members
    /\ ~Locked(req[q].by, req[q].subject)
    /\ Do(q, [req[q] EXCEPT !.at = "ratings",
                            !.old = {r \in ratings : r[1] = req[q].by /\ r[2] = req[q].subject}])
    /\ UNCHANGED <<data, begun>>

\* A bug to rule out: an edit publishes the review again.
RepublishedStatus(m, s) == "published"

\* The status a review keeps when its author writes it again.
KeptStatus(m, s) ==
    IF \E r \in reviews : ReviewTarget(r) = <<m, s>>
    THEN (CHOOSE r \in reviews : ReviewTarget(r) = <<m, s>>).status
    ELSE "published"

\* A bug to rule out: without the conflict target, every edit is a new row.
EveryReview(m, s) == reviews

\* The rows the upsert leaves alone.
OtherReviews(m, s) == {r \in reviews : ReviewTarget(r) # <<m, s>>}

CommitReview(q) ==
    /\ req[q].at = "ratings"
    /\ LET m == req[q].by
           s == req[q].subject
       IN /\ reviews' = OtherReviews(m, s)
                           \cup {[owner |-> m, subject |-> s, edit |-> req[q].edit,
                                  visibility |-> req[q].visibility, status |-> KeptStatus(m, s)]}
          /\ ratings' = (ratings \ req[q].old) \cup {<<m, s, d, req[q].edit>> : d \in req[q].dimensions}
    /\ Do(q, NoRequest)
    /\ UNCHANGED <<members, configs, submissions, environments, votes, begun>>

-----------------------------------------------------------------------------
(* createBenchmarkSubmission *)

\* A bug to rule out: any member's configuration will do.
AnyConfig(m) == {Reference} \cup Owners(configs)

\* Only the reference hardware or the submitter's own configuration.
AllowedHardware(m) == {Reference} \cup (Owners(configs) \cap {m})

BeginSubmission(q) ==
    /\ Begins(q)
    /\ \E m \in members, v \in Offered : \E h \in AllowedHardware(m) :
          Do(q, [at |-> "submission", by |-> m, id |-> begun', hardware |-> h, visibility |-> v])
    /\ UNCHANGED data

\* Environment and submission, if the rows they reference still exist.
InsertSubmission(q) ==
    /\ req[q].at = "submission"
    /\ req[q].by \in members
    /\ req[q].hardware \in {Reference} \cup Owners(configs)
    /\ environments' = environments \cup {[id |-> req[q].id, hardware |-> req[q].hardware]}
    /\ submissions' = submissions \cup {[id |-> req[q].id, owner |-> req[q].by,
                                         visibility |-> req[q].visibility, status |-> "published",
                                         verification |-> "unverified"]}
    /\ Do(q, NoRequest)
    /\ UNCHANGED <<members, configs, reviews, ratings, votes, begun>>

-----------------------------------------------------------------------------
(* castVote *)

\* targetVisible, then the check of the owner; 0 withdraws a vote.
BeginVote(q) ==
    /\ Begins(q)
    /\ \E m \in members, t \in Targets, x \in Values \cup {0} :
          /\ VisibleTo(m, t.row, "direct") /\ t.row.owner # m
          /\ Do(q, [at |-> "vote", by |-> m, target |-> t.target, value |-> x, old |-> {}])
    /\ UNCHANGED data

OwnVotes(q) == {v \in votes : v.voter = req[q].by /\ v.target = req[q].target}

\* The deletion of the vote there is, which waits for whoever else deletes it.
DeleteVote(q) ==
    /\ req[q].at = "vote"
    /\ \A p \in Requests \ {q} : req[p].at = "cast" => req[p].old \cap OwnVotes(q) = {}
    /\ Do(q, [req[q] EXCEPT !.at = "cast", !.old = OwnVotes(q)])
    /\ UNCHANGED <<data, begun>>

\* Foreign keys, and the unique keys on voter and target.
VoteAllowed(q) ==
    /\ req[q].by \in members /\ req[q].target \in {t.target : t \in Targets}
    /\ OwnVotes(q) \subseteq req[q].old

CastVote(q) ==
    /\ req[q].at = "cast"
    /\ \/ /\ req[q].value = 0
          /\ votes' = votes \ req[q].old
       \/ /\ req[q].value # 0
          /\ VoteAllowed(q)
          /\ votes' = (votes \ req[q].old)
                        \cup {[voter |-> req[q].by, target |-> req[q].target, value |-> req[q].value]}
    /\ Do(q, NoRequest)
    /\ UNCHANGED <<members, configs, reviews, ratings, submissions, environments, begun>>

-----------------------------------------------------------------------------
(* Moderators: moderateReview and setSubmissionVerification *)

\* The roles are read with the session.
BeginModeration(q) ==
    /\ Begins(q)
    /\ \E m \in members : IsModerator(m) /\ Do(q, [at |-> "moderate", by |-> m])
    /\ UNCHANGED data

ModerateReview(q) ==
    /\ req[q].at = "moderate"
    /\ \E r \in reviews, s \in Rulings :
          /\ r.visibility # "private" /\ ~Locked(r.owner, r.subject)
          /\ reviews' = (reviews \ {r}) \cup {[r EXCEPT !.status = s]}
    /\ Do(q, NoRequest)
    /\ UNCHANGED <<members, configs, ratings, submissions, environments, votes, begun>>

SetSubmissionVerification(q) ==
    /\ req[q].at = "moderate"
    /\ \E s \in submissions, v \in Verdicts :
          /\ s.visibility # "private"
          /\ submissions' = (submissions \ {s}) \cup {[s EXCEPT !.verification = v]}
    /\ Do(q, NoRequest)
    /\ UNCHANGED <<members, configs, reviews, ratings, environments, votes, begun>>

-----------------------------------------------------------------------------
(* deleteAccount *)

\* The submissions the transaction finds, whose environments it deletes by id.
BeginDeletion(q) ==
    /\ Begins(q)
    /\ \E m \in members :
          Do(q, [at |-> "delete", by |-> m, seen |-> {s.id : s \in {x \in submissions : x.owner = m}}])
    /\ UNCHANGED data

\* A bug to rule out: votes stay when their target goes.
VotesLeftAnyway(m, gone) == {v \in votes : v.voter # m}

\* The cascade from profile, review and submission to votes.
VotesLeft(m, gone) ==
    {v \in votes : v.voter # m /\ v.target \notin gone}

\* The cascade from account to everything the member owns, from a member's
\* configuration to its environments.  No environment a submission that stays
\* refers to may go.
FinishDeletion(q) ==
    /\ req[q].at = "delete"
    /\ LET m == req[q].by
           left == {s \in submissions : s.owner # m}
           deleted == {e \in environments : e.id \in req[q].seen \/ e.hardware = m}
       IN /\ m \in members
          /\ \A s \in Subjects : ~Locked(m, s)
          /\ \A s \in left : s.id \notin {e.id : e \in deleted}
          /\ members' = members \ {m}
          /\ configs' = {c \in configs : c.owner # m}
          /\ reviews' = {r \in reviews : r.owner # m}
          /\ ratings' = {r \in ratings : r[1] # m}
          /\ submissions' = left
          /\ environments' = environments \ deleted
          /\ votes' = VotesLeft(m, {t.target : t \in {x \in Targets : x.row.owner = m}})
    /\ Do(q, NoRequest)
    /\ UNCHANGED begun

\* An error, a violated key, a deadlock Postgres resolves, or a lost connection.
Abort(q) ==
    /\ Open(q)
    /\ Do(q, NoRequest)
    /\ UNCHANGED <<data, begun>>

Step(q) ==
    \/ CreateConfig(q)
    \/ BeginReview(q) \/ WriteReview(q) \/ CommitReview(q)
    \/ BeginSubmission(q) \/ InsertSubmission(q)
    \/ BeginVote(q) \/ DeleteVote(q) \/ CastVote(q)
    \/ BeginModeration(q) \/ ModerateReview(q) \/ SetSubmissionVerification(q)
    \/ BeginDeletion(q) \/ FinishDeletion(q)
    \/ Abort(q)

Next == \E q \in Requests : Step(q)

Spec == Init /\ [][Next]_vars

-----------------------------------------------------------------------------
(* Properties *)

\* upsertReview: "Creates or replaces the viewer's review": a review and its
\* ratings come from one and the same edit, however many write it at once.
ReviewIsOneEdit ==
    \A r \in reviews :
        LET own == {x \in ratings : x[1] = r.owner /\ x[2] = r.subject}
        IN own # {} /\ \A x \in own : x[4] = r.edit

\* A member has one vote on a contribution, and none on their own.
OneVoteEach ==
    \A v, w \in votes :
        /\ (v.voter = w.voter /\ v.target = w.target) => v = w
        /\ \A t \in Targets : t.target = v.target => t.row.owner # v.voter

\* deleteAccount: "Deletes an account and all user-authored content": no row
\* of a member who is gone is left, and no vote on what is gone.
NothingOfTheDeleted ==
    /\ \A c \in configs \cup reviews \cup submissions : c.owner \in members
    /\ \A r \in ratings : r[1] \in members
    /\ \A v \in votes : v.voter \in members /\ v.target \in {t.target : t \in Targets}
    /\ \A s \in submissions : s.id \in {e.id : e \in environments}

\* identity.ts: "Environments of *other* users' submissions can never reference this
\* user's configs (enforced on write), so cascading the account is safe": no
\* submission keeps the account of another member from being deleted.
OthersDoNotBlockDeletion ==
    \A s \in submissions, e \in environments :
        s.id = e.id => e.hardware \in {Reference, s.owner}

\* What is not published comes back only by a moderator, whatever its author does.
ModerationSticks ==
    [][\A r \in reviews, n \in reviews' :
          (ReviewTarget(r) = ReviewTarget(n) /\ r.status # "published" /\ n.status = "published")
             => \E q \in Requests : ModerateReview(q)]_vars

\* visibility.ts, "SQL mirror of `canView`": direct links and listings show exactly
\* what the policy allows, and nothing feeds averages that strangers may not list.
ListingsFollowPolicy ==
    \A t \in Targets :
        /\ \A viewer \in Viewers, mode \in Modes :
              VisibleTo(viewer, t.row, mode) <=> CanView(viewer, t.row, mode)
        /\ PublicAggregateEligible(t.row) <=> CanView(NoOne, t.row, "listing")

\* deleteAccount: "Run environments are owned by submissions and are removed
\* explicitly": none is left without its submission.
EnvironmentsAreOwned ==
    \A e \in environments : e.id \in {s.id : s \in submissions}

\* packages/db/test/privacy.test.ts: "members cannot vote on their own contributions or
\* on content they cannot see".
VotesOnWhatIsSeen ==
    [][\A v \in votes' \ votes, t \in Targets :
          t.target = v.target => CanView(v.voter, t.row, "direct")]_vars
=============================================================================
