--------------------------- MODULE VisibilityPolicy ---------------------------
(***************************************************************************)
(* Who may see what members write: the policy of packages/domain/src/      *)
(* privacy.ts, and the filter packages/db/src/visibility.ts puts into the  *)
(* where clause of every query.  The two are written separately.           *)
(***************************************************************************)

CONSTANTS
    Members,      \* profiles
    Moderators,   \* those with the role moderator or admin
    NoOne         \* the anonymous viewer

ASSUME VisibilityAssumption == Moderators \subseteq Members /\ NoOne \notin Members

Visibilities == {"public", "unlisted", "private"}
Statuses == {"pending", "published", "rejected", "removed"}
Modes == {"direct", "listing"}
Viewers == Members \cup {NoOne}
Governed == [visibility : Visibilities, status : Statuses, owner : Members]

IsOwner(viewer, r) == viewer # NoOne /\ viewer = r.owner
IsModerator(viewer) == viewer \in Moderators

CanView(viewer, r, mode) ==
    CASE r.visibility = "private" -> IsOwner(viewer, r)
      [] r.visibility # "private" /\ r.status # "published" ->
            IsOwner(viewer, r) \/ IsModerator(viewer)
      [] r.visibility = "unlisted" /\ r.status = "published" ->
            mode = "direct" \/ IsOwner(viewer, r)
      [] OTHER -> TRUE

\* A bug to rule out: moderators see private content that is not published.
VisibleToEveryModerator(viewer, r, mode) ==
    \/ /\ r.status = "published"
       /\ r.visibility \in IF mode = "listing" THEN {"public"} ELSE {"public", "unlisted"}
    \/ viewer # NoOne /\ r.owner = viewer
    \/ IsModerator(viewer) /\ r.status # "published"

VisibleTo(viewer, r, mode) ==
    \/ /\ r.status = "published"
       /\ r.visibility \in IF mode = "listing" THEN {"public"} ELSE {"public", "unlisted"}
    \/ viewer # NoOne /\ r.owner = viewer
    \/ IsModerator(viewer) /\ r.visibility # "private" /\ r.status # "published"

\* What may feed averages and measured speeds, whoever asks.
PublicAggregateEligible(r) == r.visibility = "public" /\ r.status = "published"
=============================================================================
