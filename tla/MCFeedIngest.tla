----------------------------- MODULE MCFeedIngest -----------------------------
(* Instances of FeedIngest for TLC: one or two feeds, entries that appear on  *)
(* time, late within the overlap, and later than that.                        *)
EXTENDS FeedIngest

TwoAndOne == <<2, 1>>
Two == <<2>>
TwoEach == <<2, 2>>
=============================================================================
