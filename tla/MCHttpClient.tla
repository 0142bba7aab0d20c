----------------------------- MODULE MCHttpClient -----------------------------
(* An instance of HttpClient for TLC: delays below, at and above the longest *)
(* wait, and a window that ends before the spacing between requests does.    *)
EXTENDS HttpClient

CONSTANTS ShortDelay, LongDelay

MCDelays == {0, ShortDelay, LongDelay}
=============================================================================
