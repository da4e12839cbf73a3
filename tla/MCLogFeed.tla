----------------------------- MODULE MCLogFeed -----------------------------
(* The instance of LogFeed for TLC.                                        *)
EXTENDS LogFeed, TLC

\* Viewers and the two streams are interchangeable.
FeedSymmetry == Permutations(Viewers) \cup Permutations(Streams)

=============================================================================
