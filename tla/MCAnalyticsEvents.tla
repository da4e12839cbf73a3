------------------------- MODULE MCAnalyticsEvents -------------------------
(* Instances of AnalyticsEvents for TLC.                                    *)
EXTENDS AnalyticsEvents, TLC

\* Message tasks and request handlers are interchangeable (safety runs only).
CallerSymmetry == Permutations(Callers)

=============================================================================
