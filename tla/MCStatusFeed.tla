---------------------------- MODULE MCStatusFeed ----------------------------
(* The instance of StatusFeed for TLC.                                      *)
EXTENDS StatusFeed

=============================================================================
