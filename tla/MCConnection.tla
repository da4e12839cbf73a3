---------------------------- MODULE MCConnection ----------------------------
(* The instance of Connection for TLC.                                      *)
EXTENDS Connection

=============================================================================
