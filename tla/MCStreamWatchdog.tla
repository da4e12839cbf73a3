-------------------------- MODULE MCStreamWatchdog --------------------------
(* An instance of StreamWatchdog for TLC.                                   *)
EXTENDS StreamWatchdog

=============================================================================
