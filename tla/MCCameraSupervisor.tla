------------------------- MODULE MCCameraSupervisor -------------------------
(* Instances of CameraSupervisor for TLC.                                   *)
EXTENDS CameraSupervisor, TLC

\* Request handlers are interchangeable (safety runs only).
CallerSymmetry == Permutations(Callers)

=============================================================================
