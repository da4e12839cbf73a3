-------------------------- MODULE MCFrigateEvents --------------------------
(* Instances of FrigateEvents for TLC.                                      *)
EXTENDS FrigateEvents, TLC

\* Frigate event ids are interchangeable (safety runs only).
ObjectSymmetry == Permutations(Objects)

=============================================================================
