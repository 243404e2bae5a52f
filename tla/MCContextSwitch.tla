-------------------------- MODULE MCContextSwitch ---------------------------
(* Instances of ContextSwitch for TLC. *)
EXTENDS ContextSwitch, TLC

TaskSymmetry == Permutations(Tasks)
=============================================================================
