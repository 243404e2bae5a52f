------------------------------ MODULE MCMutex -------------------------------
(* Instances of Mutex for TLC. *)
EXTENDS Mutex, TLC

TaskSymmetry == Permutations(Tasks)
=============================================================================
