----------------------------- MODULE MCSpinLock -----------------------------
(* Instances of SpinLock for TLC. *)
EXTENDS SpinLock, TLC

CoreSymmetry == Permutations(Cores)
=============================================================================
