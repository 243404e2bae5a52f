----------------------------- MODULE MCProcess ------------------------------
(* Instances of Process for TLC. *)
EXTENDS Process, TLC

\* Init and Next treat the cores alike, and the tasks that are not there at boot.
Symmetry == Permutations(Cores) \union Permutations(Tasks \ Roots)
=============================================================================
