----------------------------- MODULE MCMutation -----------------------------
(* Interchangeable jobs and files, for MutationManager. *)
EXTENDS MutationManager, TLC

Symmetry == Permutations(Jobs) \cup Permutations(Files)
=============================================================================
