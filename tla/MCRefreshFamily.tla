-------------------------- MODULE MCRefreshFamily --------------------------
(* Model-checking instances of RefreshFamily. *)
EXTENDS RefreshFamily, TLC

Symmetry == Permutations(Tokens) \cup Permutations(Procs)
=============================================================================
