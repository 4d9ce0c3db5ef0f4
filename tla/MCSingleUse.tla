----------------------------- MODULE MCSingleUse -----------------------------
(* Model checking SingleUse: requests are interchangeable. *)
EXTENDS SingleUse, TLC

Symmetry == Permutations(Procs)
=============================================================================
