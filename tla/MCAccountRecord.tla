--------------------------- MODULE MCAccountRecord ---------------------------
(* Model checking AccountRecord: requests are interchangeable. *)
EXTENDS AccountRecord, TLC

Symmetry == Permutations(Procs)
=============================================================================
