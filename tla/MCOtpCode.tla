----------------------------- MODULE MCOtpCode -----------------------------
(* Model checking OtpCode: requests are interchangeable. *)
EXTENDS OtpCode, TLC

Symmetry == Permutations(Procs)
=============================================================================
