------------------------- MODULE MCPasswordLockout -------------------------
(* Small instances of PasswordLockout; requests are interchangeable. *)
EXTENDS PasswordLockout, TLC

TierDef  == <<1, 2>>
Symmetry == Permutations(Procs)
=============================================================================
