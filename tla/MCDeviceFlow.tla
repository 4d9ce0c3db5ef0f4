---------------------------- MODULE MCDeviceFlow ----------------------------
(* Small instances of DeviceFlow: people and requests are interchangeable. *)
EXTENDS DeviceFlow, TLC

Symmetry == Permutations(Users) \cup Permutations(Procs)
=============================================================================
