----------------------------- MODULE MCCodeGrant -----------------------------
(* Small instances of CodeGrant: a scope or two, codes, agents and requests, *)
(* interchangeable.                                                          *)
EXTENDS CodeGrant, TLC

Symmetry == Permutations(Codes) \cup Permutations(Procs) \cup Permutations(Agents)
              \cup Permutations(Scopes)
=============================================================================
