SPECIFICATION Spec
CONSTANTS
  Codes = {c1, c2}
  Procs = {p1, p2}
  Scopes = {s1, s2}
  Agents = {}
  NoFam = NoFam
  NoAgent = NoAgent
SYMMETRY Symmetry
CHECK_DEADLOCK FALSE
INVARIANT CodesAreAllowed ConsentIsWhatWasApproved
