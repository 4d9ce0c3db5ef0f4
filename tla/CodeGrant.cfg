SPECIFICATION Spec
CONSTANTS
  Codes = {c1}
  Procs = {p1, p2}
  Scopes = {s1}
  Agents = {a1, a2, a3}
  NoFam = NoFam
  NoAgent = NoAgent
SYMMETRY Symmetry
CHECK_DEADLOCK FALSE
INVARIANT TypeOK ActIsCurrent LiveIsAllowed
PROPERTY CodesAreOneShot RevokesEndWhatTheySaw
