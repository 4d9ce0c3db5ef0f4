SPECIFICATION Spec
CONSTANTS
  Procs = {p1, p2}
  MaxCodes = 4
  Watched = 1
  MaxAttempts = 2
  MaxSends = 2
  CodeTTL = 2
  Cooldown = 1
  Hour = 4
  MaxTime = 5
SYMMETRY Symmetry
CHECK_DEADLOCK FALSE
INVARIANT TypeOK TriesAreBounded RollingCap
PROPERTY SettledCodeStaysShut
