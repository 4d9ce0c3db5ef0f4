SPECIFICATION Spec
CONSTANTS
  Procs = {p1, p2, p3}
  Threshold = 2
  Tiers <- TierDef
  Hours = {0, 2}
  MaxTime = 3
  MaxFailed = 4
SYMMETRY Symmetry
CHECK_DEADLOCK FALSE
INVARIANT TypeOK GuessesAreBounded
PROPERTY LockStands CountNeverSlips
