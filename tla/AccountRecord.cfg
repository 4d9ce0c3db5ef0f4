SPECIFICATION Spec
CONSTANTS
  Procs = {p1, p2}
  CodeCount = 2
  MaxMinted = 4
SYMMETRY Symmetry
CHECK_DEADLOCK FALSE
INVARIANT TypeOK FactorIsConfirmed
PROPERTY SpentStaysSpent
