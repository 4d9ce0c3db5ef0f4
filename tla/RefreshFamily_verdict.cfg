CONSTANTS
  Tokens = {t1, t2, t3}
  Procs = {p1, p2}
  NoToken = NoToken
  Window = 1
  Life = 3
  GraceOn = TRUE
  MaxTime = 2
  MaxSignIns = 1
SPECIFICATION Spec
SYMMETRY Symmetry
CHECK_DEADLOCK FALSE
INVARIANT VerdictEndsTheFamily
