CONSTANTS
  Tokens = {t1, t2}
  Procs = {p1}
  NoToken = NoToken
  Window = 2
  Life = 3
  GraceOn = TRUE
  MaxTime = 5
  MaxSignIns = 1
SPECIFICATION FairSpec
CHECK_DEADLOCK FALSE
PROPERTIES KeptPairsGo
