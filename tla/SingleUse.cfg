SPECIFICATION Spec
CONSTANTS
  Values = {v1}
  NoValue = none
  Procs = {p1, p2, p3}
  UriTTL = 2
  LinkTTL = 2
  IatSkew = 2
  JtiTTL = 3
  Tolerance = 2
  MaxLife = 3
  FutureSkew = 2
  MaxAge = 1
  Margin = 4
  ReplyTTL = 3
  MaxTime = 7
  MaxUses = 2
SYMMETRY Symmetry
CHECK_DEADLOCK FALSE
INVARIANT TypeOK
PROPERTY AtomicOnesAreOneShot SecondUseIsExcused
