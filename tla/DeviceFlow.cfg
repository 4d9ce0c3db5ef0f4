SPECIFICATION Spec
CONSTANTS
  Codes = {c1}
  Procs = {p1, p2, p3}
  Users = {u1, u2}
  NoUser = NoUser
  TTL = 1
  Interval = 1
  Penalty = 1
  MaxTime = 3
  MaxInterval = 1
SYMMETRY Symmetry
CHECK_DEADLOCK FALSE
INVARIANT TypeOK PaidAsDecided
PROPERTY DeviceCodesAreOneShot DecisionsStand
