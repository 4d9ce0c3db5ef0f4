SPECIFICATION FairSpec
CONSTANTS
  Events = {e1}
  Streams = {s1, s2}
  Push = {s1}
  Drains = {w1, w2}
  MaxAttempts = 3
  MaxFaults = 2
CHECK_DEADLOCK FALSE
INVARIANT TypeOK AttemptsAreBounded
PROPERTY AckStands EventsAreSettled
