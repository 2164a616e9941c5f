\* Two records fit; the third number pushes one out.  The clock reads two
\* values, so that either thread may lag behind the other one.
CONSTANTS
  SIZE = 3
  IntMod = 1024
  SizeMod = 16384
  MAX_SPAN = 1
  MAX_DRIFT = 1
  TIMESTAMPS = 20
  TSBPD_WRAP_PERIOD = 4
  MaxAckNo = 3
  MaxTime = 1
  UpTime = 100
  CompensateRtt = TRUE
SPECIFICATION Spec
INVARIANTS TypeOK RttOfTheAck
PROPERTIES ImplementsWindow MissExplained
CHECK_DEADLOCK FALSE
