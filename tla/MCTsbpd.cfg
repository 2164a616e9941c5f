\* A clock of 9 ticks with a wrap period of 2: it wraps twice in 20 ticks.
\* Delays of 3 with corrections of 2 make the base move both ways.
CONSTANTS
  MAX_SPAN = 2
  MAX_DRIFT = 2
  TIMESTAMPS = 9
  TSBPD_WRAP_PERIOD = 2
  FirstTimes <- MCFirstTimes
  MaxTime = 20
  Gap = 2
  Outages <- MCOutages
  Reorder = 1
  ClockOffset = 1000
  StartTime = 900
  Delays <- MCDelays
  Rtts <- MCRtts
SPECIFICATION Spec
INVARIANTS TypeOK BaseFollowsClock NeverAhead SampleExact OfflineAgrees PlotsAgree
