\* The samples of the offline model against those of the program.
CONSTANTS
  MAX_SPAN = 2
  MAX_DRIFT = 2
  TIMESTAMPS = 10
  TSBPD_WRAP_PERIOD = 2
  FirstTimes <- MCAtStart
  MaxTime = 23
  Gap = 2
  Outages <- MCNoOutages
  Reorder = 1
  ClockOffset = 1000
  StartTime = 900
  Delays <- MCDelays
  Rtts <- MCOneRtt
SPECIFICATION Spec
INVARIANT SamplesAsModelled
