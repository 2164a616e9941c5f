\* A peer that is asked to stop after the other one fell silent.
CONSTANTS
  caller = caller
  listener = listener
  Peers = {caller, listener}
  Callers = {caller}
  Bindings <- MCBothBound
  Strangers = {}
  MaxRestarts = 0
  None = None
SPECIFICATION FairSpec
PROPERTY Stops
CHECK_DEADLOCK FALSE
