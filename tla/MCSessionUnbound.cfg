\* A caller that is not bound starts again and has a new port.
CONSTANTS
  caller = caller
  listener = listener
  Peers = {caller, listener}
  Callers = {caller}
  Bindings <- MCCallerUnbound
  Strangers = {}
  MaxRestarts = 1
  None = None
SPECIFICATION FairSpec
PROPERTY MeasuresWhileRunning
CHECK_DEADLOCK FALSE
