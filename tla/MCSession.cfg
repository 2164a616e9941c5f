\* One peer listens; the other is bound or not; each may crash or stop, and start
\* again once.  A stranger sends ACKs, too.  Both may have stopped for good.
CONSTANTS
  caller = caller
  listener = listener
  Peers = {caller, listener}
  Callers = {caller}
  Bindings <- MCBindings
  Strangers = {stranger}
  MaxRestarts = 1
  None = None
SPECIFICATION FairSpec
INVARIANTS SessionTypeOK SendsToTheRemote
PROPERTIES KeepsMeasuring StopsWhenServed StopsWhenThrew
CHECK_DEADLOCK FALSE
