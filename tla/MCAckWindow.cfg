\* Four slots hold three records: with six numbers the ring wraps round,
\* overwrites its oldest record and is emptied from both scan loops.
CONSTANTS
  SIZE = 4
  MaxAckNo = 6
  Times <- MCTimes
SPECIFICATION Spec
INVARIANTS TypeOK LiveRecordsFresh HoldsTheNewest
PROPERTY ImplementsQueue
