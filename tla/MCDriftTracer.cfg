\* A span of three samples, corrections of 3, and clocks that drift by up to 2
\* in a span: start offsets inside and outside the tolerance, and a remote that
\* starts again once.
CONSTANTS
  MAX_SPAN = 3
  MAX_DRIFT = 3
  Jitter = 1
  Rate = 2
  StartOffsets <- MCStartOffsets
  Jumps <- MCJumps
  MaxRestarts = 1
SPECIFICATION FairSpec
INVARIANTS TypeOK OffsetBounded
PROPERTIES NoOvershoot Settles
