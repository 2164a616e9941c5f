\* An int of 10 bits and a size_t of 14 wrap the way 32 and 64 bits do.
CONSTANTS
  IntMod = 1024
  SizeMod = 16384
  Samples <- MCSamples
SPECIFICATION FairSpec
INVARIANTS TypeOK RttWithinSamples VarWithinSpread
PROPERTY Tracks
