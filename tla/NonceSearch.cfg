SPECIFICATION Spec
CONSTANTS
  Threads = 2
  RangeStart = 3
  RangeEnd = 12
  NoncesPerThread = 4
  ChunksPerThread = 5
  MinChunk = 3
  MaxChunk = 4
  CheckEvery = 2
  MIN_DIFF = 8
  Worths <- MC_Worths
CHECK_DEADLOCK FALSE
INVARIANTS
  RangeIsSharedOut
  BestIsReturned
  CutoffIsKept
