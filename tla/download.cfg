SPECIFICATION FairSpec
CONSTANTS
  Sizes <- TwoStreams
  Slots = 2
  MaxVersions = 2
  MaxFaults = 2
  MaxPauses = 1
CHECK_DEADLOCK FALSE
INVARIANTS BlocksInPlace CopiedIsWhole
PROPERTIES PausedWritesNothing CancelEnds ServedCopyEnds
