SPECIFICATION FairSpec
CONSTANTS
  Last = 2
  MaxCrashes = 1
  MaxFaults = 1
  MaxStrangers = 1
  MaxRetries = 1
  EarlyDelete = FALSE
CHECK_DEADLOCK FALSE
INVARIANT PayloadTracked
PROPERTIES ErasesOnlyRecorded ReleasedAfterQueued
