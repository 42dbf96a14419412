SPECIFICATION FairSpec
CONSTANTS
  Last = 1
  MaxCrashes = 1
  MaxFaults = 0
  MaxStrangers = 0
  MaxRetries = 0
  EarlyDelete = FALSE
CHECK_DEADLOCK FALSE
PROPERTY RecoveredIsReleased
