SPECIFICATION FairSpec
CONSTANTS
  MaxPauses = 1
  MaxItems = 2
  MaxFaults = 1
CHECK_DEADLOCK FALSE
INVARIANTS ConfirmedMeansStopped ReplacedOnlyWhenTold NothingLeftBehind
PROPERTIES CancelEnds ResumeReaches
