SPECIFICATION FairTransfer
CONSTANTS
  MaxPauses = 1
  Name = {f, g}
  MaxFaults = 1
  MaxChanges = 1
  QueueCap = 1
CHECK_DEADLOCK FALSE
INVARIANT OutcomeTrue
PROPERTIES NothingLost StillWhilePaused WorkerLeaves
