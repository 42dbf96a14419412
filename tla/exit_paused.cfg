SPECIFICATION FairSpec
CONSTANTS
  NoOp = NoOp
  NoLane = NoLane
  MaxTasks = 1
  MaxRounds = 1
  MaxConflicts = 1
  MaxRecovered = 0
  UndoLimit = 1
  Submittable <- LocalCopies
  Retriable = {}
  UserActions = {"cancel", "pause", "exit"}
  Outcomes <- DoneOrLeft
  ShellAborts = FALSE
CHECK_DEADLOCK FALSE
PROPERTIES ExitHappens
