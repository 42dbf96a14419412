SPECIFICATION FairSpec
CONSTANTS
  NoOp = NoOp
  NoLane = NoLane
  MaxTasks = 2
  MaxRounds = 1
  MaxConflicts = 1
  MaxRecovered = 0
  UndoLimit = 1
  Submittable <- LocalAndNetwork
  Retriable = {}
  UserActions = {"cancel", "undo", "exit"}
  Outcomes <- DoneOrLeft
  ShellAborts = FALSE
CHECK_DEADLOCK FALSE
INVARIANTS TypeOK UndoOwnedByTask UndoBounded
PROPERTIES ImplementsContract OperationSettles ExitHappens
