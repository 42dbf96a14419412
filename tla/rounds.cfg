SPECIFICATION Spec
CONSTANTS
  NoOp = NoOp
  NoLane = NoLane
  MaxTasks = 2
  MaxRounds = 2
  MaxConflicts = 0
  MaxRecovered = 1
  UndoLimit = 1
  Submittable <- LocalDeletes
  Retriable = {"RecycleDelete"}
  UserActions = {"rename", "cancel", "pause", "exit"}
  Outcomes <- MixedOrLeft
  ShellAborts = TRUE
CHECK_DEADLOCK FALSE
INVARIANTS ManagerConsistent ExecutionHoldsSlot NoIdleLaneWithWork QuitWhenQuiet CompletedUnlessAborted
PROPERTIES SettledUntilRetried CancelledPreparationStaysOut CompletionSettlesTask
