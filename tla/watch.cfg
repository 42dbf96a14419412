SPECIFICATION Spec
CONSTANTS
  Tabs = {t1}
  Name = {a, b}
  Present = {a}
  Ops = {o1, o2}
  NoWatch = NoWatch
  MaxChanges = 3
  MaxRequests = 2
  Hazards = {"error", "overflow", "leave", "search", "rename", "copy", "delete"}
CHECK_DEADLOCK FALSE
INVARIANTS QuietIsFresh
