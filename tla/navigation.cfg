SPECIFICATION Spec
CONSTANTS
  A = A
  B = B
  C = C
  Local = {A}
  Unc = {B}
  WebDav = {C}
  Home = Home
  NoPlace = NoPlace
  NoListing = NoListing
  PerPlace = 2
  MaxRequests = 2
  QueueCap = 2
  Fresh = {}
  Listed = {A}
  Pasts <- SomePasts
  Gestures = {"open", "address", "refresh", "changes", "history", "search", "select"}
CHECK_DEADLOCK FALSE
INVARIANTS SelectionIsPicked LoadIsServed
PROPERTIES CommitsWhole LeavingKeepsPlaces
