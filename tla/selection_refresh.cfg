SPECIFICATION Spec
CONSTANTS
  A = A
  B = B
  C = C
  Local = {A}
  Unc = {B}
  WebDav = {}
  Home = Home
  NoPlace = NoPlace
  NoListing = NoListing
  PerPlace = 2
  MaxRequests = 1
  QueueCap = 1
  Fresh = {}
  Listed = {A}
  Pasts <- SomePasts
  Gestures = {"refresh", "select"}
CHECK_DEADLOCK FALSE
INVARIANT SelectionIsAlwaysPicked
