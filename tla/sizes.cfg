\* Three folders, two slots, a channel of two: a second round of queries meets
\* a full channel, as 24 and 32 do.
CONSTANTS
  Place       = {A}
  Folders     = 3
  SubmitLimit = 2
  QueueCap    = 2
  Unindexed   = {3}
  Windows     = {{1, 2}, {1, 2, 3}}
  MaxRequests = 2
  MaxScrolls  = 1
  MaxSorts    = 1
  Unknown     = Unknown
  TimedOut    = TimedOut
SPECIFICATION FairSpec
INVARIANTS SizeIsOwn QueryingIsUnderWay
PROPERTIES SortCommitsWhole SizesArrive
CHECK_DEADLOCK FALSE
