\* Two tags that come and go, three seconds; sends block at times.
SPECIFICATION FairInventorySpec
CONSTANTS
  tagA = tagA
  tagB = tagB
  Tags <- MCTags
  MaxTags = 2
  DbCap = 2
  MaxTime = 3
INVARIANTS LatestReadingIsWhole LatestLogCounts
PROPERTY StopEndsInventory
CHECK_DEADLOCK FALSE
