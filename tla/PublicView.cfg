SPECIFICATION FairSpec
CONSTANTS
  Ids = {1, 2, 3}
  None = None
  Keys = {1, 2}
  MaxWrites = 2
  Limit = 1
  Conns = {c1}
  QueueCap = 1
  ClientCap = 1
  MaxFaults = 1
  ReadLists <- EveryKindOfList
  StreamedIds = {1, 2}
  DetailIds = {1}
INVARIANTS ViewIsCurrent WalkIsExact  NoSecondClose
PROPERTIES ClientCatchesUp ReaperGetsThrough
CHECK_DEADLOCK FALSE
