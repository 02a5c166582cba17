SPECIFICATION Spec
CONSTANTS
  Ids = {1, 2}
  None = None
  Keys = {1, 2}
  MaxWrites = 1
  Limit = 1
  Conns = {c1}
  QueueCap = 1
  ClientCap = 1
  MaxFaults = 0
  ReadLists <- NotificationTabs
  StreamedIds = {}
  DetailIds = {}
INVARIANTS OwnCursorAccepted
CHECK_DEADLOCK FALSE
