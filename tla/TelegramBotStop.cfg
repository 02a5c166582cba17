SPECIFICATION Spec
CONSTANTS
  Bots = {b1}
  None = None
  MaxUpdates = 1
  MaxRequests = 1
  MaxFaults = 0
INVARIANT StopHolds
CHECK_DEADLOCK FALSE
