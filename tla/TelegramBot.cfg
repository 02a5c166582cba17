SPECIFICATION FairSpec
CONSTANTS
  Bots = {b1, b2}
  None = None
  MaxUpdates = 2
  MaxRequests = 1
  MaxFaults = 1
INVARIANTS NoUpdateSkipped SettingsFollowUpdates ActiveIsConfigured
PROPERTY EveryUpdateHandled
CHECK_DEADLOCK FALSE
