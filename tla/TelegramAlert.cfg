SPECIFICATION FairSpec
CONSTANTS
  Alerts = {a1}
  Workers = {w1, w2}
  MaxVersion = 3
  MaxAttempts = 2
  Batch = 1
  MaxFaults = 1
INVARIANTS RowWellFormed ActiveIsUpToDate ConvergedUnlessOverlapped SingleMessageUnlessAmbiguous
PROPERTIES EditsOnlyTrackedMessage EventuallySettled
CHECK_DEADLOCK FALSE
