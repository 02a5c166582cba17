SPECIFICATION Spec
CONSTANTS
  Providers = {"emsc", "kndc"}
  Reports <- FourReports
  PageLimit = 2
  None = None
  Subscriptions <- FourSubscriptions
  Farthest = 8
  SearchRounds = 4
  UpperMMI <- Intensities
  Surface <- Surfaces
  Backlogs <- NoneOrThree
  MaxChanges = 3
  MaxStatusSets = 1
INVARIANTS DecisionIsSafe ReachedIsTold NoRetrigger AlertMissesOnlyWhileDisabled
CHECK_DEADLOCK FALSE
