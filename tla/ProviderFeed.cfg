SPECIFICATION FairSpec
CONSTANTS
  Providers = {"usgs", "emsc"}
  Lookback <- FeedLookback
  RecoverAfter = 1
  Overlap = 1
  Chunk = 2
  MaxTime = 5
  MaxReports = 2
  MaxFaults = 1
INVARIANTS NothingHidden NotModifiedIsPublished BaselineOnlyOnce
PROPERTY EveryReportPublished
