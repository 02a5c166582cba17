SPECIFICATION FairSpec
CONSTANTS
  Relays = {r1, r2}
  Consumers = {c1, c2}
  None = None
  MaxVersion = 2
  Batch = 2
  MaxFaults = 2
  MaxLosses = 1
INVARIANTS AppliedAtMostOnce PublishedIsLogged AlertNewestIfLogInOrder
PROPERTIES FeedSpec GroupKeepsUp
CHECK_DEADLOCK FALSE
