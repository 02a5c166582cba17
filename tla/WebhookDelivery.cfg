SPECIFICATION FairSpec
CONSTANTS
  Deliveries = {d1}
  Workers = {w1, w2}
  MaxAttempts = 2
  Batch = 1
  MaxFaults = 2
  MaxRetries = 1
INVARIANTS OutcomeIsTrue DeadOnlyAfterMaxAttempts NoMoreCallsThanAllowed
PROPERTIES OnlyOverlapsUndo EventuallySettled AlertsGetTheirTurn
