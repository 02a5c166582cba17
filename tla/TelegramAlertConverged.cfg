SPECIFICATION Spec
CONSTANTS
  Alerts = {a1}
  Workers = {w1, w2}
  MaxVersion = 3
  MaxAttempts = 2
  Batch = 2
  MaxFaults = 0
INVARIANT Converged
CHECK_DEADLOCK FALSE
