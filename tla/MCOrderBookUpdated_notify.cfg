SPECIFICATION FairSpecUpdated
CONSTANTS
  Levels = {l1}
  Chained = FALSE
  MayAbandon = TRUE
  Workers = 2
  QueueLimit = 2
  Lag = 0
  MaxId = 4
  MaxLosses = 0
  MaxFailures = 1
  MaxManual = 1
  MaxDeserted = 1
  Waiters = {w1, w2}
  MaxCancels = 1
INVARIANTS
    UpdatedMeansInstalled
PROPERTIES
    WaiterIsNotified
CHECK_DEADLOCK FALSE
