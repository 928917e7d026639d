SPECIFICATION Spec
CONSTANTS
  Levels = {l1, l2}
  Chained = FALSE
  MayAbandon = TRUE
  Workers = 2
  QueueLimit = 2
  Lag = 1
  MaxId = 5
  MaxLosses = 1
  MaxFailures = 1
  MaxManual = 1
  MaxDeserted = 1
  Prices <- Numbers
  Below <- NumberBelow
  Quantities <- Amounts
  Zero = 0
INVARIANTS
    TypeOK
PROPERTIES
    InstallCoversBuffer
    KeepsPromise
SYMMETRY LevelSymmetry
CHECK_DEADLOCK FALSE
