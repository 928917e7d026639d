SPECIFICATION FairSpec
CONSTANTS
  Levels = {l1, l2}
  Chained = TRUE
  MayAbandon = FALSE
  Workers = 2
  QueueLimit = 2
  Lag = 0
  MaxId = 5
  MaxLosses = 0
  MaxFailures = 1
  MaxManual = 1
  MaxDeserted = 1
  Prices <- Numbers
  Below <- NumberBelow
  Quantities <- Amounts
  Zero = 0
INVARIANTS
    BookMatchesVenue
PROPERTIES
    EventuallyCurrent
CHECK_DEADLOCK FALSE
