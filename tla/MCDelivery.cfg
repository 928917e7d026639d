SPECIFICATION Spec
CONSTANTS
  Symbols = {s1}
  MaxMessages = 5
  MaxSockets = 2
  QueueLimit = 1
  Workers = 2
  Callers = {"client", "callback"}
INVARIANTS
    UpdatesExclude
    QuietAfterClose
PROPERTIES
    EveryGapIsRepaired
    EveryMessageSettles
    CloseReturns
CHECK_DEADLOCK FALSE
