SPECIFICATION FairSpec
CONSTANTS
  Callers = {c1, c2}
  Hooked = TRUE
  MayAbandon = TRUE
  MayCancel = TRUE
  MaxSockets = 2
INVARIANTS
    AnswerMatches
    RegistryIsExact
PROPERTIES
    ActsAsConnection
    SendEndsUnlessAbandoned
    CloseEnds
CHECK_DEADLOCK FALSE
