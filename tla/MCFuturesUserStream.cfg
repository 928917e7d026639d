SPECIFICATION FairSpec
CONSTANTS
  MaxCalls = 4
  MaxFaults = 4
INVARIANTS
    NothingOrphaned
    WholeOrNothing
    KeysStopped
PROPERTIES
    EventuallyListening
    CloseEnds
CHECK_DEADLOCK FALSE
