CONSTANTS
    Markets = {"spot", "um", "cm"}
    Requests <- MCRequests
    Documented <- MCDocumented
    MaxCalls = 3
SPECIFICATION Spec
INVARIANTS
    DueReceive
    OnlyBookOverhears
    StreamsNamed
CHECK_DEADLOCK FALSE
