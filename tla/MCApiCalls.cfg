CONSTANTS
    Callers = {c1, c2}
    Clients = {"spot", "um", "cm"}
    Preset = {"um", "cm"}
    Numbers = {1, 20, 21, 50, 51, 100, 101, 500, 501, 1000, 1001}
    MaxFaults = 2
SPECIFICATION Spec
INVARIANTS
    ChargeCoversRequest
    SessionRefusalHeals
    TimestampRefusalHeals
PROPERTIES
    CallsEnd
    SessionReturns
