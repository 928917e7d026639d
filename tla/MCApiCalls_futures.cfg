CONSTANTS
    Callers = {c1}
    Clients = {"um", "cm"}
    Preset = {}
    Numbers = {100}
    MaxFaults = 0
SPECIFICATION Spec
INVARIANT GetServerTimeInstalled
