SPECIFICATION FairSpec
CONSTANTS
  p1 = p1
  p2 = p2
  a = a
  b = b
  c = c
  WsApi = WsApi
  User = User
  Callers = {c1}
  Paths = {p1, p2}
  Route <- MCRoute
  Args <- MCArgs
  MaxStreams = 1
  MaxCalls = 2
  MaxFaults = 2
INVARIANTS
    RecordsAgree
    NoGhost
    ReservationsExact
PROPERTIES
    UsesConnections
    EventuallyExact
    CallsEnd
CHECK_DEADLOCK FALSE
