SPECIFICATION Spec
CONSTANTS
  Requests = {r1, r2, r3}
  Endpoints <- OverRest
  Pools <- SpotPools
  Limit <- SmallLimit
  Cap <- SmallCap
  Interval <- SmallInterval
  Shared = {"weight"}
  Bans = {1}
  MaxBans = 1
INVARIANTS
  ReadingsDecay
