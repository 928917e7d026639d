SPECIFICATION FairSpec
CONSTANTS
  Requests = {r1, r2, r3}
  Endpoints <- Everything
  Pools <- SpotPools
  Limit <- SmallLimit
  Cap <- SmallCap
  Interval <- SmallInterval
  Shared = {"weight"}
  Bans = {1}
  MaxBans = 1
INVARIANTS
    ServerWithinLimit
    ChargedOnce
    NoOversleep
PROPERTIES
    AcquireEnds
