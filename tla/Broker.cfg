CONSTANTS
  r1 = r1
  r2 = r2
  Id <- OneId
  NoId = NoId
  MaxRoutes = 1
  ResponseCapacity = 2
  MaxOpens = 1
  MaxOutput = 3
  MaxSize = 1
SPECIFICATION ShimFairSpec
CHECK_DEADLOCK FALSE
INVARIANTS
  RoutesExact ShimTrue ToldWhy
PROPERTIES
  StreamKept GoneIsCancelled TeardownEnds ShimEnds
