CONSTANTS
  i1 = i1
  i2 = i2
  e1 = e1
  e2 = e2
  Ids <- TwoRemotes
  Endpoints = {e1, e2}
  NoEndpoint = NoEndpoint
  Reaches <- OneMoves
  MaxEvents = 1
  MaxFaults = 0
  MaxStarts = 0
SPECIFICATION Spec
CHECK_DEADLOCK FALSE
INVARIANTS
  ActiveIsServed
