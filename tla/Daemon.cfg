CONSTANTS
  i1 = i1
  i2 = i2
  e1 = e1
  e2 = e2
  Ids <- OneRemote
  Endpoints = {e1, e2}
  NoEndpoint = NoEndpoint
  Reaches <- Moving
  MaxEvents = 1
  MaxFaults = 1
  MaxStarts = 1
SPECIFICATION FairSpec
CHECK_DEADLOCK FALSE
INVARIANTS
  AnswersHold ServedWhenSaved CleanupConfirmed
PROPERTIES
  TombstoneStays
  ChangesAnswered ShutdownEnds
