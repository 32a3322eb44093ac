CONSTANTS
  r1 = r1
  r2 = r2
  c1 = c1
  c2 = c2
  Id <- TwoIds
  Ctl = Ctl
  Owner = Owner
  Clone <- OneClone
  NoOne = NoOne
  ControlCapacity = 1
  NormalCapacity = 1
  ReservedCapacity = 2
  PayloadLimit = 2
  MaxFrames = 2
SPECIFICATION FairSpec
CHECK_DEADLOCK FALSE
INVARIANTS
  QueuesExact PayloadExact TakesTurns
PROPERTIES
  Implements WaitsEnd
