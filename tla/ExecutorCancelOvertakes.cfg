CONSTANTS
  r1 = r1
  r2 = r2
  m1 = m1
  Id <- OneId
  ControlMsg <- OneMessage
  NoId = NoId
  BrokerSide = FALSE
  ControlCapacity = 1
  FramesPerRequest = 2
  BytesPerRequest = 1
  FramesTotal = 3
  BytesTotal = 2
  MaxQueues = 2
  MaxRoutes = 1
  InputCapacity = 1
  MaxFrames = 4
  MaxOpens = 1
  MaxProbes = 0
SPECIFICATION Spec
CHECK_DEADLOCK FALSE
INVARIANTS
  CancelTakesEffect
