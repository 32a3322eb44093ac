CONSTANTS
  r1 = r1
  r2 = r2
  r3 = r3
  m1 = m1
  Id <- ThreeIds
  ControlMsg <- OneMessage
  NoId = NoId
  BrokerSide = FALSE
  ControlCapacity = 1
  FramesPerRequest = 2
  BytesPerRequest = 1
  FramesTotal = 3
  BytesTotal = 2
  MaxQueues = 2
  MaxFrames = 5
  MaxOpens = 2
  MaxControl = 1
SPECIFICATION Spec
SYMMETRY ThreeSymmetry
CHECK_DEADLOCK FALSE
INVARIANTS
  QueuesExact Bounded
PROPERTIES
  NoSilentGap
