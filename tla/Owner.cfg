CONSTANTS
  b1 = b1
  b2 = b2
  b3 = b3
  Broker <- Three
  OwnerOf <- Reconnecting
  NoBroker = NoBroker
SPECIFICATION FairSpec
CHECK_DEADLOCK FALSE
INVARIANTS
  OneBroker SocketsInPlace
PROPERTIES
  DecidedByProbe ClaimSettles
