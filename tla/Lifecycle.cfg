CONSTANTS
  p1 = p1
  p2 = p2
  d1 = d1
  d2 = d2
  Proc <- TwoProcesses
  NoProc = NoProc
  Platform = {"linux", "mac"}
  ProcOn <- OnePerMac
  MaxVersion <- Versions
  MaxOutages = 1
  Slot <- TwoSlots
  NoSlot = NoSlot
  ProtocolChange = 2
  MaxCommands = 1
  MaxChanges = 1
  MaxFaults = 1
SPECIFICATION FairSpec
CHECK_DEADLOCK FALSE
INVARIANTS
  TargetWhole ReportTrue AckedSurvives StopSticks
PROPERTIES
  NoDowngrade CommitWhenStopped KeepsServing
