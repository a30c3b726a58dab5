CONSTANTS
  Phone = {A, B}
  Requesters = {A}
  Body = {m}
  MaxConn = 3
  MaxSession = 1
  MaxSequence = 1
  MaxTries = 1
  Disturbances = {"reset", "unreachable"}
SPECIFICATION FairSpec
INVARIANTS
  NoSilentLoss
PROPERTIES
  ConnectReturns
  ResumeEnds
  SlotFreed
CHECK_DEADLOCK FALSE
