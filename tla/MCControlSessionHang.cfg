CONSTANTS
  Phone = {A, B}
  Requesters = {A, B}
  Body = {m}
  MaxConn = 2
  MaxSession = 2
  MaxSequence = 0
  MaxTries = 0
  Disturbances = {"reset"}
SPECIFICATION FairSpec
PROPERTIES
  ConnectReturns
CHECK_DEADLOCK FALSE
