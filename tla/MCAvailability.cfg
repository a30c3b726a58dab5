SPECIFICATION FairSpec
CONSTANTS
  Name = {n1}
  Port = {p1, p2}
  Host = {h1, h2}
  LocalPort = {l1, l2}
  NoName = NoName
  NoPort = NoPort
  NoHost = NoHost
  Disturbances = {"lost", "partner", "revoke", "listener", "native", "error", "connect", "retry"}
  MaxPairs = 1
  MaxQueue = 1
  MaxProbes = 2
  MaxTurns = 1
INVARIANTS
  AvailableIsReal
  NewestAnswerCounts
  
PROPERTIES
  DeadEndpointIsWithdrawn
  
CHECK_DEADLOCK FALSE
