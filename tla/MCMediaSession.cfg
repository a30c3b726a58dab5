SPECIFICATION FairSpec
CONSTANTS
  A = A
  B = B
  Phone = {A, B}
  Sharer <- TakeTurns
  MaxSession = 2
  MaxRestarts = 2
  MaxFaults = 1
INVARIANTS
  CaptureIsOwned
  SettledIsQuiet
PROPERTIES
  CaptureStartsInSession
  
  VideoComes
CHECK_DEADLOCK FALSE
