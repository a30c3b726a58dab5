CONSTANTS
  Phone = {A, B}
  Requesters = {A, B}
  Body = {m}
  MaxConn = 2
  MaxSession = 2
  MaxSequence = 1
  MaxTries = 1
  Disturbances = {"reset", "crash", "unreachable"}
SPECIFICATION Spec
SYMMETRY Symmetry
INVARIANTS
  TypeOK
  HonestFramesAccepted
  EndsAgree
 
CHECK_DEADLOCK FALSE
