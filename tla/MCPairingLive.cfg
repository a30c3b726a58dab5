CONSTANTS
  Phone = {A, B}
  Pair = {a1, a2}
  NoPair = NoPair
  NoPhone = NoPhone
  StorageFaults = FALSE
  Disturbances = {"link", "cancel", "expiry", "revoke"}
SPECIFICATION FairSpec
PROPERTIES
  ConvergedCompletes
  AttemptsEnd
  OrphanSocketsClose
CHECK_DEADLOCK FALSE
