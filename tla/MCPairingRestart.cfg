CONSTANTS
  Phone = {A, B}
  Pair = {a1}
  NoPair = NoPair
  NoPhone = NoPhone
  StorageFaults = FALSE
  Disturbances = {"crash", "revoke"}
SPECIFICATION Spec
INVARIANT RestartRepairs
CHECK_DEADLOCK FALSE
