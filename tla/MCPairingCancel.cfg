CONSTANTS
  Phone = {A, B}
  Pair = {a1}
  NoPair = NoPair
  NoPhone = NoPhone
  StorageFaults = FALSE
  Disturbances = {"cancel"}
SPECIFICATION Spec
INVARIANT CancelClearsBoth
CHECK_DEADLOCK FALSE
