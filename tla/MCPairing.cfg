CONSTANTS
  Phone = {A, B}
  Pair = {a1, a2}
  NoPair = NoPair
  NoPhone = NoPhone
  StorageFaults = TRUE
  Disturbances = {"link", "crash", "cancel", "expiry", "revoke"}
SPECIFICATION Spec
SYMMETRY Symmetry
INVARIANTS
  MaterialNeedsBothUsers
  SecretBelongsToMetadata
  ConfirmationOrder
  ScreenMatchesTrust
  FramesArriveInPhase
PROPERTIES
  TrustOutlivesOtherAttempts
  ImplementsAgreement
CHECK_DEADLOCK FALSE
