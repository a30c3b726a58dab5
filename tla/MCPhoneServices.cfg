SPECIFICATION PartsSpec
CONSTANTS
  Pair = {a1, a2}
  NoPair = NoPair
  StorageFaults = TRUE
  Crashes = TRUE
  DeviceName = {d1, d2}
  MaxIds = 3
  MaxCalls = 2
  MaxChanges = 5
  MaxLog = 3
  MaxEvents = 4
  MaxWaiting = 3
  MaxWrites = 2
INVARIANTS
  MethodsAreAtomic
  LoadsSeeRealTrust
  IdentitiesAgree
  NoStaleNotification
  LogIsFaithful
PROPERTIES
  DeviceIdIsStable
  RequestIsShown
CHECK_DEADLOCK FALSE
