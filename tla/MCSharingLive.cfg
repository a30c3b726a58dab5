CONSTANTS
  Phone = {A, B}
  Requesters = {A}
  Body = {}
  MaxSession = 1
  MaxHello = 1
  MaxMail = 1
  MaxEvents = 2
  Disturbances = {"media", "late", "storage"}
SPECIFICATION FairSpec
PROPERTIES
  RequestsEnd
  EndsTogether
CHECK_DEADLOCK FALSE
