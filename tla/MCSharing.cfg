CONSTANTS
  Phone = {A, B}
  Requesters = {A, B}
  Body = {}
  MaxSession = 2
  MaxHello = 1
  MaxMail = 0
  MaxEvents = 1
  Disturbances = {"break", "crash", "late", "storage", "revoke"}
SPECIFICATION Spec
SYMMETRY Symmetry
INVARIANTS
  ViewerWasAdmitted
  SessionHasChannel
  RequestsAreTimed
CHECK_DEADLOCK FALSE
