CONSTANTS
  Conns = {c1}
  MaxRequests = 1
  Requests = {"keep"}
  ExpireTicks = 1
SPECIFICATION Spec
PROPERTY ShutdownEndsConnection
CHECK_DEADLOCK FALSE
