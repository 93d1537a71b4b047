CONSTANTS
  Conns = {c1}
  MaxRequests = 2
  Requests = {"old", "missing", "bad", "first", "last", "cut", "rest"}
  ExpireTicks = 2
SPECIFICATION Spec
INVARIANT ParsesWholeHeaders
PROPERTIES
  ResetEndsConnection
  ResponsesAreSent
  IdleConnectionsExpire
CHECK_DEADLOCK FALSE
