CONSTANTS
  Conns = {c1}
  MaxRequests = 2
  Requests = {"keep", "missing"}
  ExpireTicks = 1
SPECIFICATION Spec
PROPERTY AnsweredBeforeClose
CHECK_DEADLOCK FALSE
