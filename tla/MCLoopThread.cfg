CONSTANTS
  LoopThreads = {l1, l2}
  PlainThreads = {p1, p2}
  MaxFailures = 1
  NoThread = NoThread
SPECIFICATION Spec
INVARIANTS
  TypeOK
  TidKnownAfterStart
  ObjectOutlivesThread
  ReturnedLoopsAreLive
PROPERTIES
  StartReturns
  EndReturns
CHECK_DEADLOCK FALSE
