CONSTANTS
  Workers = {w1, w2}
  Adders = {a1, a2}
  NumTasks = 3
  MaxQueueSize = 1
SPECIFICATION Spec
INVARIANTS
  TypeOK
  AwakeForEachTask
  AtMostOneEachAfterStop
PROPERTIES
  TasksRun
  StopReturns
  TaskQueueRefinement
CHECK_DEADLOCK FALSE
