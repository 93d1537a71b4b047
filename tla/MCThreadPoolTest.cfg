\* One worker and a queue of one: three tasks stand for the 102 of the test,
\* whose queue holds 100.
CONSTANTS
  Workers = {w1}
  Adders = {main_thread}
  NumTasks = 3
  MaxQueueSize = 1
SPECIFICATION TestSpec
PROPERTIES
  LatchReachesZero
CHECK_DEADLOCK FALSE
