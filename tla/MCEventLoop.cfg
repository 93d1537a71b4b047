CONSTANTS
  Producers = {p1, p2}
  LoopThread = loop
  Functors = {f1, f2, f3}
  NoThread = NoThread
  NoFunctor = NoFunctor
SPECIFICATION Spec
INVARIANTS
  TypeOK
  MutualExclusion
  NoLostWakeup
  NoLostQuit
  FifoExactlyOnce
PROPERTIES
  EveryFunctorRuns
  QuitEndsLoop
  MailboxRefinement
CHECK_DEADLOCK FALSE
