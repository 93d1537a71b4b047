CONSTANTS
  Conns = {c1, c2, c3}
  MaxFd = 3
  MaxLoops = 1
SPECIFICATION Spec
INVARIANTS
  EveryConnHasHandler
