CONSTANTS
  Conns = {c1, c2, c3}
  MaxFd = 3
  MaxLoops = 2
SPECIFICATION Spec
INVARIANTS
  TypeOK
  IdleFdIsOurs
  IdleFdKept
  OneIdleFd
  RoundRobin
  NoStrandedBacklog
PROPERTIES
  BacklogServed
  AcceptorReturns
