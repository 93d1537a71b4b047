CONSTANTS
  Conns = {c1, c2}
  MaxRequests = 3
  Requests = {"first", "last"}
  ExpireTicks = 1
SPECIFICATION Spec
SYMMETRY Symmetry
INVARIANTS
  TypeOK
  KeepAliveNodes
  ListInExpiryOrder
  NoLostInput
  NoStuckOutput
  ClosingHasOutput
  ActiveConnectionsExpire
PROPERTY KeepAliveRefinement
CHECK_DEADLOCK FALSE
