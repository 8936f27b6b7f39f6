CONSTANTS
  Callers = {k1, k2, k3}
  MaxConns = 2
  MaxStreams = 2
SPECIFICATION Spec
INVARIANTS
  HandedOutAuthenticated
  OneLiveConn
PROPERTY EveryCallReturns
CHECK_DEADLOCK FALSE
