CONSTANTS
  Callers = {k1, k2, k3}
  MaxConns = 2
  MaxStreams = 2
SPECIFICATION Spec
INVARIANTS
  PaddingAgrees
  SlotsAccountedFor
  NoConnLeftBehind
PROPERTY EveryCallReturns
CHECK_DEADLOCK FALSE
