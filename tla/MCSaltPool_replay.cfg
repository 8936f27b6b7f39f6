CONSTANTS
  s1 = s1
  s2 = s2
  s3 = s3
  x1 = x1
  x2 = x2
  Sessions = {s1, s2, s3}
  Salts = {x1, x2}
  Messages <- ReplayMessages
  RetainDuration = 4
  MaxUnixTimeDiff = 1
  TicksPerSecond = 2
  MaxInt64 = 11
  MaxTime = 11
SYMMETRY SessionSymmetry
SPECIFICATION Spec
INVARIANTS
  TypeOK
  NoReplayWithinRetain
  ReplayOnlyAtWindowEdge
  StoredSinceAdmission
PROPERTY StaleEntriesBounded
CHECK_DEADLOCK FALSE
