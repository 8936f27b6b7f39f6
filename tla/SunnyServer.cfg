CONSTANTS
  Streams = {s1, s2, s3}
  Kinds = {"auth", "badAuth", "connect", "badConnect", "unknown", "silent"}
SPECIFICATION ServerSpec
INVARIANTS
  DialOnlyAuthenticated
PROPERTIES
  RequestsResolved
  UnauthenticatedIsClosed
CHECK_DEADLOCK FALSE
