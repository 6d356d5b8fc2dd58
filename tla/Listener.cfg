SPECIFICATION Spec
CONSTANTS
  Conn = {k1, k2, k3, k4}
  None = None
  MaxConnections = 2
INVARIANT PermitsAccounted
INVARIANT RefusedOnlyAtShutdown
PROPERTY ShutdownStops
PROPERTY WaitsOnlyBehindSessions
