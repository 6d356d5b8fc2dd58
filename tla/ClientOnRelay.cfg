SPECIFICATION Spec
CONSTANTS
  me = me
  None = None
  p1 = p1
  r1 = r1
  reg = reg
  echo = echo
  Call = {1, 2}
  ClientQueue = 1
  EventIds = {0}
  PeerId = {p1}
  RouteId = {r1, reg, echo}
  Prefix <- MCPrefix
  ROUTE_REGISTRATION_ID = reg
  ECHO_ROUTE_ID = echo
  QueueCapacity = 1
  MaxFrames = 2
INVARIANT RequestAnswered
CHECK_DEADLOCK FALSE
