SPECIFICATION Spec
CONSTANTS
  c1 = c1
  c2 = c2
  c3 = c3
  p1 = p1
  p2 = p2
  p3 = p3
  r1 = r1
  r2 = r2
  reg = reg
  echo = echo
  None = None
  Conn = {c1, c2, c3}
  PeerId = {p1, p2, p3}
  RouteId <- MCRouteId
  Prefix <- MCPrefix
  ROUTE_REGISTRATION_ID = reg
  ECHO_ROUTE_ID = echo
  QueueCapacity = 1
  MaxFrames <- ExchangeFrames
  Offer <- ExchangeOffer
INVARIANT IndicesAgree
INVARIANT CleanExitUnregisters
INVARIANT NoMisdelivery
INVARIANT InOrderOnce
PROPERTY LiveRouteKept
