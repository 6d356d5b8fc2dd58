SPECIFICATION Spec
CONSTANTS
  k1 = k1
  k2 = k2
  Conn = {k1, k2}
  None = None
  QueueCapacity = 2
  Offer <- OneBusy
INVARIANT AnswersExact
INVARIANT MappingLive
PROPERTY FramesDispatched
PROPERTY SessionCloses
CHECK_DEADLOCK FALSE
