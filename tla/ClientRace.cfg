SPECIFICATION Spec
CONSTANTS
  Call = {1}
  QueueCapacity = 1
  EventIds = {0, 1}
  MaxMessages = 1
INVARIANT ResponseNotMissed
