SPECIFICATION Spec
CONSTANTS
  Call = {1, 2, 3}
  QueueCapacity = 1
  EventIds = {1}
  MaxMessages = 3
INVARIANT OwnAnswer
INVARIANT PendingAccounted
INVARIANT NoEventSkipped
PROPERTY CallReturns
PROPERTY DisconnectStops
PROPERTY EchoWritten
