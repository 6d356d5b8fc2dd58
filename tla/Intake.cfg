SPECIFICATION Spec
CONSTANTS
  HeaderLen = 2
  FirstRead = 4
  MaxHello = 6
  NoiseLen = 2
  MaxTotal = 9
  Clients <- AllClients
INVARIANT BufferBounded
INVARIANT NoiseGetsTheRest
INVARIANT FallbackGetsAll
INVARIANT OnlyAdmitted
INVARIANT SegmentationIrrelevant
PROPERTY IntakeEnds
