SPECIFICATION Spec
CONSTANTS
  Base = 16
  U16 = 2
  U32 = 1
  U64 = 1
  IdSize = 2
  SidSize = 1
  MaxPayloadSize = 15
  InvalidByte = 4
  Panic = Panic
  MaxLen = 7
  RawBytes = {0, 1, 4}
  MaxBody = 4
  RawCodes <- Codes
  ByteBits = 4
  CharBits = 3
  HexBase = 4
  Pad = 8
  Space = 9
  KeyLen = 5
  KeyBytes = {0, 6, 15}
  RandomLen = 3
  MaxClientHello = 90
  Upper = 11
  Lower = 12
  Dot = 13
  Filler = 14
  Tokens <- TokenValues
  Hosts <- HostNames
INVARIANTS RoundTrip NoPanic ForwardFits HelloAdmitted HelloFraming
