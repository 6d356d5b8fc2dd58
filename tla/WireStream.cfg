SPECIFICATION Spec
CONSTANTS
  CipherSize = 3
  BufferSize = 2
  MaxFrames = 3
INVARIANTS FramesInOrder NothingLost
PROPERTIES EndSeen
