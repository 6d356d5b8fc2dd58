SPECIFICATION Spec
CONSTANTS
  Proc = {p1, p2, p3}
  Configured = {c1}
  InitialKey <- EitherStart
  opkey = opkey
  Absent = Absent
  Empty = Empty
  None = None
  Concurrency = 2
  MaxFaults = 2
SYMMETRY Invocations
INVARIANTS KeyStable PublishedInSync
PROPERTIES TokenKept RestartHeals
