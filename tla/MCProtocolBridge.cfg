SPECIFICATION Spec
CONSTANTS
  Hosts = {h1, h2}
  Streams = {s1, s2, s3}
  None = None
  MaxCalls = 2
SYMMETRY Symmetry
INVARIANTS
  NoStreamLeft
  AwaitedOnOpen
CHECK_DEADLOCK FALSE
