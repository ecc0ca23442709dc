SPECIFICATION Spec
CONSTANTS
  Protos = {p1, p2}
  Hosts = {h1, h2}
  Streams = {s1, s2, s3}
  Cap = 1
  MaxStops = 1
  None = None
INVARIANTS
  DropsOnlyFreed
SYMMETRY Symmetry
