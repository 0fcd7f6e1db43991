CONSTANTS
  Pages = {p1, p2}
  Streams = {s1, s2, s3}
  MaxCalls = 1
  None = None
  Faults = {"secondTab"}
SPECIFICATION Spec
SYMMETRY Symmetry
INVARIANT
  ConnectedMeansOpen
CHECK_DEADLOCK FALSE
