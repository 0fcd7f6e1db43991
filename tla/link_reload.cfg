CONSTANTS
  Pages = {p1, p2}
  Streams = {s1, s2}
  MaxCalls = 1
  None = None
  Faults = {"reload"}
SPECIFICATION FairSpec
PROPERTY
  OrphansSettle
CHECK_DEADLOCK FALSE
