CONSTANTS
  Pages = {p1, p2}
  Streams = {s1, s2, s3}
  MaxCalls = 2
  None = None
  Faults = {}
SPECIFICATION FairSpec
INVARIANTS
  OrphansAwaitVerdict
  StreamBookkeeping
PROPERTIES
  NeverGivesUpOnAttached
  OrphansSettle
CHECK_DEADLOCK FALSE
