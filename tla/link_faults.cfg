CONSTANTS
  Pages = {p1, p2}
  Streams = {s1, s2}
  MaxCalls = 2
  None = None
  Faults = {"reload", "secondTab", "lossyDrop", "lostPost", "longSleep", "latePost", "slowBoot", "slowHello"}
SPECIFICATION Spec
SYMMETRY Symmetry
PROPERTY ImplementsLedger
CHECK_DEADLOCK FALSE
