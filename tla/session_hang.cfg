CONSTANTS
  Files = {f, g}
  MaxVersion = 2
  Builds = {b1, b2}
  Parts = {x, y}
  MaxEdits = 0
  Faults = {"goneWhileListing"}
  None = None
SPECIFICATION FairSpec
PROPERTY
  BuildsEnd
CHECK_DEADLOCK FALSE
