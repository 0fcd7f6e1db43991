CONSTANTS
  Files = {f, g}
  MaxVersion = 3
  Builds = {b1, b2}
  Parts = {x}
  MaxEdits = 2
  Faults = {"concurrent", "goneWhileListing"}
  None = None
SPECIFICATION Spec
SYMMETRY Symmetry
INVARIANT
  BelievesTruly
CHECK_DEADLOCK FALSE
