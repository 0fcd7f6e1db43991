CONSTANTS
  Files = {f, g}
  MaxVersion = 4
  Builds = {b1, b2}
  Parts = {x, y}
  MaxEdits = 2
  Faults = {"editDuringSync"}
  None = None
SPECIFICATION Spec
SYMMETRY Symmetry
INVARIANT
  NoStaleBuild
CHECK_DEADLOCK FALSE
