CONSTANTS
  Files = {f, g}
  MaxVersion = 2
  Builds = {b1, b2}
  Parts = {x, y}
  MaxEdits = 0
  Faults = {"concurrent"}
  None = None
SPECIFICATION Spec
SYMMETRY Symmetry
INVARIANT
  OwnArtifacts
CHECK_DEADLOCK FALSE
