CONSTANTS
  Files = {f, g}
  MaxVersion = 3
  Builds = {b1, b2}
  Parts = {x, y}
  MaxEdits = 2
  Faults = {"concurrent", "editDuringSync", "goneWhileListing"}
  None = None
SPECIFICATION Spec
SYMMETRY Symmetry
INVARIANT
  OutputOnlyInFlight
PROPERTY
  NoneAdmittedToDirty
CHECK_DEADLOCK FALSE
