CONSTANTS
  Files = {f, g}
  MaxVersion = 3
  Builds = {b1, b2}
  Parts = {x, y}
  MaxEdits = 2
  Faults = {}
  None = None
SPECIFICATION FairSpec
INVARIANTS
  NoStaleBuild
  OwnArtifacts
  BelievesTruly
PROPERTY
  BuildsEnd
CHECK_DEADLOCK FALSE
