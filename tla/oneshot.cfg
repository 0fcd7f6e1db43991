CONSTANTS
  Str <- MCStr
  Num = {0, 1, 2}
  Undefined = Undefined
  OtherNames = {"bun"}
  Majors = {8, 9}
  NoManager = NoManager
  Files = {f1, f2, f3}
  Binary = {f2}
  InNewDir = {f3}
  MaxEdits = 2
  NoRead = NoRead
  Commands = {"build", "install", "dev", "daemon"}
  ProjectsTried <- MCProjects
  Shipped <- MCShipped
  Interrupts = {i1, i2}
  ViewersStay = FALSE
  None = None
SPECIFICATION FairSpec
INVARIANTS ExitCodeIsTruthful FailedBuildKeepsOutput BuildsAsDeclared RuntimeMirrorsDisk
PROPERTY InterruptEnds
CHECK_DEADLOCK FALSE
