CONSTANTS
  Str <- MCStr
  Num = {0, 1, 2}
  Undefined = Undefined
  OtherNames = {"bun"}
  Majors = {8, 9}
  NoManager = NoManager
  Files = {f1, f2, f3}
  Binary = {f2}
  InNewDir = {f3}
  MaxEdits = 0
  NoRead = NoRead
  Commands = {"dev"}
  ProjectsTried <- MCProjects
  Shipped <- MCShipped
  Interrupts = {i1}
  ViewersStay = TRUE
  None = None
SPECIFICATION FairSpec
PROPERTY InterruptEnds
CHECK_DEADLOCK FALSE
