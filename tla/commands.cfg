CONSTANTS
  Cmds = {c1, c2}
  Names = {h1}
  Openers = {o1, o2}
  Chatty = {c1}
  MaxChars = 3
  Limit = 2
  MaxCalls = 2
  MaxSignals = 1
  Faults = {}
  None = None
SPECIFICATION FairSpec
INVARIANTS TimeoutMeansStopped CutShortIsTimeout OutputIsTail LiveShellsAreReachable
PROPERTY TimedCommandsEnd
CHECK_DEADLOCK FALSE
