CONSTANTS
  Commands = {e1, e2}
  Probe = Probe
  Check = Check
  MaxInterrupts = 2
  Faults = {"timeout", "ignored", "damage", "close", "late"}
  None = None
SPECIFICATION FairSpec
INVARIANTS OneLineAtATime CancelledIsGone OwnOutput BrokenForAReason
PROPERTIES ExecsEnd
CHECK_DEADLOCK FALSE
