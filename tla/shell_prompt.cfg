CONSTANTS
  Commands = {e1, e2}
  Probe = Probe
  Check = Check
  MaxInterrupts = 2
  Faults = {"late"}
  None = None
SPECIFICATION Spec
INVARIANTS PromptAwaited
CHECK_DEADLOCK FALSE
