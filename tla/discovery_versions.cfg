CONSTANTS
  Clients = {c1, c2}
  Daemons = {d1, d2, d3, d4}
  Old = {d1, d2}
  OldClients = {c2}
  Faults = {}
  None = None
SPECIFICATION Spec
INVARIANTS NoSupersededDaemon
CHECK_DEADLOCK FALSE
