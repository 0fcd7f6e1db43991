CONSTANTS
  Clients = {c1, c2}
  Daemons = {d1, d2, d3, d4}
  Old = {d1}
  OldClients = {}
  Faults = {"crash", "signal", "stopCommand", "idle", "quietBuild", "oneShot", "leftover"}
  None = None
SPECIFICATION FairSpec
INVARIANTS OwnAdvertisement NoSupersededDaemon FailsForAReason
PROPERTIES OrphansStop ClientsEnd
CHECK_DEADLOCK FALSE
