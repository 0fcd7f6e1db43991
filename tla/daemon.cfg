SPECIFICATION FairSpec
CONSTANTS
  Projects = {p1, p2}
  Requests = {b1, b2, b3}
  MaxSessions = 2
  None = None
INVARIANT WorkIsListed
PROPERTIES MaintenanceSparesBuilds OneIdOneProject UnusableReclaimed BuildsReleased
CHECK_DEADLOCK FALSE
