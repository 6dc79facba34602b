SPECIFICATION Spec
CONSTANTS
  e1 = e1
  e2 = e2
  e3 = e3
  e4 = e4
  o1 = o1
  o2 = o2
  Executions <- FourExecutions
  Organizations <- TwoOrganizations
  OrgOf <- Owner
  AllLimit = 2
  OrgLimit <- BothLimited
  Booked <- OneBooked
  Settings <- Mixed
  Wavering <- Second
  RestartMax = 1
INVARIANTS TypeOK ContainersKeepLimits PassCountsAll FullComeLast
PROPERTIES CancelledIsNotStarted
CHECK_DEADLOCK FALSE
