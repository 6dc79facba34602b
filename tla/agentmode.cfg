SPECIFICATION FairSpec
CONSTANTS
  e1 = e1
  e2 = e2
  e3 = e3
  e4 = e4
  o1 = o1
  o2 = o2
  Executions <- ThreeExecutions
  Organizations <- TwoOrganizations
  OrgOf <- Owner
  AllLimit = 2
  OrgLimit <- Limits
  Booked <- OneBooked
  Settings <- MixedAgents
  Wavering <- Second
  RestartMax = 1
PROPERTIES EverythingIsStarted EverythingEnds
CHECK_DEADLOCK FALSE
