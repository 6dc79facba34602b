SPECIFICATION Spec
CONSTANTS
  e1 = e1
  e2 = e2
  e3 = e3
  e4 = e4
  o1 = o1
  o2 = o2
  Executions <- FourExecutions
  Organizations <- TwoOrganizations
  OrgOf <- Owner
  AllLimit = 2
  OrgLimit <- Limits
  Booked <- OneBooked
  Settings <- Agents
  Wavering <- Nobody
  RestartMax = 1
INVARIANTS AllLimitKept
