SPECIFICATION Spec
CONSTANTS
  e1 = e1
  e2 = e2
  e3 = e3
  a1 = a1
  a2 = a2
  Executions <- OneExecution
  CheckOnly <- NoCheckOnly
  Agents <- TwoAgents
  Driver <- SameDriver
  NoExecution = NoExecution
  NoWork = NoWork
  RestartMax = 1
  SystemLimit = 2
  OrgLimit = 0
  ExecutionLimit = 1
  MovementLimit = 1
  ApiTries = 1
  MaxCalls = 2
  Events = {}
INVARIANTS AtMostOneAgent
