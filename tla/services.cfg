SPECIFICATION Spec
CONSTANTS
  Graphs <- AllGraphs
  MaxTroubles = 1
  Filters = {"f", "g"}
  SingleFilters = {"f"}
  RuleSets <- AllRules
  LoopLimit = 1
  MaxArrivals = 2
  Happenings = {"p", "q"}
  Acting = {"p"}
  MaxFaults = 2
  BufferSize = 2
  Messages = {1, 2}
  LastSecond = 3
  MaxMishaps = 2
  LastHost = 2
  KeptFetches = 1
  Users = {"u", "v"}
  Tables <- AllTables
  Records = {"r", "s"}
  Columns = {"a", "b"}
  Values = {"k", "l"}
  Requests <- AllRequests
  MaxTime = 3
  Executions = {"d", "e"}
  Workspaces = {"w"}
  WorkspaceOf <- OneWorkspace
  RunModes <- AllModes
  MaxDeaths = 1
  MaxLosses = 2
INVARIANTS NothingLeftRunning OrderKept EventUsedOnce StartedOnce ConclusionIsEarned NothingHeldBack NothingLost CollectedOnce OneAtWork NothingRunsOn EndIsTrue
PROPERTIES WellEndedIsFinal ConductorSettles JudgedOnce JudgementEnds RowsEnd EventsArrive NoUpdateLost UniqueKept SettledKept TakenUpEnds StoppedEnds ContainerKeepsLifecycle
CHECK_DEADLOCK FALSE
