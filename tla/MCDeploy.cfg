SPECIFICATION MCSpec
CONSTANTS
  Nodes = {net, vol, app}
  MaxDeps = 2
  Payloads <- MCPayloads
  Prefixed <- MCPrefixed
  Unmanaged <- MCUnmanaged
  MaxJobs = 3
  MaxOverlap = 2
  MaxFaults = 2
  MaxRestarts = 1
  MaxStarts = 2
  MaxStops = 1
  MaxPublished = 3
  MaxForced = 2
  MaxSyncFaults = 2
  Catalogue <- MCCatalogue
  CapVersion <- MCCapVersion
  Requests <- MCRequests
  Auto = {"mma"}
  MaxCalls = 1
  MaxBusy = 2
  MaxCapFaults = 1
CONSTRAINT JobsOrFaults
CHECK_DEADLOCK FALSE
INVARIANTS SortCorrect SuccessMeansConverged NoStrayChild
PROPERTIES JobsKeepToTheirOwn SupervisorAnswers RegistryFollows RecordsMatch
