SPECIFICATION Spec
CONSTANTS
  Terminals = {"t1"}
  MaxServers = 2
  MaxKeys = 2
  MaxObEvents = 5
  Users = {"u1"}
  MaxAgents = 2
  MaxLnEvents = 4
  MaxEvents = 3
  Confs <- Sections
  MaxCsEvents = 3
  MaxEntries = 1
  MaxRPCs = 2
  MaxChunks = 2
  Members = {"a", "b"}
  MaxLaEvents = 4
CHECK_DEADLOCK FALSE
PROPERTIES   InstalledIntact  StopCompletes AnnouncerIsLeader
