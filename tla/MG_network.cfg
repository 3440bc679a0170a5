SPECIFICATION FairSpec
CONSTANTS
  NULL = NULL
  ALL = ALL
  Clocks = {"a", "b", "c"}
  NumPorts = 2
  Topologies <- MCTopologies
  Held <- MCHeld
  Pmcs = {"x"}
  Others = {"y"}
  Homes <- MCHomes
  PmcCommands <- MCPmcCommands
  Requests <- MCRequests
  Values = {0, 1}
  Initial = 0
  MaxRequests = 1
  MaxHops = 2
INVARIANTS
  SetsAreLocal
  AnsweredOnce
PROPERTIES
  FloodEnds
CHECK_DEADLOCK FALSE
