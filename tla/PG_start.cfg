SPECIFICATION ProgramsSpec
CONSTANTS
  NULL = NULL
  Configs <- Sources
  MaxGroup = 3
  MaxDeaths = 3
  MaxFailures = 1
  MaxSignals = 1
  Programs = {"timemaster", "ptp4l"}
INVARIANTS ScriptSound NoLostChild RightValue Consistent
PROPERTIES GroupsTogether Recovers
CHECK_DEADLOCK FALSE
