SPECIFICATION ProgramsSpec
CONSTANTS
  NULL = NULL
  Configs <- Sources
  MaxGroup = 3
  MaxDeaths = 3
  MaxFailures = 1
  MaxSignals = 1
  Programs = {"timemaster"}
PROPERTIES ExitsOnLoss
CHECK_DEADLOCK FALSE
