SPECIFICATION ClocksSpec
CONSTANTS
  NULL = NULL
  None = None
  Configs <- MCConfigs
  Day = 14
  Split = 3
  Offset = 37
  Errors = {0, 5}
  SetTimes = {6, 8}
  ClearTimes = {12, 14, 15}
  Horizon = 69
  MaxCrashes = 2
  MaxMasters = 4
  MaxLength = 4
  Samples <- MCDelays
  Candidates <- MCCandidates
  Offsets <- MCOffsets
  Intervals <- MCIntervals
  Frequencies <- MCFrequencies
  MaxCount = 4
  Grain = 12
  NS = 64000
  RandomBits = 2
  IntBits = 8
  LongBits = 24
  Subjects = {"leap second", "transparent", "selection", "filters", "statistics", "timers", "frequency"}
  MayFail = {"SYNC", "DELAY_REQ", "DELAY_RESP"}
INVARIANTS
  ClockRight
  LoopFindsBest
  FiltersRight
  TimersExact
  FrequencyFits
  RefsExact
  RightResidence
  WillBePruned
PROPERTIES
  RightOffset
  Settles
CHECK_DEADLOCK FALSE
