SPECIFICATION FairSpec
CONSTANTS
  NULL = NULL
  NPorts = 2
  ClockId <- Me
  Senders <- TwoSenders
  Hears <- HearOne
  Announces <- GoodAnnounce
  DefaultDSs <- Plain
  InitialDS <- PlainDS
  LocalPriority <- SameLocalPriority
  DelayMechanism <- AllE2E
  Jbod = {}
  MasterOnly = {}
  Hybrid = {}
  SlaveOnly = FALSE
  Telecom = FALSE
  SyncRxTimeout = FALSE
  AsapFaults = {}
  Faults = {"UNSPECIFIED"}
  LinkEvents = {}
  InitMayFail = FALSE
  SendMayFail = FALSE
  PhcMayFail = FALSE
INVARIANTS
  OneSlave
  CurrentMasterExists
PROPERTIES
  Progress
