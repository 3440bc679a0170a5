SPECIFICATION Spec
CONSTANTS
  NULL = NULL
  NPorts = 1
  ClockId <- Me
  Senders <- TwoSenders
  Hears <- HearAll
  Announces <- LimitAnnounces
  DefaultDSs <- Graded
  InitialDS <- PlainDS
  LocalPriority <- SameLocalPriority
  DelayMechanism <- AllAuto
  Jbod = {1}
  MasterOnly = {}
  Hybrid <- AllPorts
  SlaveOnly = FALSE
  Telecom = FALSE
  SyncRxTimeout = TRUE
  AsapFaults = {}
  Faults = {"UNSPECIFIED","BAD_PEER_NETWORK"}
  LinkEvents <- BondedLinks
  InitMayFail = TRUE
  SendMayFail = TRUE
  PhcMayFail = TRUE
INVARIANTS
  TypeOK
  FollowsParent
  TimersRun
  AnnouncedDistance
  PeerDelayRuns
  Roles
