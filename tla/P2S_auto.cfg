SPECIFICATION FairSpec
CONSTANTS
  NULL = NULL
  RT = RT
  NPorts = 2
  Configs <- TwoPorts
  PortStates = {"UNCALIBRATED", "SLAVE", "MASTER"}
  MaxChanges = 2
  MaxLate = 1
INVARIANTS SubscriptionKept RightClocks RtServoFresh
PROPERTY Follows
CHECK_DEADLOCK FALSE
