SPECIFICATION FairSpec
CONSTANTS
  NULL = NULL
  Configs <- Servos
  Errors <- Offsets
  MaxEvents = 3
INVARIANTS Restrained 
PROPERTY Converges
