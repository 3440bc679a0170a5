SPECIFICATION Spec
CONSTANTS
  NULL = NULL
  m1 = m1
  m2 = m2
  Sources = {m1, m2}
  SeqMod = 2
  Configs <- ThreeKinds
  Traffic <- ThreeTraffics
  MaxRequests = 2
  NewParents = TRUE
  SendMayFail = TRUE
INVARIANTS NoLeak OneTimescale
PROPERTIES SyncNumbers MatcherSpec
