CONSTANTS
  b1 = b1
  b2 = b2
  b3 = b3
  s1 = s1
  s2 = s2
  NONE = NONE
  Buses <- MCPair
  Config <- PairConfig
  SingleThreaded = FALSE
  Faults = {"ticket", "connect", "drop", "slow"}
SPECIFICATION FairSpec
PROPERTY ConstructionEnds
PROPERTY ShutdownEnds
