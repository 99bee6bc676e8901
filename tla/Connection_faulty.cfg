CONSTANTS
  b1 = b1
  b2 = b2
  b3 = b3
  s1 = s1
  s2 = s2
  NONE = NONE
  Buses <- MCBuses
  Config <- TwoSessions
  SingleThreaded = FALSE
  Faults = {"ticket", "connect", "drop", "slow"}
SPECIFICATION Spec
SYMMETRY PairSymmetry
INVARIANT TypeOK
INVARIANT FedByOwnSession
INVARIANT RefAccounting
INVARIANT ClosedWithLast
INVARIANT FlagTruthful
PROPERTY NeverCutOff
