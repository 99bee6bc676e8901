CONSTANTS
  b1 = b1
  b2 = b2
  b3 = b3
  s1 = s1
  s2 = s2
  NONE = NONE
  Buses <- MCBuses
  Config <- TwoSessions
  SingleThreaded = TRUE
  Faults = {"drop", "slow"}
SPECIFICATION FairSpec
INVARIANT RegisteredWhileHeld
PROPERTY ImplementsSharedLink
