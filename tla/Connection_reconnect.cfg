CONSTANTS
  b1 = b1
  b2 = b2
  b3 = b3
  s1 = s1
  s2 = s2
  NONE = NONE
  Buses <- MCBuses
  Config <- OneSession
  SingleThreaded = TRUE
  Faults = {"drop"}
SPECIFICATION FairSpec
PROPERTY NewBusReconnects
