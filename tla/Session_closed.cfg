CONSTANTS
  b1 = b1
  k1 = k1
  k2 = k2
  d1 = d1
  d2 = d2
  NONE = NONE
  Buses <- OneBus
  Closers <- OneCloser
  Devices <- TwoDevices
  Bauds = {"500k"}
  Points = {"80", "87.5"}
  DEFAULT = "87.5"
  Legacy = TRUE
  MaxCalls = 2
  MaxOthers = 0
SPECIFICATION Spec
INVARIANT ClosedSessionRefused
