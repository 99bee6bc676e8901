CONSTANTS
  b1 = b1
  k1 = k1
  k2 = k2
  d1 = d1
  d2 = d2
  NONE = NONE
  Buses <- OneBus
  Closers <- TwoClosers
  Devices <- TwoDevices
  Bauds = {"500k"}
  Points = {"80", "87.5"}
  DEFAULT = "87.5"
  Legacy = FALSE
  MaxCalls = 1
  MaxOthers = 1
SPECIFICATION FairSpec
INVARIANT TypeOK
INVARIANT PinRespected
INVARIANT LoginAccounted
INVARIANT SessionOutlivesBuses
PROPERTY CrashOnlyWhileClosing
PROPERTY TimingKept
PROPERTY CallEnds
