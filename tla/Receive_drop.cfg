CONSTANTS
  b1 = b1
  b2 = b2
  NONE = NONE
  Buses <- OneBus
  Channels <- TwoChannels
  ALL = "all"
  ChannelOf <- One
  QueueSize = 1
  Timed = {b1}
  Drops = TRUE
  Loses = FALSE
  MaxRecords = 2
  MaxBatch = 1
SPECIFICATION FairSpec
PROPERTY CollectionEnds
