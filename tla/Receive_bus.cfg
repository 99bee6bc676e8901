CONSTANTS
  b1 = b1
  b2 = b2
  NONE = NONE
  Buses <- TwoBuses
  Channels <- TwoChannels
  ALL = "all"
  ChannelOf <- OneAndAll
  QueueSize = 1
  Timed = {b1}
  Drops = TRUE
  Loses = TRUE
  MaxRecords = 2
  MaxBatch = 2
SPECIFICATION FairSpec
INVARIANT TypeOK
INVARIANT RoutedByChannel
INVARIANT InOrder
INVARIANT DropsCounted
INVARIANT RestOfBatchKept
PROPERTY QuietAfterUnsubscribe
PROPERTY RecvEnds
PROPERTY ShutdownCompletes
