SPECIFICATION FairSpec
CONSTANTS
  a = a
  b = b
  r = r
  s = s
  Msgs <- OneMsg
  DataLen <- Len6
  U32 = 16
  PacketSize = 2
  UnscheduledBytes = 2
  GrantIncrement = 4
  MaxIncoming = 1
  Overcommit = 1
  MaxUnansweredResends = 1
  CompletedCache = 2
  Lossy = FALSE
  Duplicating = TRUE
  Thresholds <- TwoLevels
  FlushBudget = 1
  MaxBacklog = 2
  Readers <- OneReader
INVARIANTS TypeOK AccountedFor
PROPERTIES ImplementsExchange NoFalseTimeout SendReturns QueuedIsSent
