SPECIFICATION Spec
CONSTANTS
  a = a
  b = b
  r = r
  s = s
  Msgs <- OneMsg
  DataLen <- Len4
  U32 = 16
  PacketSize = 2
  UnscheduledBytes = 2
  GrantIncrement = 2
  MaxIncoming = 1
  Overcommit = 1
  MaxUnansweredResends = 1
  CompletedCache = 2
  Lossy = FALSE
  Duplicating = TRUE
  Thresholds <- TwoLevels
  FlushBudget = 2
  MaxBacklog = 2
  Readers <- OneReader
INVARIANT SendersAwake
