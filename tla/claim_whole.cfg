SPECIFICATION Spec
CONSTANTS
  a = a
  b = b
  Msgs <- OneMsg
  DataLen <- Len8
  U32 = 16
  PacketSize = 2
  UnscheduledBytes = 3
  GrantIncrement = 5
  MaxIncoming = 1
  Overcommit = 1
  MaxUnansweredResends = 1
  CompletedCache = 1
  Lossy = FALSE
  Duplicating = TRUE
INVARIANT WholeMessages
