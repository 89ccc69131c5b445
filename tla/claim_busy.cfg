SPECIFICATION Spec
CONSTANTS
  a = a
  b = b
  Msgs <- TwoMsgs
  DataLen <- Len6And2
  U32 = 16
  PacketSize = 2
  UnscheduledBytes = 2
  GrantIncrement = 2
  MaxIncoming = 1
  Overcommit = 1
  MaxUnansweredResends = 1
  CompletedCache = 2
  Lossy = FALSE
  Duplicating = TRUE
INVARIANT BusyIsRetried
