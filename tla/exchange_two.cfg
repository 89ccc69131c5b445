SPECIFICATION CappedSpec
CONSTANTS
  a = a
  b = b
  Msgs <- TwoMsgs
  DataLen <- Len6And4
  U32 = 16
  PacketSize = 2
  UnscheduledBytes = 3
  GrantIncrement = 5
  MaxIncoming = 2
  Overcommit = 1
  MaxUnansweredResends = 1
  CompletedCache = 1
  Lossy = FALSE
  Duplicating = TRUE
INVARIANTS KeptOutByShorter GrantSetHasCredit RedeliveryNeedsEviction OvershootBounded
