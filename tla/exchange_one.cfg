SPECIFICATION Spec
CONSTANTS
  a = a
  b = b
  Msgs <- OneMsg
  DataLen <- Len9
  U32 = 16
  PacketSize = 2
  UnscheduledBytes = 4
  GrantIncrement = 4
  MaxIncoming = 1
  Overcommit = 1
  MaxUnansweredResends = 1
  CompletedCache = 1
  Lossy = FALSE
  Duplicating = TRUE
INVARIANTS TypeOK WholeMessages DeliveredIsDone NeverWedged CreditBounded GrantedHaveGap GridInv
PROPERTY ImplementsService
