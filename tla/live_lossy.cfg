SPECIFICATION FairSpec
CONSTANTS
  a = a
  b = b
  Msgs <- OneMsg
  DataLen <- Len5
  U32 = 16
  PacketSize = 2
  UnscheduledBytes = 2
  GrantIncrement = 2
  MaxIncoming = 1
  Overcommit = 1
  MaxUnansweredResends = 1
  CompletedCache = 1
  Lossy = TRUE
  Duplicating = TRUE
PROPERTIES SendCompletes EveryReassemblyEnds
