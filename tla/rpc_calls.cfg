SPECIFICATION FairSpec
CONSTANTS
  a = a
  b = b
  Calls <- TwoCalls
  MaxAttempts <- OneEach
  Patient <- OnlyB
  LongRequests <- Nobody
  Panicking <- Nobody
  Lossy <- OnlyB
  MaxLives = 1
  MaxServers = 2
  ServerStops = TRUE
PROPERTIES CallsEnd PatientCallsSucceed
CHECK_DEADLOCK FALSE
