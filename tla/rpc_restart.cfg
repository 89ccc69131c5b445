SPECIFICATION Spec
CONSTANTS
  a = a
  b = b
  Calls <- TwoCalls
  MaxAttempts <- TwoAndOne
  Patient <- Nobody
  LongRequests <- OnlyA
  Panicking <- OnlyB
  Lossy <- OnlyB
  MaxLives = 2
  MaxServers = 2
  ServerStops = TRUE
INVARIANTS TypeOK HandledAtMostOnce WaitingIsReachable PlaceholderIsComputing OnlyTimedOutSendsLeak StarvedOnlyIfLate
PROPERTY ImplementsRpcService
CHECK_DEADLOCK FALSE
