SPECIFICATION FairSpec
CONSTANTS
  a = a
  b = b
  c = c
  d = d
  Thresholds <- TwoBounds
  Lengths <- FourLengths
  FlushBudget = 2
  MaxBurst = 3
  MaxPackets = 3
INVARIANTS FifoPerLevel ShortNotBlocked
PROPERTY BacklogDrains
