SPECIFICATION Spec

CONSTANTS
  w1 = w1
  w2 = w2
  w3 = w3
  k1 = k1
  k2 = k2
  i1 = i1
  i2 = i2
  NoIds = NoIds
  NoItem = NoItem
  NoKey = NoKey
  Workers <- TwoWorkers
  Keys <- OneKey
  Ids <- OneId
  Distributed = FALSE
  Lossy = FALSE
  TTL = 1
  CasMaxRetries = 2
  Faults = FALSE
  ClockMayFail = TRUE
  MaxTime = 3
  MaxVersion = 3

PROPERTIES
  ClockErrorFailsSafe
