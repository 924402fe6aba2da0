SPECIFICATION StaleFairSpec

CONSTANTS
  w1 = w1
  w2 = w2
  k1 = k1
  i1 = i1
  NoIds = NoIds
  NoItem = NoItem
  NoKey = NoKey
  Workers <- TwoWorkers
  Keys <- OneKey
  Ids <- OneId
  Distributed = TRUE
  Lossy = TRUE
  TTL = 1
  CasMaxRetries = 2
  Faults = FALSE
  ClockMayFail = FALSE
  MaxTime = 2
  MaxVersion = 3

INVARIANTS
  StaleIInv
PROPERTIES
  NoResurrection
  ServiceEndsWithTTL
  AccessesRunOut
  CallsReturn
