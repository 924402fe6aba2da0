SPECIFICATION TurnsSpec

CONSTANTS
  w1 = w1
  w2 = w2
  w3 = w3
  k1 = k1
  k2 = k2
  i1 = i1
  i2 = i2
  NoIds = NoIds
  NoItem = NoItem
  NoKey = NoKey
  Workers <- TwoWorkers
  Keys <- OneKey
  Ids <- TwoIds
  Distributed = TRUE
  Lossy = FALSE
  TTL = 1
  CasMaxRetries = 2
  Faults = TRUE
  ClockMayFail = FALSE
  MaxTime = 2
  MaxVersion = 10
  Binding = "JsonRpc"
  Overlap = TRUE
  MaxTurns = 4

SYMMETRY Symmetry
PROPERTIES
  ClosedStaysClosed
  ImplementsAtomic
CHECK_DEADLOCK FALSE
