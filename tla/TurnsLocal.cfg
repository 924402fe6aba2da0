SPECIFICATION TurnsSpec

CONSTANTS
  w1 = w1
  w2 = w2
  w3 = w3
  k1 = k1
  k2 = k2
  i1 = i1
  i2 = i2
  NoIds = NoIds
  NoItem = NoItem
  NoKey = NoKey
  Workers <- TwoWorkers
  Keys <- TwoKeys
  Ids <- TwoIds
  Distributed = FALSE
  Lossy = FALSE
  TTL = 1
  CasMaxRetries = 2
  Faults = FALSE
  ClockMayFail = FALSE
  MaxTime = 3
  MaxVersion = 10
  Binding = "JsonRpc"
  Overlap = FALSE
  MaxTurns = 4

SYMMETRY Symmetry
INVARIANTS
  KeyIsolation
PROPERTIES
  ImplementsConversation
  EvictsOnlyEnded
CHECK_DEADLOCK FALSE
