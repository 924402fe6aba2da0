SPECIFICATION Spec

CONSTANTS
  RequestIds <- ARequestIds
  Paths <- APaths
  Prompts <- APrompts
  MaxMessages = 3

INVARIANTS
  MessageIdsUnique
CHECK_DEADLOCK FALSE
