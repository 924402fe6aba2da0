SPECIFICATION Spec

CONSTANTS
  Step <- AStep
  RawConfigs <- ARawConfigs
  Requests <- ARequests
  Cached <- ACached
  Replies <- AReplies
  Statuses <- AStatuses
  I64Min <- AI64Min
  I64Max = 8

INVARIANTS
  ForwardsOnlyMessages
  IdsFollowTheMode
  KeysTellConversationsApart
  EntriesLiveAsConfigured
  LengthIsTrue
  PassthroughUntouched
  RecordsWhatAgentMeant
  UnresumableIsReported
CHECK_DEADLOCK FALSE
