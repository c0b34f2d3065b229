SPECIFICATION Spec
CONSTANTS
  Messages = 3
  Chats <- OneBatch
  Questions = 1
  Parts = 1
  MaxPending = 1
  Limit = 1
  MaxMishaps = 1
INVARIANTS
  FailedSendsCanBeRetried
CHECK_DEADLOCK FALSE
