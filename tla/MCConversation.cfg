SPECIFICATION FairSpec
CONSTANTS
  Messages = 4
  Chats <- Chat
  Questions = 2
  Parts = 2
  MaxPending = 2
  Limit = 1
  MaxMishaps = 1
INVARIANTS
  TypeOK
  NeverTwice
  CollectedAreKept
PROPERTIES
  RepliesFitTheirQuestion
  ChatSettles
CHECK_DEADLOCK FALSE
