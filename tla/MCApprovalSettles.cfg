\* A message, a question, a failure and a closing, with every task carried to its end.
CONSTANTS
  Asks = 2
  Replies = 1
  MaxPending = 2
  Says = {"allowed", "rejected"}
  Elsewhere = {"rejected"}
  Questions = TRUE
  MaxFailures = 1
  MaxCloses = 1
SPECIFICATION FairSpec
INVARIANTS
  NoticesTruthful
  OneFinalOutcome
PROPERTIES
  RepliesEnd
  HeadShown
  ShownIsSettled
CHECK_DEADLOCK FALSE
