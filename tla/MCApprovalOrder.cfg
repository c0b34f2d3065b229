\* Three approvals and two messages, so that messages queue behind each other and approvals behind the barrier.
CONSTANTS
  Asks = 3
  Replies = 2
  MaxPending = 3
  Says = {"allowed", "other", "stranger"}
  Elsewhere = {"rejected"}
  Questions = FALSE
  MaxFailures = 1
  MaxCloses = 0
SPECIFICATION Spec
INVARIANT TypeOK
PROPERTIES
  DecisionForTheShown
  PromptAfterOutcome
CHECK_DEADLOCK FALSE
