SPECIFICATION Spec
CONSTANTS
  MaxFaults = 1
  LateWriteErrors = FALSE
  OrphanCommands = FALSE
  Unloadable = TRUE
INVARIANTS
  LastCompleteKept
