SPECIFICATION Spec
CONSTANTS
  MaxFaults = 3
  LateWriteErrors = FALSE
  OrphanCommands = FALSE
  Unloadable = FALSE
INVARIANTS
  LastCompleteKept
  LaunchesValidated
PROPERTIES
  AtomicSync
