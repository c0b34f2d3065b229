SPECIFICATION FairSpec
CONSTANTS
  MaxFaults = 2
  LateWriteErrors = TRUE
  OrphanCommands = TRUE
  Unloadable = TRUE
PROPERTIES
  StartsConverge
