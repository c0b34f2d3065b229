SPECIFICATION FairSpec
CONSTANTS
  p1 = p1
  p2 = p2
  p3 = p3
  pidA = pidA
  pidB = pidB
  NoProc = NoProc
  Proc <- Procs
  PidOf <- ReusedPid
  Hidden = {p1}
  Token = {1, 2, 3}
  Damaged = {1}
  MaxDeaths = 2
  MaxTicket = 3
INVARIANTS
  MutualExclusion
  HolderRecorded
  BusyOnlyWhenContended
PROPERTIES
  ImplementsTryLock
  AttemptEnds
CHECK_DEADLOCK FALSE
