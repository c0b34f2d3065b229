SPECIFICATION Spec
CONSTANTS
  Project = {p1, p2}
  Key = {k1}
  Turn = {t1}
  Kind = {"gate", "bind", "switch"}
  Request = {r1, r2}
  Deleter = r1
  May <- MCMay
  Other = other
  None = none
  Absent = absent
  MaxSessions = 2
  MaxMishaps = 1
CHECK_DEADLOCK FALSE
INVARIANTS
  StoredSessionsOfStoredProject
  RuntimeOfPresentBot
  NobodyForgotten
PROPERTIES
  AskedInOwnProject
  FencedGetsNothing
