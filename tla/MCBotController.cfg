\* A binding and a removing request next to the supervisor, a closing and two troubles.
CONSTANTS
  Token = {t1, t2}
  Policy = {safe, open}
  Default = safe
  Request = {r1, r2}
  Remover = r2
  May <- MCMay
  Supervisor = Supervisor
  Closer = Closer
  None = None
  Unread = Unread
  MaxTroubles = 2
SPECIFICATION FairSpec
INVARIANTS
  TypeOK
  OneConnection
  RunsWhatIsStored
PROPERTIES
  PolicyOnlyBySetting
  BackOnline
  CallsEnd
CHECK_DEADLOCK FALSE
