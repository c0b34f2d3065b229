SPECIFICATION Spec
CONSTANTS
  Xtz = {x1, x2}
  Srv = {1, 2}
  Official = Official
  Alternate = Alternate
  Nobody = Nobody
  Other = Other
  Dsh = Dsh
  Foreign = {Other}
  Unmanaged = {Official}
  SlowAnswers = TRUE
  Legacy = {1}
  MaxPolls = 1
  MaxDeaths = 1
INVARIANTS
  TypeOK
  OneServer
  StrangersSpared
  StampOfRecorded
PROPERTIES
  RecordKept
  AnnouncesOwn
CHECK_DEADLOCK FALSE
