SPECIFICATION FairSpec
CONSTANTS
  Xtz = {x1, x2}
  Srv = {1}
  Official = Official
  Alternate = Alternate
  Nobody = Nobody
  Other = Other
  Dsh = Dsh
  Foreign = {Other, Dsh}
  Unmanaged = {Official}
  SlowAnswers = TRUE
  Legacy = {1}
  MaxPolls = 2
  MaxDeaths = 1
PROPERTIES
  CommandEnds
CHECK_DEADLOCK FALSE
