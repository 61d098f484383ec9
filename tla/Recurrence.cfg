SPECIFICATION FairSpec
CONSTANTS
  Months = 5
  FirstDay <- MCFirstDay
  Week = 3
  Zones <- MCZones
  Limit = 4
INVARIANTS
  TypeOK
  ExpansionIsExact
  KeysAreDistinct
  RefusalHasCause
PROPERTY ExpansionEnds
CHECK_DEADLOCK FALSE
