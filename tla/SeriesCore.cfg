\* Two series, two keys
SPECIFICATION Spec
CONSTANTS
  Keys = {2, 3}
  Schedules = {{2, 3}, {3}}
  MaxSeries = 2
  MaxActions = 2
  Retention = 1
  BatchLimit = 1
  MaxTime = 3
INVARIANTS
  TypeOK
  OpenActionIsWhole
  ChainIsLinear
  ReminderFollowsNote
  MarkFollowsNote
  TrashIsListedOnce
  SealedSeriesIsEmpty
PROPERTIES
  PurgeIsFinal
  RetentionHolds
  SplitReplacesFuture
CHECK_DEADLOCK FALSE
