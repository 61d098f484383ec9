\* Three series: a successor placed before the last note its predecessor kept is
\* split again, from an earlier day on, with daily schedules.
SPECIFICATION Spec
CONSTANTS
  Keys = {2, 3, 4, 5}
  Schedules = {{4, 5}, {3}, {2, 3, 4}}
  MaxSeries = 3
  MaxActions = 0
  Retention = 1
  BatchLimit = 1
  MaxTime = 2
PROPERTIES
  BackwardSplitProtects
CHECK_DEADLOCK FALSE
