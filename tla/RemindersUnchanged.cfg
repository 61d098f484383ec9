\* An edit that changes neither schedule nor offsets, in the seconds between a
\* deadline and the authorization of its delivery.
SPECIFICATION Spec
CONSTANTS
  Offsets = {0}
  Starts = {1}
  Scanners = {s1}
  Workers = {w1}
  Grace = 1
  Lease = 1
  UnknownAfter = 0
  Retention = 1
  BatchLimit = 1
  Skew = 0
  MaxTime = 3
  MaxCycle = 1
  MaxClaims = 3
  MaxEdits = 2
PROPERTIES
  UnchangedScheduleIsIdempotent
