\* One offset, two workers racing over one row, three edits: moving the note
\* away and back, removing and re-adding the offset, deleting, restoring, purging.
SPECIFICATION Spec
CONSTANTS
  Offsets = {0}
  Starts = {1, 2}
  Scanners = {s1}
  Workers = {w1, w2}
  Grace = 1
  Lease = 1
  UnknownAfter = 0
  Retention = 1
  BatchLimit = 2
  Skew = 0
  MaxTime = 3
  MaxCycle = 2
  MaxClaims = 3
  MaxEdits = 3
SYMMETRY Symmetry
INVARIANTS
  TypeOK
  
  ArmedIsCurrent
  AtMostOneCall
  OneMailPerDeadline
  ResultsAreTrue
  NoticeMatchesRow
  PurgeIsFinal
PROPERTIES
  HistoryIsImmutable
