\* One row, two scans and two workers whose clocks, and the handlers', disagree by
\* one: claims judged by old instants, rows given back as not due yet.
SPECIFICATION Spec
CONSTANTS
  Offsets = {0}
  Starts = {1}
  Scanners = {s1, s2}
  Workers = {w1, w2}
  Grace = 1
  Lease = 1
  UnknownAfter = 0
  Retention = 1
  BatchLimit = 1
  Skew = 1
  MaxTime = 3
  MaxCycle = 1
  MaxClaims = 2
  MaxEdits = 2
SYMMETRY Symmetry
INVARIANTS
  AtMostOneCall
  
PROPERTIES
  KeepsPromise
  HistoryIsImmutable
