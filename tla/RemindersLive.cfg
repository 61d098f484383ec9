\* Liveness under crashes of the scan and the worker and loss of every job.
\* MaxTime leaves room for the grace period and the classification after the
\* last deadline: Starts + Grace + UnknownAfter + 2.
SPECIFICATION FairSpec
CONSTANTS
  Offsets = {0}
  Starts = {1}
  Scanners = {s1}
  Workers = {w1}
  Grace = 1
  Lease = 1
  UnknownAfter = 0
  Retention = 1
  BatchLimit = 1
  Skew = 0
  MaxTime = 4
  MaxCycle = 1
  MaxClaims = 4
  MaxEdits = 2
PROPERTIES
  ArmedIsDecided
  AttemptIsConcluded
  
