\* Two events, two overlapping publishers, batches of two; a failed row waits up
\* to three ticks, so that it goes behind the other.
SPECIFICATION FairSpec
CONSTANTS
  Events = {1, 2}
  Publishers = {p1, p2}
  BatchLimit = 2
  Cap = 3
  MaxExponent = 2
  MaxFaults = 1
INVARIANTS
  TypeOK
  OneMessagePerFault
PROPERTIES
  KeepsFeed
  CommittedIsPublished
