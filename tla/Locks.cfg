\* Two requests on one series of two notes and an ordinary note, with one tag.
SPECIFICATION Spec
CONSTANTS
  Sessions = {s1, s2}
  Tags = {1}
  Notes = {1, 2, 3}
  Recurring = {1, 2}
INVARIANT NoDeadlock
CHECK_DEADLOCK FALSE
