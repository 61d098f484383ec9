\* Two notifications, one tab, ids of two messages remembered, two faults.
SPECIFICATION FairSpec
CONSTANTS
  Events = {1, 2}
  Tabs = {t1}
  SeenLimit = 2
  MaxCopies = 2
  MaxFaults = 1
INVARIANTS
  TypeOK
  ToastOnce
PROPERTIES
  ReachedIsShown
  LostSocketIsMadeUp
  LostLinkIsMadeUp
CHECK_DEADLOCK FALSE
