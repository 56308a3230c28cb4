\* Every kind of change, with a queue that overflows.
SPECIFICATION WatchFairSpec
CONSTANTS
  MaxVersion = 3
  MaxQueue = 2
  MaxPending = 2
CHECK_DEADLOCK FALSE
INVARIANT Covered
PROPERTIES NoLateCallback ChangeNoticed
