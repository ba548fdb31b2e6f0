SPECIFICATION WatchSpec
CONSTANTS
  KBs = {k1}
  Files = {f1}
  WatchIds = {w1}
  Cap = 1
  MaxFileEdits = 0
  MaxWatchFaults = 0
  MaxWatchRestarts = 1
CHECK_DEADLOCK FALSE
INVARIANTS RestoredMonitored
