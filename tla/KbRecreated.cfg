SPECIFICATION Spec
CONSTANTS
  MaxDocs = 1
  MaxSnapshots = 0
  MaxCreates = 2
  MaxRestarts = 0
CHECK_DEADLOCK FALSE
INVARIANTS NothingFromBefore
