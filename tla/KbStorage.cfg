SPECIFICATION Spec
CONSTANTS
  MaxDocs = 2
  MaxSnapshots = 2
  MaxCreates = 2
  MaxRestarts = 2
CHECK_DEADLOCK FALSE
INVARIANTS TypeOK  
