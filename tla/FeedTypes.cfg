SPECIFICATION FairTable
CONSTANTS
  Markets = {m1}
  MaxEvents = 4
  MaxViews = 1
INVARIANTS
  TableTypeOK
CHECK_DEADLOCK FALSE
