SPECIFICATION FairTable
CONSTANTS
  Markets = {m1}
  MaxEvents = 4
  MaxViews = 1
INVARIANTS
  StaleViewIsRefetched
PROPERTIES
  RowsNeverRegress
  RefetchIsServed
CHECK_DEADLOCK FALSE
