SPECIFICATION FairTable
CONSTANTS
  Markets = {m1}
  MaxEvents = 3
  MaxViews = 1
PROPERTIES
  ServedUnderEvents
CHECK_DEADLOCK FALSE
