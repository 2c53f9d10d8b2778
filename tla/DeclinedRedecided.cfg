SPECIFICATION FairSpec
CONSTANTS
  MaxRev = 1
  MaxQueue = 2
  None = None
PROPERTY DeclinedIsRedecided
CHECK_DEADLOCK FALSE
