SPECIFICATION Spec
CONSTANTS
  MaxRev = 2
  MaxQueue = 2
  None = None
INVARIANTS TypeOK RefusedHasRetry AreaIsServed EscalatedIsShed
PROPERTY PreparedWritesCurrent
CHECK_DEADLOCK FALSE
