SPECIFICATION FairSpec
CONSTANTS
  Device = {a, b}
  Grace = 3
  Retry = 2
  None = None
  a = a
  b = b
INVARIANTS KeptIsHeld EndedStaysEnded HoldHasSave
PROPERTY HoldIsStored
