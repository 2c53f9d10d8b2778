SPECIFICATION FairSpec
CONSTANTS
  MaxSteps = 2
  Stale = 1
  MaxIncidents = 2
  MaxCalls = 1
  None = None
INVARIANTS TypeOK AlertsHaveWakeup
PROPERTIES CrossingSustained PromiseSpec DeferralEnds LadderServed
