SPECIFICATION FairSpec
CONSTANTS
  MinInterval = 1
  StableInterval = 3
  MaxInterval = 6
  UnactionableFloor = 3
  MitigationHoldoff = 3
  NoopBackoff <- Backoffs
  NoopBackoffMax = 24
  MaxDeficit = 2
  FlowCoalesce = 0
  FlowCooldown = 1
  None = None
PROPERTIES FlowRebuildRuns PromiseAnswered
