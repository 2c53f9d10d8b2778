SPECIFICATION FairSpec
CONSTANTS
  Sustain = 2
  None = None
INVARIANTS IncidentMirrored DeferredHasWakeup
PROPERTIES AuthorityRespected RecoverySustained PromiseSpec PersistedFollows
