SPECIFICATION FairSpec
CONSTANTS
  WriteTime = 1
  Window = 3
  None = None
PROPERTIES SettlesAfterOff PromiseSpec FallbackFollows
