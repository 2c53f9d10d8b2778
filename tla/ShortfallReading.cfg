SPECIFICATION FairSpec
CONSTANTS
  Sustain = 2
  None = None
PROPERTY ReadingRecovers
