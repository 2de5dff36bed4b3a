SPECIFICATION FairSpec
CONSTANTS
  MaxEdits = 2
  MaxOpens = 3
  MaxQueue = 3
  PromptEditor = TRUE
INVARIANTS
  TypeOK
  EditSeenOrMissed
  OpeningServedOrMissed
  StoppedOnlyByOverlap
PROPERTY EditReachesOptions
CHECK_DEADLOCK FALSE
