SPECIFICATION FairSpec
CONSTANTS
  MaxEdits = 2
  PromptExit = TRUE
INVARIANTS
  TypeOK
  EditSeenOrMissed
  WatcherComesBack
PROPERTY StopIsServed
CHECK_DEADLOCK FALSE
