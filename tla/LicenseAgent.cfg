SPECIFICATION FairSpec
CONSTANTS
  LastMonth = 2
  MaxReloads = 2
  PromptExit = TRUE
INVARIANTS
  TypeOK
  AtMostTwoTimers
  NoTaskOrphaned
  PromptRunKept
PROPERTIES
  ConfigurationReachesTasks
  PromiseKept
