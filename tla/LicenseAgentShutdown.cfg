SPECIFICATION Spec
CONSTANTS
  LastMonth = 2
  MaxReloads = 1
  PromptExit = TRUE
INVARIANT ThreadsTerminated
