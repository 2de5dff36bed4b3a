SPECIFICATION FairSpec
CONSTANTS
  Worker = {w1, w2}
  Client = {c1, c2}
  Posters = {c2}
  Others = {}
  None = None
INVARIANTS
  TypeOK
  AnswerIsWholeRequest
PROPERTIES
  DeadlineIsItsOwn
  NoClientKept
