SPECIFICATION Spec
CONSTANTS
  Worker = {w1}
  Client = {c1, c2}
  Posters = {c2}
  Others = {}
  None = None
INVARIANT AnswersOwnRequest
