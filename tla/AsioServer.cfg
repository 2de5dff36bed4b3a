SPECIFICATION FairSpec
CONSTANTS
  Connection = {c1, c2}
INVARIANTS
  TypeOK
  ParserMatchesGrammar
  ReplyFitsRequest
  StopClosesAll
PROPERTY RunReturns
CHECK_DEADLOCK FALSE
