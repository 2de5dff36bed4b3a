SPECIFICATION Spec
CONSTANTS
  Client = {c1, c2}
  Thread = {t1, t2}
  CardValues = {1, 10}
  ShoeSize = 10
  Funds = 4
  MaxDisorder = 1
SYMMETRY Symmetry
INVARIANTS
  TypeOK
  TurnIsCurrent
  NobodyKeptWaiting
  SettledRound
  
CHECK_DEADLOCK FALSE
