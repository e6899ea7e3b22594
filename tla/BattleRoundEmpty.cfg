SPECIFICATION RoundSpec
CONSTANTS
  CharNames = {n1, n2}
  Orders = {1, 2}
  Statuses = {normal}
  Normal = normal
  MaxRound = 2
INVARIANTS
  SomebodysTurn
