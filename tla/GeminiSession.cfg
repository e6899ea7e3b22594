SPECIFICATION Spec
CONSTANTS
  None = None
  Last = Last
  Handlers = {h1, h2}
  Topics = {t1}
  MaxMsg = 4
  MaxSid = 2
  Objs = {o1, o2, o3}
  UserIdRequired = FALSE
  MayFail = TRUE
SYMMETRY Symmetry
INVARIANTS
  TypeOK
  MemoryIsHistory
  NothingPending
PROPERTIES
  WholeTurns
