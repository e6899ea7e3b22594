SPECIFICATION Spec
CONSTANTS
  None = None
  Last = Last
  Handlers = {h1}
  Topics = {t1}
  MaxMsg = 4
  MaxSid = 2
  Objs = {o1, o2, o3}
  UserIdRequired = TRUE
  MayFail = FALSE
SYMMETRY Symmetry
PROPERTIES
  AnswersHaveSession
