SPECIFICATION Spec
CONSTANTS
  None = None
  Handlers = {h1}
  Chats = {c1, c2}
  Uids = {u1, u2, u3}
SYMMETRY Symmetry
INVARIANTS
  OneBattle
