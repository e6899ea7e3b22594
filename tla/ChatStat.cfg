SPECIFICATION StatSpec
CONSTANTS
  None = None
  Handlers = {h1, h2}
  Flushers = {f1}
  Callers <- MCCallers
  Keys = {k1, k2}
  Objs = {o1, o2, o3, o4, o5}
  Cap = 1
  FlightKey <- MCFlightKey
  Source <- MCSource
  Failures = {err}
  MaxCount = 2
  SaveMayFail = TRUE
SYMMETRY Symmetry
INVARIANTS
  CountsKept
PROPERTIES
  RowsOnlyGrow
  FlushSavesCached
