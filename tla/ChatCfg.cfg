SPECIFICATION CfgSpec
CONSTANTS
  None = None
  Callers = {h1, h2}
  Keys = {k1, k2}
  Objs = {o1, o2, o3, o4, o5}
  Cap = 1
  FlightKey <- MCFlightKey
  Source <- MCSource
  Failures = {err}
  Fields = {f1}
SYMMETRY Symmetry
INVARIANTS
  SecondOnlyIfCrossed
  PressesKept
