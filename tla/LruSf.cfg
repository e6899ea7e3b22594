SPECIFICATION Spec
CONSTANTS
  None = None
  Callers = {c1, c2, c3}
  Keys = {k1, k2, k3}
  Versions = {v1, v2}
  Cap = 2
  FlightKey <- MCFlightKey
  Source <- MCSource
  Failures = {err}
SYMMETRY Symmetry
INVARIANTS
  TypeOK
  CacheConsistent
  FlightsHeld
  NoCrossTalk
PROPERTIES
  HandedToOnEvict
  ImplementsLoadingCache
