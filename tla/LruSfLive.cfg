SPECIFICATION FairSpec
CONSTANTS
  None = None
  Callers = {c1, c2, c3}
  Keys = {k1, k2}
  Versions = {v1}
  Cap = 1
  FlightKey <- MCFlightKey
  Source <- MCSource
  Failures = {err}
PROPERTIES
  GetReturns
