SPECIFICATION Spec
CONSTANTS
  a = a
  b = b
  Hosts = {a, b}
  Protocols = {"TCP"}
  Captured <- MCCaptured
  Parsed <- MCParsed
  MaxSessions = 3
INVARIANTS
  TotalsConserved
  OneSessionPerTuple
  SpansCoverTheirParts
CHECK_DEADLOCK FALSE
