SPECIFICATION HistorySpec
CONSTANTS
  Keys = {k1, k2, k3, k4}
  MaxSize = 3
  TTL = 2
  Targets = {t1}
  Attacks = {}
  NoTarget = NoTarget
  Callers = {c1}
SYMMETRY Symmetry
INVARIANTS
  OrderIsTotal
  WithinCapacity
  KeptWhileRecent
PROPERTIES
  ServedWithinTtl
  FreshEntriesStay
