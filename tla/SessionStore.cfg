SPECIFICATION Spec
CONSTANTS
  Keys = {k1, k2, k3}
  MaxSize = 2
  TTL = 1
  Targets = {t1}
  Attacks = {a1}
  NoTarget = NoTarget
  Callers = {c1, c2}
INVARIANT TypeOK
PROPERTY ImplementsCache
