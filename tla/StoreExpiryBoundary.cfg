SPECIFICATION HistorySpec
CONSTANTS
  Keys = {k1, k2}
  MaxSize = 2
  TTL = 1
  Targets = {t1}
  Attacks = {}
  NoTarget = NoTarget
  Callers = {c1}
PROPERTY NoUpdateOfExpired
