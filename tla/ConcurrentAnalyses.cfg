SPECIFICATION Spec
CONSTANTS
  k1 = k1
  k2 = k2
  k3 = k3
  t1 = t1
  t2 = t2
  d1 = d1
  d2 = d2
  Keys = {k1, k2}
  MaxSize = 1
  TTL = 1
  Targets = {t1, t2}
  NoTarget = NoTarget
  Detectors = {d1, d2}
  Attacks <- MCAttacks
  Hosts <- MCHosts
  MostFrequent <- MCMostFrequent
  Finds <- MCFinds
  MaxNotes = 0
  Analyses = {r1, r2}
INVARIANTS
  AnalysesAreWhole
PROPERTIES
  EveryAnalysisAnswered
