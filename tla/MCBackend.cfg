SPECIFICATION Spec
CONSTANTS
  k1 = k1
  k2 = k2
  k3 = k3
  t1 = t1
  t2 = t2
  d1 = d1
  d2 = d2
  Keys = {k1, k2, k3}
  MaxSize = 2
  TTL = 1
  Targets = {t1, t2}
  NoTarget = NoTarget
  Detectors = {d1}
  Attacks <- MCAttacks
  Hosts <- MCHosts
  MostFrequent <- MCMostFrequent
  Finds <- MCFinds
  MaxNotes = 1
  Analyses = {r1}
INVARIANTS
  TypeOK
  NoOrphanNotes
PROPERTIES
  GoneForGood
  ImplementsLifecycle
