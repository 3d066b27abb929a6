SPECIFICATION Spec
CONSTANTS
  Lookups = {l1, l2, l3}
  Addresses = {a1, a2}
  TTL = 2
  Nobody = Nobody
INVARIANTS
  TypeOK
  LockAndLineAgree
  NoDownloadWithinTtl
PROPERTIES
  VerdictAgreesWithList
  LockIsFreed
