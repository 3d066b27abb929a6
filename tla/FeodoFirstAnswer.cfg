SPECIFICATION Spec
CONSTANTS
  Lookups = {l1, l2}
  Addresses = {a1}
  TTL = 2
  Nobody = Nobody
INVARIANT ReliableOnceLoaded
