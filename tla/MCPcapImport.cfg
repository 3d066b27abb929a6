SPECIFICATION Spec
CONSTANTS
  a = a
  b = b
  Hosts = {a, b}
  Files <- MCFiles
  MaxLength = 3
  MaxFlows = 2
  MaxPackets = 2
  MaxWarnings = 1
INVARIANTS
  TypeOK
  FlowTableSound
  CountedInFull
  FirstComeFirstKept
  PacketsFollowFlow
  ErrorsReported
  StoredAsRead
PROPERTIES
  UploadEnds
CHECK_DEADLOCK FALSE
