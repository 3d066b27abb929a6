SPECIFICATION Spec
CONSTANTS
  None = None
  f1 = f1
  f2 = f2
  other = other
  all = all
  tcp = tcp
  s1 = s1
  s2 = s2
  Files = {f1, f2, other}
  Accepted = {f1, f2}
  Filters = {all, tcp}
  NoFilter = all
  Presets = {tcp}
  matching <- MCMatching
  PageSize = 1
  Promises = {1, 2}
  Sessions = {s1, s2}
  IpFilters = {all, tcp}
  NoIp = all
  withIp <- MCWithIp
  status <- MCStatus
  Subjects = {s1, s2}
  DrillAsks = {1, 2}
  Ranges = {s1}
  MaxNotes = 1
  Saves = {1, 2}
  Payloads = {1, 2}
INVARIANTS
  TypeOK
  DashboardOfLastFile
  RestingTableMatchesFilter
  SelectionHasAddress
  StreamMatchesEncoding
  OneComparison
  MarkersMatch
PROPERTIES
  PagesAreAdjacent
  LoadsEnd
