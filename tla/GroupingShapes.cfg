SPECIFICATION Spec
CONSTANTS
  a = a
  b = b
  c = c
  d = d
  e = e
  svc = svc
  mid = mid
  host = host
  None = None
  r1 = r1
  r2 = r2
  Request = {r1}
  Incident = {a, b, c, e}
  NewestOrder <- OrderBACE
  EntityOf <- MCEntityOf
  FetchLimit = 4
  HistoryLimit = 3
  PageSize = 2
  Topology <- MCTopology
  GroupClasses = {"host", "router"}
  Depth = 4
INVARIANTS
  NoIncidentMissed
  GroupingIsForest
  ActiveNotUnderHistory
  OwnerFirst
PROPERTY
  ClassGroupsAreKept
