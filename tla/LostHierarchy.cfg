SPECIFICATION Spec
CONSTANTS
  a = a
  b = b
  c = c
  d = d
  e = e
  svc = svc
  mid = mid
  host = host
  None = None
  r1 = r1
  r2 = r2
  Request = {r1, r2}
  Incident = {a, b, d}
  NewestOrder <- OrderABD
  EntityOf <- MCEntityOf
  FetchLimit = 3
  HistoryLimit = 3
  PageSize = 3
  Topology <- MCTopology
  GroupClasses = {"host"}
  Depth = 4
SYMMETRY Requests
INVARIANT HierarchyIsWalked
