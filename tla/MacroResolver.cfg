SPECIFICATION Spec
CONSTANTS
  r1 = r1
  r2 = r2
  Request = {r1, r2}
  svc = svc
  mid = mid
  host = host
  Object = {svc, mid, host}
  v = v
  Value = {v}
  None = None
  Unread = Unread
  Chains <- MCChains
  Depth = 1
  Matching = {svc, mid, host}
  Reports <- MCReports
  MaxNews = 2
SYMMETRY Symmetry
INVARIANTS
  TypeOK
  AnswersAreCurrent
  NearestLately
