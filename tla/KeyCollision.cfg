SPECIFICATION Spec
CONSTANTS
  a = a
  b = b
  c = c
  d = d
  host = host
  svc = svc
  None = None
  MovedIn = {}
  OnHost = {a, b, c, d}
  MayClear = {c, d}
  MayWorsen = {}
  Incident = {a, b, c, d}
  MemberState = {"warning", "cleared"}
  ClearedState = {"cleared"}
  GroupKey <- MCGroupKeys
  GroupHead <- MCHeads
  Title <- MCTitles
  Instant <- MCInstants
  Minute = 4
  GroupClasses = {"host"}
  Depth = 2
  Polls <- MCPolls
  MaxSeq = 3
  ReadMayFail = FALSE
INVARIANT ActiveGroupsTracked
