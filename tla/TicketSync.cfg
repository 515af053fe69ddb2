SPECIFICATION Spec
CONSTANTS
  a = a
  b = b
  c = c
  d = d
  host = host
  svc = svc
  None = None
  MovedIn = {{a, b, c}}
  OnHost = {a, b}
  MayClear = {a}
  MayWorsen = {c}
  Incident = {a, b, c}
  MemberState = {"warning", "critical", "cleared"}
  ClearedState = {"cleared"}
  GroupKey <- MCGroupKeys
  GroupHead <- MCHeads
  Title <- MCTitles
  Instant <- MCInstants
  Minute = 4
  GroupClasses = {"host"}
  Depth = 2
  Polls <- MCPolls
  MaxSeq = 3
  ReadMayFail = FALSE
INVARIANTS
  TypeOK
  OpenIndexExact
  FileReflectsReport
  EventsTellTheDifference
  Quiescent
PROPERTIES
  ClosedForever
  ImplementsLifecycle
