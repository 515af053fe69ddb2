SPECIFICATION FairSpec
CONSTANTS
  c1 = c1
  c2 = c2
  Reader = {c1, c2}
  a = a
  b = b
  c = c
  d = d
  Incident = {a, b, c, d}
  FirstLists <- ThreeListed
  Asks <- SomeAsks
  DefaultPage = 2
  HasRedirect = TRUE
  MaxChanges = 2
INVARIANTS
  TypeOK
  OneLogin
  NoRequestWithoutSession
  MissedAtMostCleared
  TwiceAtMostRaised
PROPERTY
  ReadsEnd
