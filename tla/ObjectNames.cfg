SPECIFICATION FairSpec
CONSTANTS
  c1 = c1
  c2 = c2
  c3 = c3
  c4 = c4
  Caller = {c1, c2, c3, c4}
  host = host
  Object = {host}
  NoCaller = NoCaller
INVARIANTS
  OneFetch
  EntryHasMaker
PROPERTY
  EveryoneReturns
