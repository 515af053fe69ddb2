SPECIFICATION FairSpec
CONSTANTS
  r1 = r1
  r2 = r2
  Request = {r1, r2}
  IncidentsTTL = 2
  ClassesTTL = 1
  LabelsTTL = 2
  FetchTime = 2
INVARIANTS
  IncidentsAreRecent
PROPERTY
  LabelsComeBack
