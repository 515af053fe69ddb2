SPECIFICATION Spec
CONSTANTS
  NoRef = NoRef
  Plugins <- JiraRedmine
  Tickets <- TwoTickets
  Members <- NoIncident
  OracleEvent = "created"
  OracleNumbers = TRUE
  MaxUpdates = 2
  MayExpire = {}
  DeskFailures = {"refused"}
  SaymonFailures = {}
  MayCrash = FALSE
INVARIANTS
  TypeOK
  AddressIsOwn
  AddressIsRegistered
  RegisteredOnce
  ClosedEverywhere
