SPECIFICATION FairSpec
CONSTANTS
  NoRef = NoRef
  Plugins <- OracleOnly
  Tickets <- TwoTickets
  Members <- OwnIncident
  OracleEvent = "closed"
  OracleNumbers = TRUE
  MaxUpdates = 1
  MayExpire = {1}
  DeskFailures = {"refused"}
  SaymonFailures = {"refused"}
  MayCrash = FALSE
INVARIANTS
  ConfirmationsKept
  PostedOnce
PROPERTIES
  PendingIsFlushed
