SPECIFICATION Spec
CONSTANTS
  NoRef = NoRef
  Plugins <- JiraOracle
  Tickets <- OneTicket
  Members <- OwnIncident
  OracleEvent = "created"
  OracleNumbers = TRUE
  MaxUpdates = 2
  MayExpire = {1}
  DeskFailures = {"refused", "lost"}
  SaymonFailures = {"refused", "lost"}
  MayCrash = TRUE
INVARIANTS
  OracleRecordedOnce
  RecordedIsCommitted
  ConfirmedIsCommitted
