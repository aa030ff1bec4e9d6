SPECIFICATION Spec
CONSTANTS
  Insights = {i1}
  Members = {bob}
  Admins = {ann}
  Tickets = {t1}
  Proposals = {p1}
  Matches = {}
  Tracks = {"engineering"}
  TicketTracks = {"engineering"}
  Requests = {r1, r2}
  Ops = {"triage", "finalize", "reject", "close", "markRaised", "confirm", "copy"}
  Crashes = TRUE
  MaxEvents = 5
  MaxVersion = 1
  MaxIssues = 0
  None = None
SYMMETRY RequestSymmetry
INVARIANTS TypeOK LogGrounded MilestonesInOrder TablesAgreeWithLog
PROPERTIES LedgerSpec
CHECK_DEADLOCK FALSE
