SPECIFICATION Spec
CONSTANTS
  Insights = {i1}
  Members = {bob}
  Admins = {ann}
  Tickets = {}
  Proposals = {p1}
  Matches = {}
  Tracks = {"engineering"}
  TicketTracks = {"engineering"}
  Requests = {r1}
  Ops = {"triage", "finalize", "confirm", "close"}
  Crashes = FALSE
  MaxEvents = 5
  MaxVersion = 1
  MaxIssues = 0
  None = None
INVARIANTS ReopenHasReason
CHECK_DEADLOCK FALSE
