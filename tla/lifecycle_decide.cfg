SPECIFICATION Spec
CONSTANTS
  Insights = {i1}
  Members = {bob}
  Admins = {ann}
  Tickets = {}
  Proposals = {p1}
  Matches = {}
  Tracks = {"engineering"}
  TicketTracks = {"engineering"}
  Requests = {r1, r2}
  Ops = {"triage", "finalize", "confirm", "rejectProposal"}
  Crashes = FALSE
  MaxEvents = 4
  MaxVersion = 1
  MaxIssues = 0
  None = None
PROPERTIES ConfirmedStands
CHECK_DEADLOCK FALSE
