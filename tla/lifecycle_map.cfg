SPECIFICATION Spec
CONSTANTS
  Insights = {i1}
  Members = {bob}
  Admins = {ann}
  Tickets = {}
  Proposals = {}
  Matches = {}
  Tracks = {"engineering"}
  TicketTracks = {"engineering"}
  Requests = {r1, r2}
  Ops = {"triage", "finalize", "reject"}
  Crashes = FALSE
  MaxEvents = 3
  MaxVersion = 1
  MaxIssues = 0
  None = None
PROPERTIES StateFollowsMap
CHECK_DEADLOCK FALSE
