SPECIFICATION FairSpec
CONSTANTS
  Insights = {i1, i2}
  Members = {bob}
  Admins = {}
  Tickets = {}
  Proposals = {}
  Matches = {}
  Tracks = {"engineering"}
  TicketTracks = {"engineering"}
  Requests = {r1, r2}
  Ops = {"triage", "edit", "reject", "merge", "finalize"}
  Crashes = TRUE
  MaxEvents = 2
  MaxVersion = 2
  MaxIssues = 0
  None = None
INVARIANTS NoLostEdit SecondUpdatesMatchLog
PROPERTIES RequestsAnswered
CHECK_DEADLOCK FALSE
