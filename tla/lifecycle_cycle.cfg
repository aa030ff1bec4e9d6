SPECIFICATION Spec
CONSTANTS
  Insights = {i1, i2}
  Members = {bob}
  Admins = {}
  Tickets = {}
  Proposals = {}
  Matches = {}
  Tracks = {"engineering"}
  TicketTracks = {"engineering"}
  Requests = {r1, r2}
  Ops = {"merge"}
  Crashes = FALSE
  MaxEvents = 2
  MaxVersion = 1
  MaxIssues = 0
  None = None
INVARIANTS MergesAreAcyclic
CHECK_DEADLOCK FALSE
