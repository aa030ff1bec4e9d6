SPECIFICATION Spec
CONSTANTS
  Insights = {i1, i2}
  Members = {}
  Admins = {ann}
  Tickets = {t1}
  Proposals = {m1}
  Matches = {m1}
  Tracks = {"engineering"}
  TicketTracks = {"engineering"}
  Requests = {r1}
  Ops = {"triage", "edit", "finalize", "reject", "merge", "close", "markRaised", "createDirect", "confirm", "rejectProposal", "copy", "markStale"}
  Crashes = FALSE
  MaxEvents = 4
  MaxVersion = 2
  MaxIssues = 1
  None = None
INVARIANTS MergesAreAcyclic
PROPERTIES BoardSpec
CHECK_DEADLOCK FALSE
