SPECIFICATION MCSpec
CONSTANTS
  Parts = {"budget"}
  Calls = {c1, c2}
  Quotes = {"q1", "q2"}
  Runs = {"r1", "r2"}
  OldInsights = {"i0"}
  NewInsights = {"i1", "i2"}
  Menus <- MCMenus
  MaxTexts = 1
  Crashes = TRUE
  SweepsLive = FALSE
  Uploads = {u1, u2}
  Keys = {"k1", "k2"}
  Shas = {"s1"}
  Quota = 2
  MaxMeetings = 2
  MaxFolders = 1
  Mixes <- MCMixes
  Timers = {t1}
  Admins = {a1}
  MaxRels = 1
  PageSize = 1
  Entries = {"e1", "e2"}
  Tags = {11}
  Asks = {"i1"}
  PollCrashes = 1
  Writers = {w1, w2}
  Askers = {"a", "b"}
  MaxDrafts = 2
  Visits = {v1, v2}
  Emails = {"e1", "e2"}
  Links = {"l1"}
  SpaceIds = {1, 2}
  MaxSpaces = 1
  MaxMembers = 2
  Doors <- MCDoors
  MaxTokens = 1
  Callers = {b1, b2}
  Tenants = {"w1"}
  Cap = 3
  TenantCap = 2
  Costs = {1, 2}
  LastDay = 1
  MaxBilled = 3
  Requests = {q1, q2}
  Gates <- MCGates
  Limit <- MCLimit
  Window <- MCWindow
  PruneAge = 1
  Tries = {d1, d2}
  Mondays = 2
  MaxTries = 3
  MaxTenants = 1
  Period = 1
  Orders = {o1, o2}
  MaxTapes = 2
  MaxRetries = 2
  Patient = TRUE
  DocDies = TRUE
  Pages = {p}
  Panels = {q}
  Sessions <- MCSessions
  MaxLoads = 1
  Servers = {s1}
  Lookups = {g1, g2}
  Changes = {h1}
  Feeds = {"f1", "f2"}
  Ttl = 1
  MaxClock = 2
  Crews <- MCCrews
  Order <- MCOrder
  Desks <- MCDesks
  MaxFetches = 1
  MaxActs = 1
  Outings <- MCOutings
  MaxSteps = 4
  MaxGets = 2
  MaxDeeds = 1
  Errands <- MCErrands
  Occasions <- MCOccasions
  Findings = {"i2"}
  Texts = {"t1", "t2"}
  Surfaces = {"library", "palette"}
  Terms = {"", "a", "ab", "cd"}
  ShortTerms = {"", "a"}
  Filters = {"all", "open"}
  Types = {"any", "ask"}
  MaxTurns = 3
  Matches = {"m1", "m2"}
  Plots <- MCPlots
  Staff = {"ann", "bob"}
  Houses <- MCHouses
  Chars = {"a", "blank", "end", "stamp"}
  MaxText = 5
  ChunkChars = 3
  OverlapChars = 2
INVARIANTS
  RefundsNothingBilled
CHECK_DEADLOCK FALSE
