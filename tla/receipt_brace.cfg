SPECIFICATION MCSpec
CONSTANTS
  Parts = {"agent"}
  Runners = {p1, p2}
  NTasks = 2
  Costs = {1}
  MaxCost = 1
  LimitSet = 1
  NoLimit = NoLimit
  Blank = Blank
  Garbled = Garbled
  MaxDeaths = 1
  Pieces <- Unmatched
  MaxSaid = 3
  NPhases = 2
  Checked = {2}
  Attempts = 2
  MaxRuns = 2
  MaxTime = 4
  Lessons = {l1, l2, l3}
  Pruners = {q1, q2}
  PruneAt = 2
  Skills = {s1}
  Index = Index
  Providers = {"claude", "gemini"}
  Nothing = Nothing
  MaxVersion = 2
  MaxPlace = 2
  MaxBreaks = 0
  KeyIds = {k1}
  Rotations = {r1, r2}
  Clients = {c1}
  Projects = {pa, pb}
  Global = Global
  NoRow = NoRow
  MaxRaw = 4
  Requests = {x1, x2}
  Headers = {h1, h2}
  RpmLimit = 1
  Minute = 2
  MaxEntries = 1
  NoEntry = NoEntry
  MaxWait = 1
  MaxClock = 5
CHECK_DEADLOCK FALSE
INVARIANT ReceiptFound
