SPECIFICATION FairSpec
CONSTANTS
  planner = planner
  builder = builder
  evolve = evolve
  NoFile = NoFile
  Torn = Torn
  NoPhase = NoPhase
  Procs = {p1, p2}
  Phases = {planner}
  Plans <- OnePhase
  VerifiedPhases = {}
  RetryLimit = 1
  CallerRuns = {"fresh", "interrupted"}
  CliProvider = FALSE
  BudgetLimited = FALSE
  LocksAge = TRUE
  MaxCrashes = 1
PROPERTY EventuallyComplete
PROPERTY EveryCallEnds
