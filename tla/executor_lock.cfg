SPECIFICATION Spec
CONSTANTS
  planner = planner
  builder = builder
  evolve = evolve
  NoFile = NoFile
  Torn = Torn
  NoPhase = NoPhase
  Procs = {p1, p2}
  Phases = {planner}
  Plans <- OnePhase
  VerifiedPhases = {}
  RetryLimit = 1
  CallerRuns = {"fresh"}
  CliProvider = FALSE
  BudgetLimited = FALSE
  LocksAge = FALSE
  MaxCrashes = 0
INVARIANT MutualExclusion
