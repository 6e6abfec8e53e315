SPECIFICATION Spec
CONSTANTS
  planner = planner
  builder = builder
  evolve = evolve
  NoFile = NoFile
  Torn = Torn
  NoPhase = NoPhase
  Procs = {p1}
  Phases = {planner}
  Plans <- OnePhase
  VerifiedPhases = {}
  RetryLimit = 1
  CallerRuns = {"fresh"}
  CliProvider = FALSE
  BudgetLimited = TRUE
  LocksAge = FALSE
  MaxCrashes = 0
INVARIANT UnfinishedIsHalted
