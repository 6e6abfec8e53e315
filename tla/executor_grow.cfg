SPECIFICATION Spec
CONSTANTS
  planner = planner
  builder = builder
  evolve = evolve
  NoFile = NoFile
  Torn = Torn
  NoPhase = NoPhase
  Procs = {p1}
  Phases = {planner, builder}
  Plans <- GrowingPlans
  VerifiedPhases = {builder}
  RetryLimit = 1
  CallerRuns = {"fresh", "interrupted"}
  CliProvider = FALSE
  BudgetLimited = FALSE
  LocksAge = FALSE
  MaxCrashes = 0
INVARIANT FinishedSkippedNothing
