SPECIFICATION Spec
CONSTANTS
  planner = planner
  builder = builder
  evolve = evolve
  NoFile = NoFile
  Torn = Torn
  NoPhase = NoPhase
  Procs = {p1, p2}
  Phases = {planner, builder}
  Plans <- TwoPhases
  VerifiedPhases = {builder}
  RetryLimit = 1
  CallerRuns = {"fresh", "interrupted"}
  CliProvider = FALSE
  BudgetLimited = FALSE
  LocksAge = TRUE
  MaxCrashes = 1
INVARIANT CompletedWereAccepted
INVARIANT NoPhaseTwice
SYMMETRY Symmetry
INVARIANT ExclusiveUnlessRobbed
