SPECIFICATION FairSpec
CONSTANTS
  planner = planner
  builder = builder
  evolve = evolve
  NoFile = NoFile
  Torn = Torn
  NoPhase = NoPhase
  Procs = {p1}
  Phases = {planner, builder, evolve}
  Plans <- ThreePhases
  VerifiedPhases = {builder}
  RetryLimit = 2
  CallerRuns = {"fresh", "interrupted"}
  CliProvider = TRUE
  BudgetLimited = TRUE
  LocksAge = TRUE
  MaxCrashes = 2
INVARIANT TypeOK
INVARIANT CompletedHaveReceipts
INVARIANT HaltIsExplained
INVARIANT EarlierOutputConsumed
PROPERTY ImplementsSession
PROPERTY EventuallyComplete
