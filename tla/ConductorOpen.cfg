SPECIFICATION FairSpec

CONSTANTS
  NodeCount = 2
  Deps <- ChainDeps
  MaxParallel = 1
  RetryLimit <- RetryFirst
  MaxRepairs = 1
  HasOrchestrator = TRUE
  HasBudget = FALSE
  OutcomeCheck = TRUE
  Decide = TRUE
  Scoping = TRUE
  MaxForeign = 1
  MaxCrashes = 1
  QuietWindows = FALSE

INVARIANTS
  SlotsExact
  VerdictAwaited
  AttemptsBounded
  RepairsBounded
PROPERTIES
  RunSettles
