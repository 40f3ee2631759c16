SPECIFICATION Spec

CONSTANTS
  NodeCount = 3
  Deps <- JoinDeps
  MaxParallel = 2
  RetryLimit <- RetryFirst
  MaxRepairs = 1
  HasOrchestrator = TRUE
  HasBudget = TRUE
  OutcomeCheck = TRUE
  Decide = TRUE
  Scoping = TRUE
  MaxForeign = 2
  MaxCrashes = 0
  QuietWindows = TRUE

INVARIANTS
  TypeOK
  ResultsFresh
  CompletedAsVerified
