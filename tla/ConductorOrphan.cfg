SPECIFICATION Spec

CONSTANTS
  NodeCount = 3
  Deps <- JoinDeps
  MaxParallel = 2
  RetryLimit <- RetryFirst
  MaxRepairs = 1
  HasOrchestrator = TRUE
  HasBudget = FALSE
  OutcomeCheck = TRUE
  Decide = TRUE
  Scoping = TRUE
  MaxForeign = 1
  MaxCrashes = 0
  QuietWindows = TRUE

PROPERTIES
  NoFurtherWork
