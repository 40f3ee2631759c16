SPECIFICATION FairSpec

CONSTANTS
  hook1 = hook1
  hook2 = hook2
  matcher1 = matcher1
  matcher2 = matcher2
  Webhooks = {hook1, hook2}
  Automations = {matcher1, matcher2}
  Of <- OneEach
  MaxAttempts = 2
  PerMatcher = 1
  MaxEntries = 2
  MaxCrashes = 1
  MaxFailures = 1
  MaxImports = 1

INVARIANTS
  TypeOK
  KeptUntilTold
  RetriesBounded
  NewestKept
PROPERTIES
  RetriesEnd
CHECK_DEADLOCK FALSE
