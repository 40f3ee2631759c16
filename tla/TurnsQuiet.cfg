SPECIFICATION FairSpec

CONSTANTS
  MaxMessages = 3
  Texts <- FirstTwo
  Nudges <- LastOne
  Recovered <- None
  Overlap = FALSE
  Mishaps <- Quietly
  MaxMishaps = 3

PROPERTIES
  CompletionMeansIdle
  StopHolds
  UserTurnsTold
  AllAnswered
  TurnsEnd
CHECK_DEADLOCK FALSE
