SPECIFICATION Spec

CONSTANTS
  MaxMessages = 2
  Texts <- None
  Nudges <- None
  Recovered <- None
  Overlap = TRUE
  Mishaps <- None
  MaxMishaps = 0

PROPERTIES
  OneTurnAtATime
CHECK_DEADLOCK FALSE
