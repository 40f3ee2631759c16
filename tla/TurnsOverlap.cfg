SPECIFICATION Spec

CONSTANTS
  MaxMessages = 3
  Texts <- FirstTwo
  Nudges <- None
  Recovered <- LastOne
  Overlap = TRUE
  Mishaps <- MishapKinds
  MaxMishaps = 1

INVARIANTS
  TypeOK
  InOnePlace
  QueueShown
PROPERTIES
  TurnsApart

CHECK_DEADLOCK FALSE
