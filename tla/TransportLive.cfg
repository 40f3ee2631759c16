SPECIFICATION FairSpec

CONSTANTS
  MaxSockets = 3
  MaxEvents = 2
  BufferMax = 1
  MaxClients = 1
  AuthTakesTurns = FALSE
  Mishaps <- AllMishaps
  MaxMishaps = 2

PROPERTIES
  CaughtUp
CHECK_DEADLOCK FALSE
