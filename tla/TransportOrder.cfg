SPECIFICATION Spec

CONSTANTS
  MaxSockets = 3
  MaxEvents = 3
  BufferMax = 2
  MaxClients = 2
  AuthTakesTurns = TRUE
  Mishaps <- AllMishaps
  MaxMishaps = 2

INVARIANTS
  TypeOK
  AckedWasSeen
  BehindNeverReplays
PROPERTIES
  InOrder
CHECK_DEADLOCK FALSE
