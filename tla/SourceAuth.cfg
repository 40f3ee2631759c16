SPECIFICATION FairSpec

CONSTANTS
  session1 = session1
  session2 = session2
  Sessions = {session1, session2}
  None = None
  Kinds <- AllKinds
  MaxFlows = 2
  MaxCards = 1
  MaxExpiries = 2
  Mishaps <- AllMishaps
  MaxMishaps = 2

INVARIANTS
  TypeOK
  NoReuse
  FreshShown
  OneSignIn
PROPERTIES
  SignInAnswers
  RequestsEnd
CHECK_DEADLOCK FALSE
