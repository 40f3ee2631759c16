SPECIFICATION FairSpec

CONSTANTS
  Metas <- TwoMetas
  FirstMeta = "draft"
  MaxSaves = 3
  Mishaps = {"edit", "update", "misread", "failure", "cleanup", "delete", "crash"}
  MaxWaiters = 2
  MaxMishaps = 1

INVARIANTS
  TypeOK
  Attended
  FlushesSerialized
  AcceptedStored
  LatestAtRest
PROPERTIES
  NeverBackwards
  Drains
