SPECIFICATION Spec

CONSTANTS
  Metas <- TwoMetas
  FirstMeta = "draft"
  MaxSaves = 2
  Mishaps = {"crash"}
  MaxWaiters = 2
  MaxMishaps = 1

PROPERTIES
  OriginalIntact
