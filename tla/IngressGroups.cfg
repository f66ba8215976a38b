SPECIFICATION FairSpec
CONSTANTS
  Ingress = {"i1", "i2"}
  annotated <- MCannotated
  MaxConcurrentReconciles = 2
  MaxEdits = 2
  MaxFaults = 1
INVARIANTS
  NothingMissed
  SecretsWatched
PROPERTIES
  Converges
CHECK_DEADLOCK FALSE
