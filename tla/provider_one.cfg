SPECIFICATION FairSpec

CONSTANTS
  Ids = {"dev"}
  Scheduled = {"dev"}
  RootToken = TRUE
  Replicas = {"r1", "r2"}
  Items <- OneCluster
  Limits <- OneLimits

INVARIANTS
  TypeOK
  ReferencesResolve

PROPERTIES
  MirrorSpec
  StaysShown
  Converges
