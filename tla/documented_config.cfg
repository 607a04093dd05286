SPECIFICATION FairSpec

CONSTANTS
  Ids = {"dev"}
  Scheduled = {"dev"}
  RootToken = FALSE
  Replicas = {"r1"}
  Items <- OneCluster
  Limits <- OneLimits

INVARIANTS
  DocumentedConfigAccepted
