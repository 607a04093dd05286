SPECIFICATION FairSpec

CONSTANTS
  Ids = {"dev", "prod"}
  Scheduled = {"dev", "prod"}
  RootToken = TRUE
  Replicas = {"r1"}
  Items <- TwoClusters
  Limits <- TwoLimits

PROPERTIES
  ShownByOneRun
  Converges
