SPECIFICATION FairSpec

CONSTANTS
  Ids = {"dev", "prod"}
  Scheduled = {"dev"}
  RootToken = TRUE
  Replicas = {"r1"}
  Items <- TwoClusters
  Limits <- TwoLimits

INVARIANTS
  ScheduleOptional
