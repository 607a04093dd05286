SPECIFICATION FairSpec

CONSTANTS
  Components <- SmallComponents
  Apis <- SmallApis
  PageLimit = 1
  Limits <- SmallLimits

INVARIANTS
  TypeOK
  EmittedJustified
  EmittedComplete
  PInv

PROPERTIES
  RelationsConverge

CHECK_DEADLOCK FALSE
