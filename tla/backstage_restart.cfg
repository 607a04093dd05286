SPECIFICATION FairSpec

CONSTANTS
  Environment = "dev"
  Items <- SmallMesh
  Locations <- SmallLocations
  Limits <- SmallLimits

INVARIANTS
  TypeOK
  RelationsVisible

PROPERTIES
  ConsumersShown
  SearchFindsAll
