SPECIFICATION FairSpec

CONSTANTS
  Requests = {"r1", "r2"}
  Incoming <- Clients
  ServiceToken <- Service
  Authentic <- Known
  StartRights <- Rights
  Unstable <- Changing
  MaxChanges = 1
  MaxCrashes = 1

INVARIANTS
  TypeOK
  OwnToken
  RightsDecide
  SInv

PROPERTIES
  EveryRequestEnds
