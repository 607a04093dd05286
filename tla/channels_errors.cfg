SPECIFICATION FairSpec

CONSTANTS
  Objects <- ChannelObjects
  StartClusters <- ChannelClusters
  MaxChanges = 2
  Errors = {"NotFound", "Unauthorized", "Forbidden"}

INVARIANTS
  IInv

PROPERTIES
  QuerySpec
