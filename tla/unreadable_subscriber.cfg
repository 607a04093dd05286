SPECIFICATION FairSpec

CONSTANTS
  Objects <- ChannelObjects
  StartClusters <- ChannelClusters
  MaxChanges = 0
  Errors = {"Forbidden"}

PROPERTIES
  UnreadableSubscriberTolerated
