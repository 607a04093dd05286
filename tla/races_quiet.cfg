SPECIFICATION FairContractSpec

CONSTANTS
  Objects <- MixedObjects
  StartClusters <- MixedClusters
  MaxChanges = 2
  Errors = {}

INVARIANTS
  ContractKept
  TypeOK
  AnswerClosed
  RacesCostNothing

PROPERTIES
  EveryRequestEnds
