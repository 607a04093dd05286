SPECIFICATION FairContractSpec

CONSTANTS
  Objects <- TriggerObjects
  StartClusters <- TriggerClusters
  MaxChanges = 2
  Errors = {"NotFound", "Other"}

INVARIANTS
  ContractKept
  AnswerJustified
  AnswerComplete

PROPERTIES
  TriggerErrorsIsolated
