SPECIFICATION Spec
CONSTANTS
  Calls <- MCCalls
  CallKind <- MCCallKind
  Script <- MCScript
  Price <- MCPrice
  Configs = {"v1"}
  Signature <- MCSignature
  Signatures <- MCSignatures
  MaxSteps = 12
  MaxSearchCalls = 2
  MaxRepairRounds = 2
  CostHardLimit = 7
  MaxCrashes = 1
PROPERTY
  StatusFollowsTable
CHECK_DEADLOCK FALSE
