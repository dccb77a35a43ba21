SPECIFICATION Spec
CONSTANTS
  Calls <- MCCalls
  CallKind <- MCCallKind
  Script <- MCScript
  Price <- MCPrice
  Configs = {"v1", "v2"}
  Signature <- MCSignature
  Signatures <- MCSignatures
  MaxSteps = 12
  MaxSearchCalls = 2
  MaxRepairRounds = 2
  CostHardLimit = 7
  MaxCrashes = 2
INVARIANTS
  IInv
  SentAtMostOnce
  UsageIsConfirmed
  WithinPolicy
  UnconfirmedOnlyInRepair
  NeverStranded
  KeyDiscipline
PROPERTIES
  NoCallAfterStop
  FinishedIsFinal
  ImplementsLifecycle
  RunsEnd
  JobsComeToRest
CHECK_DEADLOCK FALSE
