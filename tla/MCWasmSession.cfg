SPECIFICATION Spec
CONSTANTS
  MaxAttempts = 2
  Types <- MCTypes
  Roots = {"List"}
  KindOf <- MCKindOf
  FieldsOf <- MCFieldsOf
  NoType = NoType
  MaxPlans = 4
  MaxFaults = 1
  Objects = {o1, o2, o3}
  Threshold = 1
  MaxDepth = 1
  MaxNodes = 3
  MaxCalls = 4
  MaxGrowth = 1
INVARIANTS
  SessionTypeOK
  HandleClosure
  RetryStartsAfresh
  ReturnedDataComplete
  DetachedOnlyByUserCode
  CycleSetIsStack
  CleanBetweenCalls
PROPERTIES
  RuntimeNeverReplaced
  InitAnswered
