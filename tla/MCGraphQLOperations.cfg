SPECIFICATION FairSpec
CONSTANTS
  op1 = op1
  Ids = {op1}
  MaxFrames = 4
  MaxEvents = 2
INVARIANTS TypeOK OperationRules
PROPERTIES CompleteSteps OperationsProgress
CHECK_DEADLOCK FALSE
