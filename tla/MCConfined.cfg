SPECIFICATION MCSpec
CONSTANTS
  i1 = i1
  i2 = i2
  i3 = i3
  i4 = i4
  Invocations = {i1, i2, i3, i4}
  Patient = {i1, i2, i3}
  MaxProcesses = 2
  CallFrames = 4
  MaxHostCalls = 3
  MaxInFlight = 2
  PipeSize = 2
INVARIANTS SlotsTypeOK SlotRules TypeOK CallRules
PROPERTIES WaitersServed SettlementFinal SessionCompletes
CHECK_DEADLOCK FALSE
