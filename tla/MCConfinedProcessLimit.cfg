SPECIFICATION SlotsSpec
CONSTANTS
  i1 = i1
  i2 = i2
  Invocations = {i1, i2}
  Patient = {i1, i2}
  MaxProcesses = 1
INVARIANT ProcessLimit
CHECK_DEADLOCK FALSE
