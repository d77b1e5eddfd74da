SPECIFICATION FairSpec
CONSTANTS
  Nodes = {n1, n2}
  Schedules = {s1}
  MaxOccurrence = 2
  MaxFaults = 1
INVARIANTS TypeOK AtMostOnce RecoveryProtocol
PROPERTIES LedgerSpec Recovery
CHECK_DEADLOCK FALSE
