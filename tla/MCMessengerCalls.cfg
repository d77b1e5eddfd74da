SPECIFICATION FairSpec
CONSTANTS
  ch1 = ch1
  ch2 = ch2
  Channels = {ch1, ch2}
  Deniable = {"unsubscribe", "publish"}
  MaxCalls = 3
  MaxFaults = 2
INVARIANTS TypeOK AvailableDelivers RecoveryProtocol
PROPERTY Recovers
CHECK_DEADLOCK FALSE
