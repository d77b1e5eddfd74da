SPECIFICATION FairSpec
CONSTANTS
  c1 = c1
  k1 = k1
  k2 = k2
  Clients = {c1}
  Collections = {k1, k2}
  MaxReservations = 2
  MaxEvents = 2
  QueueCount = 2
  PerConnection = 2
  Concurrency = 1
INVARIANTS TypeOK Deliveries ResourcesExact
PROPERTIES NoFrameAfterRemoval DispatchProgress
CHECK_DEADLOCK FALSE
