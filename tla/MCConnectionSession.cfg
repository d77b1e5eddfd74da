SPECIFICATION FairSpec
CONSTANTS
  conn1 = conn1
  Conns = {conn1}
  user1 = user1
  user2 = user2
  Users = {user1, user2}
  Revocable = {user1}
  ip1 = ip1
  Ips = {ip1}
  IpOf <- MCIpOf
  Anonymous = Anonymous
  TransportLimit = 2
  ProcessLimit = 2
  IpLimit = 1
  UserLimit = 1
  Modes = {"public", "handshake", "strict"}
  PendingLimit = 2
  MaxFrames = 4
  MaxDeliveries = 1
INVARIANTS TypeOK IdentityRules
PROPERTIES IdentitySteps ConnectionProgress
CHECK_DEADLOCK FALSE
