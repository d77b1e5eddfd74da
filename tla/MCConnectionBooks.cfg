SPECIFICATION Spec
CONSTANTS
  conn1 = conn1
  conn2 = conn2
  conn3 = conn3
  Conns = {conn1, conn2, conn3}
  user1 = user1
  Users = {user1}
  Revocable = {}
  ip1 = ip1
  Ips = {ip1}
  IpOf <- MCIpOf
  Anonymous = Anonymous
  TransportLimit = 2
  ProcessLimit = 2
  IpLimit = 1
  UserLimit = 1
  Modes = {"public", "handshake", "strict"}
  PendingLimit = 1
  MaxFrames = 2
  MaxDeliveries = 1
SYMMETRY Symmetry
INVARIANT AdmissionRules
CHECK_DEADLOCK FALSE
