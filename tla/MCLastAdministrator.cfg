SPECIFICATION AdminSpec
CONSTANTS
  r1 = r1
  r2 = r2
  u1 = u1
  u2 = u2
  q1 = q1
  q2 = q2
  NoRole = NoRole
  Roles = {r1, r2}
  Users = {u1, u2}
  Requests = {q1, q2}
  Nodes = {}
SYMMETRY Symmetry
PROPERTY DeletionLeavesAdmin
CHECK_DEADLOCK FALSE
