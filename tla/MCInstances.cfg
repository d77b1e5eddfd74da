SPECIFICATION MCSpec
CONSTANTS
  n1 = n1
  n2 = n2
  Nodes = {n1, n2}
  MaxFlowWrites = 2
  MaxWrites = 2
  u1 = u1
  u2 = u2
  Users = {u1, u2}
  share1 = share1
  Shares = {share1}
  q1 = q1
  q2 = q2
  Requests = {q1, q2}
  Nobody = Nobody
  MaxTokens = 3
  r1 = r1
  r2 = r2
  Roles = {r1, r2}
  NoRole = NoRole
SYMMETRY Symmetry
INVARIANTS TypeOK FlowsCurrent CachesFresh SessionRules AdminRules
PROPERTY ChecksHold
CHECK_DEADLOCK FALSE
