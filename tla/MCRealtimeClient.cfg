SPECIFICATION FairSpec
CONSTANTS
  s1 = s1
  s2 = s2
  a = a
  Subs = {s1, s2}
  Uids = {a}
  Retries = 2
  MaxAttempts = 3
  MaxTokens = 2
CONSTRAINT OneConcern
INVARIANTS TypeOK ClientRules
PROPERTIES DisconnectStays ClientProgress
CHECK_DEADLOCK FALSE
