SPECIFICATION FairSpec
CONSTANTS
  j1 = j1
  j2 = j2
  n1 = n1
  n2 = n2
  w1 = w1
  w2 = w2
  k1 = k1
  k2 = k2
  Jobs = {j1, j2}
  Nodes = {n1, n2}
  Workers = {w1, w2}
  NodeOf <- OneEach
  Handled <- AllHandled
  MaxAttempts <- SameAttempts
  Attempts = 2
  Tokens = {k1, k2}
  NoClaim = NoClaim
  NoJob = NoJob
  Env = {"crash", "stall"}
  MaxFaults = 1
PROPERTIES
  EveryJobIsServed
  LostClaimStops
CHECK_DEADLOCK FALSE
