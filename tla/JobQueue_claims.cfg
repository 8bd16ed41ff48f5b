SPECIFICATION Spec
CONSTANTS
  j1 = j1
  j2 = j2
  n1 = n1
  n2 = n2
  w1 = w1
  w2 = w2
  k1 = k1
  k2 = k2
  Jobs = {j1, j2}
  Nodes = {n1, n2}
  Workers = {w1, w2}
  NodeOf <- OneEach
  Handled <- SomeHandled
  MaxAttempts <- SameAttempts
  Attempts = 2
  Tokens = {k1, k2}
  NoClaim = NoClaim
  NoJob = NoJob
  Env = {"crash", "stall", "store", "error", "stop", "quiesce"}
  MaxFaults = 1
INVARIANTS
  TypeOK
  ClaimIsExact
  AttemptsBounded
PROPERTIES
  LeaseIsKept
  OthersRunIsSafe
  EndingIsFinal
CHECK_DEADLOCK FALSE
SYMMETRY TokenSymmetry
VIEW WithoutBlame
