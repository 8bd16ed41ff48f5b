SPECIFICATION FairSpec
CONSTANTS
  m1 = m1
  m2 = m2
  Members = {m1}
  Local = {}
  Askers = {m1}
  MaxCards = 1
  MaxDelegationAttempts = 2
  Env = {"cancel", "lose", "crash", "stall", "deploy"}
  MaxFaults = 1
INVARIANTS
  DecisionRunsOnce
PROPERTIES
  SettledIsClosed
  EveryFleetEnds
CHECK_DEADLOCK FALSE
