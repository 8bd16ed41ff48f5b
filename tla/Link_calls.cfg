SPECIFICATION FairSpec
CONSTANTS
  c1 = c1
  c2 = c2
  Calls = {c1}
  MaxAsked = 3
  MaxLinks = 3
  MaxStreams = 1
  Env = {"cut", "stream", "slow", "restart", "old", "stop"}
  MaxFaults = 2
INVARIANTS
  TypeOK
  RunsAgainOnlyInTheGap
  GoneCarriesNothing
  HeldIsRegistered
PROPERTIES
  CallEnds
CHECK_DEADLOCK FALSE
