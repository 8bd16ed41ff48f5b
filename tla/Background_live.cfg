SPECIFICATION FairSpec
CONSTANTS
  a1 = a1
  a2 = a2
  Agents = {a1, a2}
  MaxLegs = 2
  MaxCards = 9
  Gateway = Gateway
  NoLeg = NoLeg
  MaxDelegationAttempts = 2
  Env = {}
  MaxRestarts = 0
PROPERTIES
  EveryAgentEnds
  ResultIsTold
CHECK_DEADLOCK FALSE
