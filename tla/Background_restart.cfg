SPECIFICATION Spec
CONSTANTS
  a1 = a1
  a2 = a2
  Agents = {a1}
  MaxLegs = 4
  MaxCards = 2
  Gateway = Gateway
  NoLeg = NoLeg
  MaxDelegationAttempts = 2
  Env = {"reject", "stop", "crash", "cancel", "deadline", "revoked", "expire"}
  MaxRestarts = 2
INVARIANTS
  RunningIsAttended
  ToldOnce
PROPERTIES
  DelegationIsKept
CHECK_DEADLOCK FALSE
SYMMETRY AgentSymmetry
VIEW WithoutSpent
