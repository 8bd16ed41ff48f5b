SPECIFICATION Spec
CONSTANTS
  a1 = a1
  a2 = a2
  Agents = {a1, a2}
  MaxLegs = 3
  MaxCards = 2
  Gateway = Gateway
  NoLeg = NoLeg
  MaxDelegationAttempts = 2
  Env = {"reject", "all", "passover", "gateway", "unresolved", "removed"}
  MaxRestarts = 0
INVARIANTS
  TypeOK
  OneLegWorks
  RunningIsAttended
CHECK_DEADLOCK FALSE
SYMMETRY AgentSymmetry
VIEW WithoutSpent
