SPECIFICATION Spec
CONSTANTS
  m1 = m1
  m2 = m2
  Members = {m1, m2}
  Local = {m2}
  Askers = {m1}
  MaxCards = 1
  MaxDelegationAttempts = 2
  Env = {"cancel", "store", "die", "unresolved", "deploy"}
  MaxFaults = 1
INVARIANTS
  TypeOK
  RunningIsExpected
PROPERTIES
  JoinIsKept
CHECK_DEADLOCK FALSE
