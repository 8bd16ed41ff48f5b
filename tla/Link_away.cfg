SPECIFICATION Spec
CONSTANTS
  c1 = c1
  c2 = c2
  Calls = {c1}
  MaxAsked = 3
  MaxLinks = 2
  MaxStreams = 1
  Env = {"cut"}
  MaxFaults = 1
INVARIANTS
  AwayIsAWait
CHECK_DEADLOCK FALSE
