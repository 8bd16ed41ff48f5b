SPECIFICATION Spec
CONSTANTS
  s1 = s1
  p1 = p1
  c1 = c1
  r1 = r1
  Sessions = {s1}
  SessionOf <- OneLane
  Turns = {p1, c1}
  ServerTurns = {c1}
  ResumeTurns = {}
  NoTurn = NoTurn
  Env = {"stop", "quiet", "quiesce", "store"}
  MaxDrains = 1
  MaxRestarts = 1
  MaxDetached = 1
INVARIANTS
  TypeOK
  NoGhostRow
  LiveTurnIsFound
  QueueIsWatched
PROPERTIES
  LaneIsKept
  EndingIsFinal
CHECK_DEADLOCK FALSE
