SPECIFICATION Spec
CONSTANTS
  s1 = s1
  p1 = p1
  c1 = c1
  r1 = r1
  Sessions = {s1}
  SessionOf <- OneLane
  Turns = {p1, c1, r1}
  ServerTurns = {c1}
  ResumeTurns = {r1}
  NoTurn = NoTurn
  Env = {"hold", "expire"}
  MaxDrains = 1
  MaxRestarts = 0
  MaxDetached = 0
INVARIANTS
  OneTurnAtATime
  HeldLaneIsQuiet
  LiveTurnIsFound
  QueueIntact
  QueueIsWatched
PROPERTIES
  LaneIsKept
  RunsOnce
CHECK_DEADLOCK FALSE
