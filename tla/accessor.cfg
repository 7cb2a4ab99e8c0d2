CONSTANTS
  Clients = {c1, c2}
  Paths = {p1, p2}
  Lives = {1, 2}
  MaxSets = 2
  MaxTime = 2
SPECIFICATION Spec
INVARIANTS
  TypeOK
  WaitCoversQueue
  TimedIsWatched
PROPERTIES
  RemovesOwnOrNewer
  TimedKeysGo
  ReturnsWithTimer
CHECK_DEADLOCK FALSE
