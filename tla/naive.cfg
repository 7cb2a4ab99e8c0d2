CONSTANTS
  none = none
  small = small
  large = large
  Paths = {p1, p2, p3}
  Values = {none, small, large}
  Size <- MCSize
  Node = 1
  Initial = 4
  MaxFile = 32
  MaxDeaths = 1
SPECIFICATION Spec
INVARIANTS
  LastSetReads
  UndefinedOnlyByTimer
PROPERTIES
  ThrowsOnlyIfLarge
  ImplementsMap
CHECK_DEADLOCK FALSE
