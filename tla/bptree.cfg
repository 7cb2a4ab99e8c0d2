CONSTANTS
  N = 11
  MaxRemoved = 3
  short = short
  padded = padded
  long = long
  Paths <- MCPaths
  Hash <- MCHash
  Values = {short, long}
  Inline = {short}
  Padded <- MCPadded
  MaxLoad = 4
  MaxOpens = 1
SPECIFICATION MCSpec
CONSTRAINT Bounded
VIEW Unnamed
INVARIANTS
  TypeOK
  assertInvariants
  LevelsRight
  NoLeak
  NoDangling
  FileHoldsTree
  UndefinedOnlyUnwritten
  ThrowsUnchanged
PROPERTY ImplementsMap
CHECK_DEADLOCK FALSE
