CONSTANTS
  zero = zero
  small = small
  big = big
  huge = huge
  Threads = {client, timer}
  Clients = {client}
  Timed = {p1}
  Paths = {p1, p2, p3}
  Values = {small, big, huge}
  Size <- MCSize
  MaxSize = 3
SPECIFICATION Spec
INVARIANTS
  TypeOK
  OneEntryEach
  Coherent
  WithinLimit
  Accounting
  LruInOrder
  UndefinedByGrowthOrRace
PROPERTY CallsReturn
CHECK_DEADLOCK FALSE
