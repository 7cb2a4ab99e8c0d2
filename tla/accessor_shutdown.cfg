CONSTANTS
  Clients = {c1}
  Paths = {p1}
  Lives = {1}
  MaxSets = 1
  MaxTime = 3
SPECIFICATION Spec
PROPERTY DestructorReturns
CHECK_DEADLOCK FALSE
