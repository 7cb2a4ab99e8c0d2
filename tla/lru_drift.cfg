CONSTANTS
  zero = zero
  small = small
  big = big
  huge = huge
  Threads = {client}
  Clients = {client}
  Timed = {p1}
  Paths = {p1, p2, p3}
  Values = {zero, small, big, huge}
  Size <- MCSize
  MaxSize = 3
SPECIFICATION Spec
PROPERTY ThrowsOnlyIfTooLarge
CHECK_DEADLOCK FALSE
