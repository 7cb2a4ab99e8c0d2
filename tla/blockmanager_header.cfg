CONSTANTS
  empty = empty
  small = small
  large = large
  none = none
  ByteBits = 2
  BitmapBytes = 2
  Sectors = 4
  LastBlock = 7
  MaxCalls = 8
  MaxRestarts = 1
  Values <- MCValues
  Size <- MCSize
  NoData = none
SPECIFICATION Spec
INVARIANT FirstFreeAlwaysFree
CHECK_DEADLOCK FALSE
