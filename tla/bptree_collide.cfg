CONSTANTS
  N = 6
  MaxRemoved = 0
  short = short
  padded = padded
  long = long
  Paths <- MCPaths
  Hash <- Colliding
  Values = {long}
  Inline = {}
  Padded <- MCPadded
  MaxLoad = 4
  MaxOpens = 0
SPECIFICATION Spec
VIEW Unnamed
PROPERTY RemoveKeepsOthers
