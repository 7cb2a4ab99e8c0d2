CONSTANTS
  N = 2
  MaxRemoved = 0
  short = short
  padded = padded
  long = long
  Paths <- MCPaths
  Hash <- MCHash
  Values = {long}
  Inline = {}
  Padded <- MCPadded
  MaxLoad = 4
  MaxOpens = 1
SPECIFICATION Spec
VIEW Unnamed
PROPERTY ReopenKeeps
