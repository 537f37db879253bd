CONSTANTS
  a = a
  b = b
  d = d
  white = white
  red = red
  blue = blue
  green = green
  Blank = white
  Closed = Closed
  Conns = {a, b, d}
  Fds = {4, 5}
  Cells = 1
  Colors = {white, red, blue, green}
  Worlds <- ThreadWorlds
  MaxClients = 2
SPECIFICATION FairSpec
INVARIANTS SlotsHaveThreads SameOrder
PROPERTY AllRead
CHECK_DEADLOCK FALSE
