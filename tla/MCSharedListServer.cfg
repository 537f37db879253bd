SPECIFICATION ListFairSpec
CONSTANTS
  a = a  b = b  d = d
  white = white  red = red  blue = blue
  odd = odd
  n1 = n1  n2 = n2  n3 = n3
  Conns = {a, b, d}
  Fds = {1, 2}
  Listener = listener
  Closed = closed
  TmpFile = tmpfile
  Worlds <- ListWorlds
  RecvUnits = 3
  QueueSize = 3
  Nodes = {n1, n2, n3}
  Null = null
  Cells = 2
  Colors = {white, red, blue}
  White = white
INVARIANT ToldInSync
PROPERTY RemoveOnlyEnded
PROPERTY SegmentsRead
CHECK_DEADLOCK FALSE
