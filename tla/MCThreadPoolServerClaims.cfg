CONSTANTS
  a = a
  b = b
  d = d
  w1 = w1
  w2 = w2
  white = white
  red = red
  blue = blue
  odd = odd
  Nobody = Nobody
  Listener = Listener
  Closed = Closed
  TmpFile = TmpFile
  Conns = {a, b, d}
  Fds = {4, 5}
  Workers = {w1, w2}
  Worlds <- PoolWorlds
  QueueSize = 3
  RecvUnits = 2
  Cells = 2
  Colors = {white, red, blue}
  White = white
SPECIFICATION FairSpec
\* Each of these is violated: check one at a time.
INVARIANTS
  EndedRemoved
PROPERTIES
  RemoveOnlyEnded
CHECK_DEADLOCK FALSE
