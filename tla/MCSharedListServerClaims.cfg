SPECIFICATION ListFairSpec
CONSTANTS
  a = a  b = b  d = d
  white = white  red = red  blue = blue
  odd = odd
  n1 = n1  n2 = n2  n3 = n3
  Conns = {a, b, d, e}
  Fds = {1, 2}
  Listener = listener
  Closed = closed
  TmpFile = tmpfile
  Worlds <- ClaimWorlds
  RecvUnits = 3
  QueueSize = 3
  Nodes = {n1, n2, n3, n4}
  Null = null
  Cells = 2
  Colors = {white, red, blue}
  White = white
\* Each of these is violated: check one at a time.
INVARIANTS
  ListsEveryClient
  NextIsClient
  ListedWatched
  EndedRemoved
PROPERTIES
  EverythingReceived
  RemovesOnlyIt
CHECK_DEADLOCK FALSE
