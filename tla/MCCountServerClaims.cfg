CONSTANTS
  a = a
  b = b
  d = d
  white = white
  red = red
  White = white
  Zero = white
  NoFile = NoFile
  Listener = Listener
  Closed = Closed
  TmpFile = TmpFile
  Conns = {a, b, d}
  Fds = {4, 5, 6}
  Cells = 2
  InBuffer = 1
  Colors = {white, red}
  WriteFails = FALSE
  FlushFails = FALSE
  Worlds <- CountWorlds
  MaxClients = 2
  CountSize = 4
SPECIFICATION ServerFairSpec
\* Each of these is violated: check one at a time.
INVARIANTS
  CountAlwaysExact
  InitialCanvasWhole
  SigintExits
PROPERTIES
  RefusedOnlyWhenFull
  BroadcastEnds
CHECK_DEADLOCK FALSE
