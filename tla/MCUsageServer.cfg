CONSTANTS
  a = a
  b = b
  d = d
  white = white
  red = red
  blue = blue
  Blank = white
  Listener = Listener
  Closed = Closed
  TmpFile = TmpFile
  NoFile = NoFile
  Conns = {a, b, d}
  Fds = {4, 5, 6}
  Cells = 2
  InBuffer = 1
  Colors = {white, red, blue}
  Worlds <- UsageWorlds
  MaxClients = 2
SPECIFICATION UsageFairSpec
INVARIANTS NumbersOwned OpenPagesInSync DrawingsApplied
PROPERTIES UsageDurable AllSettle
CHECK_DEADLOCK FALSE
