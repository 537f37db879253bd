CONSTANTS
  a = a
  b = b
  d = d
  k1 = k1
  k2 = k2
  white = white
  red = red
  blue = blue
  mauve = mauve
  None = None
  Listen = Listen
  Conns = {a, b, d}
  Fds = {4, 5}
  Keys = {k1}
  Colors = {white, red, blue}
  White = white
  Worlds <- SafetyWorlds
  RecvUnits = 3
  BufUnits = 3
  QueueSize = 4
SPECIFICATION Spec
INVARIANTS TypeOK PipelineOrder ListMatchesSockets CountNeverUnder MessagesCurrent ReplicaInSync ModifiedMatchesCanvas
CHECK_DEADLOCK FALSE
