CONSTANTS
  a = a
  b = b
  d = d
  white = white
  red = red
  blue = blue
  Sessions = {a, b, d}
  Null = Null
  Cells = 2
  Colors = {white, red, blue}
  White = white
  Scripts <- ScriptPages
  LeavingPages = {d}
  Failures = {{"buffer"}, {"message"}}
SPECIFICATION LwsFairSpec
INVARIANT ListLinked
PROPERTY LastDrawnShown
CHECK_DEADLOCK FALSE
