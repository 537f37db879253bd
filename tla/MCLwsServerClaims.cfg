CONSTANTS
  a = a
  b = b
  d = d
  white = white
  red = red
  blue = blue
  Sessions = {a, b, d}
  Null = Null
  Cells = 2
  Colors = {white, red, blue}
  White = white
  Scripts <- ScriptPages
  LeavingPages = {d}
  Failures = {{"buffer"}, {"message"}}
SPECIFICATION LwsFairSpec
\* Each of these is violated: check one at a time.
INVARIANTS
  ListsEverySession
  PicturesCurrent
CHECK_DEADLOCK FALSE
