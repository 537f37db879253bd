CONSTANTS
  a = a
  b = b
  c = c
  p = p
  q = q
  r = r
  Closed = Closed
  TmpFile = TmpFile
  Listener = Listener
  Nothing = Nothing
  Part = Part
  Conns = {a, b, c}
  Fds = {4, 5}
  Pixels = {p, q, r}
  Worlds <- PollWorlds
SPECIFICATION Spec
\* This is violated.
INVARIANTS
  FileParses
CHECK_DEADLOCK FALSE
