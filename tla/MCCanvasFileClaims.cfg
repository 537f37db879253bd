CONSTANTS
  White = white
  Zero = zero
  NoFile = NoFile
  Cells = 3
  InBuffer = 1
  Colors = {white, zero}
  WriteFails = TRUE
  FlushFails = TRUE
SPECIFICATION FairSpec
\* Each of these is violated: check one at a time.
INVARIANTS
  SavedWhole
PROPERTIES
  DefaultAfterBadLoad
