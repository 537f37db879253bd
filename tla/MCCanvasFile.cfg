CONSTANTS
  White = white
  Zero = zero
  NoFile = NoFile
  Cells = 3
  InBuffer = 1
  Colors = {white, zero}
  WriteFails = TRUE
  FlushFails = FALSE
SPECIFICATION FairSpec
INVARIANT SavedWhole
PROPERTIES ImplementsDurable LastDrawingSaved
