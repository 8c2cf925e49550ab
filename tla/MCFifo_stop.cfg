SPECIFICATION FairSpec
CONSTANTS
  Size = 3
  InputCount = 1
  Word = 16
  Producers = {p1}
  MaxRecs = 5
  MaxSpurious = 1
  OpenFirst = FALSE
  CanStop = TRUE
  TestsRoom = TRUE
  Free = Free
PROPERTY Termination
