SPECIFICATION FairSpec
CONSTANTS
  Size = 3
  InputCount = 1
  Word = 16
  Producers = {p1}
  MaxRecs = 2
  MaxSpurious = 1
  OpenFirst = FALSE
  CanStop = FALSE
  TestsRoom = TRUE
  Free = Free
INVARIANTS AllProcessed
