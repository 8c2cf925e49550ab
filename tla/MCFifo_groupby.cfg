SPECIFICATION FairSpec
CONSTANTS
  Size = 3
  InputCount = 1
  Word = 16
  Producers = {p1}
  MaxRecs = 5
  MaxSpurious = 1
  OpenFirst = TRUE
  CanStop = FALSE
  TestsRoom = TRUE
  Free = Free
INVARIANTS TypeOK RoomToAdd RingIsBacklog NoLostWakeup AllProcessed
PROPERTIES PipeSpec Termination
