SPECIFICATION FairSpec
CONSTANTS
  MaxRecs = 4
  MaxSpurious = 1
INVARIANTS TypeOK NoLostWakeup
PROPERTIES EndsOrKnownStop
\* A lock cycle (LockCycle) stops the program.
CHECK_DEADLOCK FALSE
