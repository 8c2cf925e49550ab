SPECIFICATION FairSpec
CONSTANTS
  Nested <- MCNested
  Queries <- MCQueries
CHECK_DEADLOCK FALSE
INVARIANTS TypeOK NoDangling OneWriter Routed AllScheduled NoWaitCycle Awaited
PROPERTIES Planned
