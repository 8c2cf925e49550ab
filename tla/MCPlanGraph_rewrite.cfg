SPECIFICATION FairSpec
CONSTANTS
  Nested <- MCNested
  Queries <- DocumentedUpdate
CHECK_DEADLOCK FALSE
INVARIANT Routed
