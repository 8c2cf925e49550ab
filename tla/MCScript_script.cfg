CONSTANTS
  MaxQueries = 6
  MaxDepth = 8
SPECIFICATION Spec
INVARIANT TypeOK
PROPERTIES FollowsScript Ends
CHECK_DEADLOCK FALSE
