CONSTANTS
  Records = {r1, r2, r3, r4, r5}
  Threads = {main}
  CopiesOfCopies = FALSE
  NULL = NULL
SPECIFICATION Spec
SYMMETRY Symmetry
INVARIANTS TypeOK NotOverwritten NeverLost
