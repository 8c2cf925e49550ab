SPECIFICATION FairSpec
CONSTANTS
  Rows = 4
  MaxEntries = 2
  Capacity = 3
  Joins = {"hash", "join_where"}
INVARIANTS TypeOK WrittenOnce WrittenInOrder AllWritten EntryAtFront NextRowInFront
PROPERTIES Termination
