SPECIFICATION Spec
CONSTANTS
  Kinds = {"set", "hashmap", "multimap"}
  Keys <- KeyNames
  Norm <- Folded
  Stored = {"a", "b", "c", "d"}
  Hash <- Hashes
  Data = {1, 2}
  Limits = {1, 2}
  MaxPuts = 5
  None = None
INVARIANTS TypeOK ProbeEnds Findable
PROPERTIES DictSpec
