SPECIFICATION Spec
CONSTANTS
  Names = {1, 2, 3}
  Values = {1}
  HeadA = a
  HeadB = b
  Spares = {s1, s2, s3}
  BlockTags = 12
  SplitTags = 6
  BlockCycles = 2
  RevModulus = 16
  Calls = {"create", "remove", "rename", "setattr", "sync", "open", "list"}
  Careful = TRUE
  Prelude = 3
  MaxCalls = 5
  MaxFaults = 1
SYMMETRY Symmetric
INVARIANTS
  LogsReadRight
  CommitsAreAtomic
  OpenFileKeepsEntry
  ListingKeepsPlace
PROPERTY
  ListedOnce
CHECK_DEADLOCK FALSE
