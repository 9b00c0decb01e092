SPECIFICATION Spec
CONSTANTS
  BlockCount = 8
  BlockSize = 8
  CacheSize = 4
  UnitSize = 2
  Lookahead = 3
  InlineMax = 4
  FileMax = 20
  Files = {1, 2}
  Handles = {1, 2}
  Modes <- AnyMode
  Sizes = {1, 5, 18}
  Places = {3, 8}
  Seeks <- SomeSeeks
  Avoided <- AllOfThem
  Setup <- ThreeBlocks
  MaxCalls = 3
  MaxWorn = 1
  MaxCrashes = 1
INVARIANTS
  AllocatorKeepsCount
PROPERTIES
  StoredStaysUntouched
  ContentsKept
CHECK_DEADLOCK FALSE
