SPECIFICATION Spec
CONSTANTS
  Tasks = {t1, t2}
  Labels = {l1}
  MaxPartitions = 2
  Contexts = {c1, c2}
  Files = {f1, f2}
  FdCacheMinSize = 1
  None = None
  Names <- MCNames
  MaxDepth = 2
  Places <- MCPlaces
  MaxEntries = 2
SYMMETRY Symmetric
INVARIANTS
  DescriptorsHold
  ContextsStand
  OffsetTellsPlace
PROPERTIES
  KeptUnderItsName
CHECK_DEADLOCK FALSE
