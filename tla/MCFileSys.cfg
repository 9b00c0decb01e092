SPECIFICATION Spec
CONSTANTS
  a = a
  b = b
  c = c
  None = None
  Names <- MCNames
  MaxFiles = 2
  MaxFileSize = 3
  Capacity = 3
  Word = 8
  Writes <- MCWrites
  Disks <- MCDisks
  Failing = {"register", "open", "stat", "write", "close", "remove", "unregister"}
INVARIANTS
  CacheIsTrue
  FilesStayBelowMaximum
PROPERTY
  FilesAreKept
