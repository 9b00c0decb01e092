SPECIFICATION Spec
CONSTANTS
  Names = {1, 2, 3}
  Blocks = {0, 1, 2, 3, 4, 5, 6, 7, 8, 9, 10, 11, 12}
  Setup <- Nested
  MaxTurns = 2
  Careful = TRUE
  MaxDepth = 2
  Places <- MostPlaces
  Calls = {"create", "mkdir", "remove", "rename", "renamedir"}
  MaxCalls = 2
  MaxCrashes = 1
INVARIANTS
  NoStaleCommit
  OrphansAreFlagged
  RepairsAreDone
PROPERTIES
  BlocksStayTaken
  NamespaceKept
CHECK_DEADLOCK FALSE
