SPECIFICATION ExplorersSpec
CONSTANTS
  k1 = k1
  k2 = k2
  k3 = k3
  Keys = {k1, k2, k3}
  Stable = {k1, k2}
  Oversize = {}
  CursorOf <- MCCursorOf
  LastCursor = 1
  Filters = {"all", "some"}
  EmptyFilter = "all"
  Matching <- MCMatching
  MaxKeys = 2
  Selectable = {k1}
  Branches = {"schemas", "relations", "columns"}
  Level <- MCLevel
  Parent <- MCParent
  Nodes <- MCNodes
  StableNodes <- MCStableNodes
  Prefixes = {"", "x"}
  MatchingPlaces <- MCMatchingPlaces
  LevelCap <- MCLevelCap
  PageSize = 2
  BranchCap = 1
  TotalCap = 3
  MaxOperations = 3
  RecipeLimit = 2
  MaxSessions = 2
CHECK_DEADLOCK FALSE
INVARIANTS
  ScanComplete
  CatalogComplete
  CatalogAccounted
  ConnectedIsLive
PROPERTIES
  BrowsesSettle
