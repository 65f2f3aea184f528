SPECIFICATION ReadingSpec
CONSTANTS
  Kinds = {"x", "y"}
  Queries = {"", "x", "("}
  EmptyQuery = ""
  InvalidQuery = {"("}
  MatchingText <- MCMatchingText
  Filters <- MCFilters
  MaxRows = 4
  MaxRetained = 3
  CatchUpRows = 1
  MaxActs = 1
  Files <- MCFiles
  Around = 1
  MaxReads = 2
CHECK_DEADLOCK FALSE
INVARIANTS
  ListIsExact
  SelectionIsListed
  ContextSurroundsItsOrigin
PROPERTIES
  OnlyTheUserSelects
