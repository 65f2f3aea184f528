SPECIFICATION FairSpec
CONSTANTS
  Kinds = {"x", "y"}
  Queries = {"", "x", "("}
  EmptyQuery = ""
  InvalidQuery = {"("}
  MatchingText <- MCMatchingText
  Filters <- MCFilters
  MaxRows = 2
  MaxRetained = 2
  CatchUpRows = 1
  MaxActs = 2
  Files <- MCFiles
CHECK_DEADLOCK FALSE
PROPERTIES
  EditsSettle
