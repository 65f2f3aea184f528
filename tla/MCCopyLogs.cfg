SPECIFICATION CopySpec
CONSTANTS
  Kinds = {"x", "y"}
  Queries = {"", "x"}
  EmptyQuery = ""
  InvalidQuery = {}
  MatchingText <- MCMatchingText
  Filters <- MCFilters
  MaxRows = 1
  MaxRetained = 1
  CatchUpRows = 1
  MaxActs = 1
  Files <- MCFiles
  Around = 0
  MaxReads = 2
  MaxCopies = 2
CHECK_DEADLOCK FALSE
INVARIANTS
  ReadyCopyIsTheSelection
PROPERTIES
  OnlyCheckedRowsAreCopied
