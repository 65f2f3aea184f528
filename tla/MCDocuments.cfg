SPECIFICATION Spec
CONSTANTS
  CHUNK_SIZE = 2
  CHUNK_BYTES = 1
  TextBytes <- MCTextBytes
  NameBytes = 0
  Incidents = {"y"}
  Texts = {"x", "y"}
  Names = {"n"}
  Sessions = {1}
  MaxSeq = 4
  Budget = 8
  Target = 5
  LiveRows <- MCLiveRows
  Specs = {{"x"}}
  p1 = p1
  p2 = p2
  Paths = {p1, p2}
  Foreign <- MCForeign
  MaxJobs = 2
  MaxSaves = 1
  MaxBeside = 1
SYMMETRY MCPaths
INVARIANTS StoreIsExact SavedIsTheSnapshot DamagedNeverLoads GapsAreTold
PROPERTY OnlyWholeFilesAppear
CHECK_DEADLOCK FALSE
