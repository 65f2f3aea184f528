SPECIFICATION DrawFairSpec
CONSTANTS
  Target = {d1}
  d1 = d1
  STOP_TIMEOUT = 1
  STABLE_RUN = 1
  MaxId = 2
  MaxCount = 2
  MaxSeq = 2
  Lines = 1
  QueueCap = 1
  RecordLimit = 2
  Scopes = {TRUE}
  Discoveries = {{}, {d1}}
  Outcomes = {"ok", "refused"}
CHECK_DEADLOCK FALSE
PROPERTIES
  SnapshotIsBounded
  StopEnds
  WantedRuns
  SnapshotTimeEnds
