SPECIFICATION FFairSpec
CONSTANTS
  Target = {d1}
  d1 = d1
  STOP_TIMEOUT = 1
  STABLE_RUN = 1
  MaxId = 2
  MaxCount = 1
  MaxSeq = 2
  Lines = 2
  QueueCap = 1
  RecordLimit = 2
  Scopes = {FALSE}
  Discoveries = {{d1}}
  Outcomes = {"ok"}
CHECK_DEADLOCK FALSE
INVARIANTS
  FileIsAlone
  SavedIsWhatGoes
PROPERTIES
  ReplaceEnds
  CancelledStaysOut
