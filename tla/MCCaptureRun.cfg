SPECIFICATION FairSpec
CONSTANTS
  Target = {d1}
  d1 = d1
  STOP_TIMEOUT = 1
  STABLE_RUN = 1
  MaxId = 2
  MaxCount = 1
  MaxSeq = 3
  Lines = 2
  QueueCap = 1
  Dumps = {TRUE, FALSE}
  MAX_ENTRIES = 2
  STOP_WAIT = 1
  FLUSH_WAIT = 1
  Outcomes = {"ok", "refused", "orphaned", "abandoned", "unread"}
CHECK_DEADLOCK FALSE
INVARIANTS
  DocumentIsPrefix
  SuccessIsFinalized
PROPERTIES
  RunEnds
