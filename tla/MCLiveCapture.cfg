SPECIFICATION Spec
CONSTANTS
  Target = {d1, d2}
  d1 = d1
  d2 = d2
  STOP_TIMEOUT = 1
  STABLE_RUN = 1
  MaxId = 2
  MaxCount = 2
  MaxSeq = 2
  Lines = 2
  QueueCap = 1
  RecordLimit = 2
  Scopes = {FALSE}
  Discoveries = {{d1}, {d2}, {d1, d2}}
  Outcomes = {"ok", "refused", "abandoned", "unread"}
SYMMETRY Symmetry
CHECK_DEADLOCK FALSE
INVARIANTS
  EveryChildIsHeld
  ViewHasNoHoles
