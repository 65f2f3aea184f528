SPECIFICATION HintSpec
CONSTANTS
  Target = {t1, t2}
  t1 = t1
  t2 = t2
  STOP_TIMEOUT = 3
  STABLE_RUN = 4
  MaxId = 5
  Procs = {1, 2}
  Owner <- MCOwner
  PROCESS_HINT_TTL = 2
  MAX_PROCESSES = 1
  Queries = {q1, q2}
  q1 = q1
  q2 = q2
  MaxAsked = 2
SYMMETRY Symmetry
CHECK_DEADLOCK FALSE
INVARIANTS
  HintsAreCurrent
PROPERTIES
  StopIsFirm
  StopsAreJudged
  ContractSpec
