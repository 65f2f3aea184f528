SPECIFICATION Spec
CONSTANTS
  Prefix = 1
  MaxRecords = 2
  Clients = {c1}
  c1 = c1
  Requests <- MCRequests
  Limit = 1
  Around = 1
  MaxCommands = 3
CHECK_DEADLOCK FALSE
INVARIANTS
  AnswersAreExact
  TokensVerify
PROPERTIES
  NothingAfterClosure
  NoFalseAlarm
