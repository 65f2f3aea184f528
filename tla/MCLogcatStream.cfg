SPECIFICATION FairSpec
CONSTANTS
  Sizes <- MCSizes
  QUEUE_BYTES = 2
  QueueCap = 2
  MaxMishaps = 1
CHECK_DEADLOCK FALSE
INVARIANT ExitTellsWhatIsMissing
PROPERTIES
  ChildContract
  EventsArePolled
