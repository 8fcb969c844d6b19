CONSTANTS
  Entry = {e1, e2}
  None = None
  HelperCount = 1
  JobLimit = 2
  InteractiveReserve = 1
  InterestLimit = 2
  FailureLimit = 2
  ResetSuccesses = 2
  Faults = {}
SPECIFICATION FairSpec
PROPERTY QueriesEnd
PROPERTY RetriesHappen
PROPERTY BackoffEnds
PROPERTY ShutdownCompletes
PROPERTY InteractiveServed
CHECK_DEADLOCK FALSE
