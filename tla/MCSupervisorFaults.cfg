CONSTANTS
  Entry = {e1, e2}
  None = None
  HelperCount = 1
  JobLimit = 2
  InteractiveReserve = 1
  InterestLimit = 2
  FailureLimit = 2
  ResetSuccesses = 2
  Faults = {"again", "io", "epoll", "assembly", "ids", "clock", "spawn"}
SPECIFICATION Spec
SYMMETRY EntrySymmetry
INVARIANT TypeOK
INVARIANT ListsMatchStates
INVARIANT HelpersHoldJobs
INVARIANT InterestsRuleJobs
INVARIANT NoQueryWhileCached
INVARIANT TimerCoversDeadlines
INVARIANT ShutdownIsQuiet
PROPERTY KeepsContract
CHECK_DEADLOCK FALSE
