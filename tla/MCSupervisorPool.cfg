CONSTANTS
  Entry = {e1, e2}
  None = None
  HelperCount = 2
  JobLimit = 2
  InteractiveReserve = 1
  InterestLimit = 2
  FailureLimit = 2
  ResetSuccesses = 2
  Faults = {"again", "io"}
SPECIFICATION Spec
SYMMETRY EntrySymmetry
INVARIANT WorkConserving
PROPERTY InteractiveFirst
CHECK_DEADLOCK FALSE
